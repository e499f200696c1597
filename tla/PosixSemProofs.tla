--------------------------- MODULE PosixSemProofs ---------------------------
(***************************************************************************)
(* Proofs about the POSIX semaphore, for any number of threads and any     *)
(* limit of its value.                                                     *)
(***************************************************************************)
EXTENDS PosixSem, FiniteSetTheorems, TLAPS

\* m_waiters counts the threads inside Wait's loop.
WaitersOK == waiters = Cardinality(Waiting)

\* Nobody waits on an address that holds no semaphore.
LifeOK == ~live => Waiting = {} /\ count = 0

\* The guest's copy is what SyncGuest last wrote for the state as it is.
GuestOK == live => guest = SyncGuest(count, waiters)

IInv == TypeOK /\ WaitersOK /\ LifeOK /\ GuestOK /\ UnitsAreCovered

-----------------------------------------------------------------------------
(* Counting threads                                                        *)

\* Any part of the threads is finite, and one more or one less member moves
\* its number by one.
LEMMA Counting ==
  ASSUME NEW S \in SUBSET Threads
  PROVE  /\ Cardinality(S) \in 0..Cardinality(Threads)
         /\ S = {} <=> Cardinality(S) = 0
         /\ \A t : t \notin S => Cardinality(S \cup {t}) = Cardinality(S) + 1
         /\ \A t \in S : Cardinality(S \ {t}) = Cardinality(S) - 1
<1>1. IsFiniteSet(Threads)
  BY PosixSemAssumption
<1>2. IsFiniteSet(S) /\ Cardinality(S) <= Cardinality(Threads)
  BY <1>1, FS_Subset
<1>3. Cardinality(S) \in Nat /\ Cardinality(Threads) \in Nat
  BY <1>1, <1>2, FS_CardinalityType
<1>4. S = {} <=> Cardinality(S) = 0
  BY <1>2, FS_EmptySet
<1>5. \A t : t \notin S => Cardinality(S \cup {t}) = Cardinality(S) + 1
  BY <1>2, FS_AddElement
<1>6. \A t \in S : Cardinality(S \ {t}) = Cardinality(S) - 1
  BY <1>2, FS_RemoveElement
<1> QED BY <1>2, <1>3, <1>4, <1>5, <1>6

\* The threads inside Wait are those asleep and those on their way out.
LEMMA WaitingParts ==
  ASSUME TypeOK
  PROVE  /\ Waiting \in SUBSET Threads /\ Asleep \in SUBSET Threads
         /\ Awake \in SUBSET Threads
         /\ Waiting = Asleep \cup Awake
  BY DEF TypeOK, Waiting, Asleep, Awake

\* What SyncGuest stores is a PosixSemGuest.
LEMMA GuestType ==
  ASSUME NEW c \in 0..ValueMax, NEW w \in Int
  PROVE  /\ SyncGuest(c, w) \in [count : 0..ValueMax, has_waiters : BOOLEAN]
         /\ SyncGuest(c, w).count = c
         /\ SyncGuest(c, w).has_waiters <=> w > 0
<1>1. (w > 0) \in BOOLEAN
  OBVIOUS
<1> QED BY <1>1 DEF SyncGuest

-----------------------------------------------------------------------------
(* The inductive invariant                                                 *)

LEMMA InitInv == Init => IInv
<1> SUFFICES ASSUME Init PROVE IInv
  OBVIOUS
<1> USE DEF Init
<1>1. Waiting = {} /\ Asleep = {}
  BY DEF Waiting, Asleep
<1>2. Cardinality(Waiting) = 0 /\ 0 \in 0..Cardinality(Threads)
  BY <1>1, Counting
<1>3. 0 \in 0..ValueMax
  BY PosixSemAssumption
<1>4. guest \in [count : 0..ValueMax, has_waiters : BOOLEAN]
  BY <1>3
<1>5. TypeOK
  BY <1>2, <1>3, <1>4 DEF TypeOK, Codes
<1> QED BY <1>1, <1>2, <1>5
       DEF IInv, WaitersOK, LifeOK, GuestOK, UnitsAreCovered

\* sem_init and sem_destroy, which need an idle address, and the calls that
\* find nothing there.
LEMMA LifeSteps ==
  ASSUME IInv, NEW t \in Threads,
         \/ \E v \in Values : SemInit(t, v)
         \/ SemDestroy(t)
         \/ NotFound(t)
  PROVE  IInv'
<1>1. pc' = pc /\ timed' = timed /\ ret' \in Codes
  BY DEF SemInit, SemDestroy, NotFound, Codes
<1>2. Waiting' = Waiting /\ Asleep' = Asleep /\ Awake' = Awake
  BY <1>1 DEF Waiting, Asleep, Awake
<1>3. CASE UNCHANGED <<live, count, waiters, guest>>
  BY <1>1, <1>2, <1>3
     DEF IInv, TypeOK, WaitersOK, LifeOK, GuestOK, UnitsAreCovered
<1>4. ASSUME NEW v \in 0..ValueMax, Waiting = {}, live' \in BOOLEAN,
             ~live' => v = 0, count' = v, waiters' = 0,
             guest' = SyncGuest(v, 0)
      PROVE  IInv'
  <2>1. Asleep = {} /\ Cardinality(Waiting) = 0
    BY <1>4, Counting DEF Waiting, Asleep
  <2>2. 0 \in 0..Cardinality(Threads)
    BY <2>1, Counting, WaitingParts DEF IInv
  <2>3. guest' \in [count : 0..ValueMax, has_waiters : BOOLEAN]
    BY <1>4, GuestType
  <2>4. TypeOK'
    BY <1>1, <1>4, <2>2, <2>3 DEF IInv, TypeOK
  <2> QED BY <1>2, <1>4, <2>1, <2>4
         DEF IInv, WaitersOK, LifeOK, GuestOK, UnitsAreCovered
<1>5. 0 \in 0..ValueMax
  BY PosixSemAssumption
<1>6. SyncGuest(0, 0) = [count |-> 0, has_waiters |-> FALSE]
  <2>1. (0 > 0) = FALSE
    BY SMT
  <2> QED BY <2>1, Zenon DEF SyncGuest
<1>7. \A v \in Values : ~(v > ValueMax) => v \in 0..ValueMax
  BY PosixSemAssumption
<1>8. CASE \E v \in Values : SemInit(t, v)
  BY <1>3, <1>4, <1>7, <1>8 DEF SemInit
<1>9. CASE SemDestroy(t)
  BY <1>3, <1>4, <1>5, <1>6, <1>9 DEF SemDestroy
<1>10. CASE NotFound(t)
  BY <1>3, <1>10 DEF NotFound
<1> QED BY <1>8, <1>9, <1>10

\* A thread takes a unit, or is refused one, without waiting.
LEMMA TrySteps ==
  ASSUME IInv, NEW t \in Threads,
         \/ Take(t)
         \/ \E code \in {"EAGAIN", "ETIMEDOUT"} : Fail(t, code)
  PROVE  IInv'
<1>1. /\ live /\ live' = live /\ waiters' = waiters
      /\ pc' = pc /\ timed' = timed /\ ret' \in Codes
  BY DEF Take, Fail, Codes
<1>2. Waiting' = Waiting /\ Asleep' = Asleep /\ Awake' = Awake
  BY <1>1 DEF Waiting, Asleep, Awake
<1>3. count \in 0..ValueMax /\ ValueMax \in Nat
  BY PosixSemAssumption DEF IInv, TypeOK
<1>4. /\ count' \in 0..ValueMax /\ count' <= count
      /\ guest' = SyncGuest(count', waiters')
  BY <1>1, <1>3 DEF Take, Fail
<1>5. waiters \in Int
  BY Counting, WaitingParts DEF IInv, WaitersOK
<1>6. guest' \in [count : 0..ValueMax, has_waiters : BOOLEAN]
  BY <1>1, <1>4, <1>5, GuestType
<1>7. TypeOK'
  BY <1>1, <1>4, <1>6 DEF IInv, TypeOK
<1>8. UnitsAreCovered'
  BY <1>2, <1>3, <1>4, Counting, WaitingParts DEF IInv, UnitsAreCovered
<1> QED BY <1>1, <1>2, <1>4, <1>7, <1>8 DEF IInv, WaitersOK, LifeOK, GuestOK

\* A thread registers itself and sleeps: there is no unit to cover.
LEMMA SleepStep ==
  ASSUME IInv, NEW t \in Threads, NEW limit \in BOOLEAN, Sleep(t, limit)
  PROVE  IInv'
<1>1. /\ live /\ live' = live /\ count' = count /\ ret' = ret
      /\ pc[t] = "run" /\ waiters' = waiters + 1
      /\ guest' = SyncGuest(count', waiters')
  BY DEF Sleep
<1>2. count = 0
  BY PosixSemAssumption DEF Sleep, IInv, TypeOK
<1>3. /\ pc' \in [Threads -> {"run", "asleep", "awake"}]
      /\ timed' \in [Threads -> BOOLEAN]
  BY DEF Sleep, IInv, TypeOK
<1>4. t \notin Waiting /\ Waiting' = Waiting \cup {t} /\ Awake' = Awake
  BY DEF Sleep, IInv, TypeOK, Waiting, Awake
<1>5. Waiting' \in SUBSET Threads /\ Waiting \in SUBSET Threads
      /\ Awake \in SUBSET Threads
  BY <1>4, WaitingParts DEF IInv
<1>6. waiters' = Cardinality(Waiting') /\ waiters' \in 0..Cardinality(Threads)
  <2>1. Cardinality(Waiting \cup {t}) = Cardinality(Waiting) + 1
    BY <1>4, <1>5, Counting
  <2>2. Cardinality(Waiting') \in 0..Cardinality(Threads)
    BY <1>5, Counting
  <2> QED BY <1>1, <1>4, <2>1, <2>2 DEF IInv, WaitersOK
<1>7. guest' \in [count : 0..ValueMax, has_waiters : BOOLEAN]
  BY <1>1, <1>6, GuestType DEF IInv, TypeOK
<1>8. TypeOK'
  BY <1>1, <1>3, <1>6, <1>7 DEF IInv, TypeOK
<1>9. UnitsAreCovered'
  <2>1. Cardinality(Awake) \in 0..Cardinality(Threads)
    BY <1>5, Counting
  <2> QED BY <1>1, <1>2, <1>4, <2>1 DEF UnitsAreCovered
<1> QED BY <1>1, <1>6, <1>8, <1>9 DEF IInv, WaitersOK, LifeOK, GuestOK

\* A sleep ends by itself: the thread now covers a unit.
LEMMA WakeStep ==
  ASSUME IInv, NEW t \in Threads, Wake(t)
  PROVE  IInv'
<1>1. UNCHANGED <<live, count, waiters, guest, timed, ret>>
  BY DEF Wake
<1>2. /\ pc' \in [Threads -> {"run", "asleep", "awake"}]
      /\ t \in Asleep /\ t \notin Awake
      /\ Waiting' = Waiting /\ Awake' = Awake \cup {t}
  BY DEF Wake, IInv, TypeOK, Waiting, Asleep, Awake
<1>3. Cardinality(Awake \cup {t}) = Cardinality(Awake) + 1
      /\ Cardinality(Awake) \in 0..Cardinality(Threads)
  BY <1>2, Counting, WaitingParts DEF IInv
<1>4. TypeOK'
  BY <1>1, <1>2 DEF IInv, TypeOK
<1>5. UnitsAreCovered'
  <2>1. count <= Cardinality(Awake) /\ count \in Int /\ Cardinality(Awake) \in Int
    BY <1>2, <1>3 DEF IInv, TypeOK, UnitsAreCovered
  <2> QED BY <1>1, <1>2, <1>3, <2>1 DEF UnitsAreCovered
<1> QED BY <1>1, <1>2, <1>4, <1>5 DEF IInv, WaitersOK, LifeOK, GuestOK

\* A thread out of its sleep goes round the loop: there is no unit to cover.
LEMMA AgainStep ==
  ASSUME IInv, NEW t \in Threads, Again(t)
  PROVE  IInv'
<1>1. /\ UNCHANGED <<live, count, timed, ret>>
      /\ pc[t] = "awake" /\ count <= 0
      /\ guest' = SyncGuest(count, waiters)
  BY DEF Again
<1>2. waiters \in Int /\ count \in 0..ValueMax
  BY Counting, WaitingParts DEF IInv, WaitersOK, TypeOK
<1>3. waiters' = waiters
  BY <1>2 DEF Again
<1>4. /\ pc' \in [Threads -> {"run", "asleep", "awake"}]
      /\ Waiting' = Waiting /\ Awake' \in SUBSET Threads
      /\ t \in Waiting
  BY DEF Again, IInv, TypeOK, Waiting, Awake
<1>5. guest' \in [count : 0..ValueMax, has_waiters : BOOLEAN]
  BY <1>1, <1>2, GuestType
<1>6. TypeOK'
  BY <1>1, <1>3, <1>4, <1>5 DEF IInv, TypeOK
<1>7. UnitsAreCovered'
  <2>1. Cardinality(Awake') \in 0..Cardinality(Threads)
    BY <1>4, Counting
  <2> QED BY <1>1, <1>2, <2>1 DEF UnitsAreCovered
<1> QED BY <1>1, <1>3, <1>4, <1>6, <1>7 DEF IInv, WaitersOK, LifeOK, GuestOK

\* A thread leaves the loop, with a unit or without one.
LEMMA LeaveSteps ==
  ASSUME IInv, NEW t \in Threads, Resume(t) \/ TimeOut(t)
  PROVE  IInv'
<1>1. /\ live' = live /\ waiters' = waiters - 1 /\ pc[t] = "awake"
      /\ guest' = SyncGuest(count', waiters') /\ ret' \in Codes
  BY DEF Resume, TimeOut, Codes
<1>2. /\ pc' \in [Threads -> {"run", "asleep", "awake"}]
      /\ timed' \in [Threads -> BOOLEAN]
      /\ t \in Waiting /\ Waiting' = Waiting \ {t}
      /\ t \in Awake /\ Awake' = Awake \ {t} /\ Asleep' = Asleep
  BY ZenonT(60) DEF Resume, TimeOut, IInv, TypeOK, Waiting, Awake, Asleep
<1>3. /\ Waiting \in SUBSET Threads /\ Waiting' \in SUBSET Threads
      /\ Awake \in SUBSET Threads
  BY <1>2, WaitingParts DEF IInv
<1>4. count \in 0..ValueMax /\ ValueMax \in Nat
  BY PosixSemAssumption DEF IInv, TypeOK
<1>5. count' \in 0..ValueMax /\ (count' = count - 1 \/ count' = 0)
  BY <1>4 DEF Resume, TimeOut
<1>6. waiters' = Cardinality(Waiting') /\ waiters' \in 0..Cardinality(Threads)
  <2>1. Cardinality(Waiting \ {t}) = Cardinality(Waiting) - 1
    BY <1>2, <1>3, Counting
  <2>2. Cardinality(Waiting') \in 0..Cardinality(Threads)
    BY <1>3, Counting
  <2> QED BY <1>1, <1>2, <2>1, <2>2 DEF IInv, WaitersOK
<1>7. guest' \in [count : 0..ValueMax, has_waiters : BOOLEAN]
  BY <1>1, <1>5, <1>6, GuestType
<1>8. TypeOK'
  BY <1>1, <1>2, <1>5, <1>6, <1>7 DEF IInv, TypeOK
<1>9. UnitsAreCovered'
  <2>1. Cardinality(Awake \ {t}) = Cardinality(Awake) - 1
    BY <1>2, <1>3, Counting
  <2>2. Cardinality(Awake) \in Int /\ Cardinality(Awake) - 1 >= 0
    <3>1. Cardinality(Awake) \in 0..Cardinality(Threads)
          /\ Cardinality(Awake) # 0
      BY <1>2, <1>3, Counting
    <3> QED BY <3>1
  <2>3. Asleep # {} => count <= Cardinality(Awake)
    BY DEF IInv, UnitsAreCovered
  <2> QED BY <1>2, <1>4, <1>5, <2>1, <2>2, <2>3 DEF UnitsAreCovered
<1>10. LifeOK'
  <2>1. live
    BY <1>2 DEF IInv, LifeOK
  <2> QED BY <1>1, <2>1 DEF LifeOK
<1> QED BY <1>1, <1>6, <1>8, <1>9, <1>10 DEF IInv, WaitersOK, GuestOK

\* A unit is added, and some sleeper is set on its way to it.
LEMMA PostStep ==
  ASSUME IInv, NEW t \in Threads, Post(t)
  PROVE  IInv'
<1>1. live /\ UNCHANGED <<live, waiters, timed>>
  BY DEF Post
<1>2. CASE AtMax
  <2>1. UNCHANGED <<count, guest, pc>> /\ ret' \in Codes
    BY <1>2 DEF Post, Codes
  <2> QED BY <1>1, <2>1
         DEF IInv, TypeOK, WaitersOK, LifeOK, GuestOK, UnitsAreCovered,
             Waiting, Asleep, Awake
<1>3. CASE ~AtMax
  <2>1. /\ count' = count + 1 /\ guest' = SyncGuest(count', waiters')
        /\ Notify(count) /\ ret' \in Codes
    BY <1>1, <1>3 DEF Post, Codes
  <2>2. count \in 0..ValueMax /\ count' \in 0..ValueMax
    BY <1>3, <2>1, PosixSemAssumption DEF IInv, TypeOK, AtMax
  <2>3. /\ pc' \in [Threads -> {"run", "asleep", "awake"}]
        /\ Waiting' = Waiting
    BY <2>1 DEF Notify, IInv, TypeOK, Waiting, Asleep
  <2>4. waiters \in Int
    BY Counting, WaitingParts DEF IInv, WaitersOK
  <2>5. guest' \in [count : 0..ValueMax, has_waiters : BOOLEAN]
    BY <1>1, <2>1, <2>2, <2>4, GuestType
  <2>6. TypeOK'
    BY <1>1, <2>1, <2>2, <2>3, <2>5 DEF IInv, TypeOK
  <2>7. CASE Asleep = {}
    <3>1. Asleep' = {}
      BY <2>1, <2>7 DEF Notify, Asleep
    <3> QED BY <1>1, <2>1, <2>3, <2>6, <3>1
           DEF IInv, WaitersOK, LifeOK, GuestOK, UnitsAreCovered
  <2>8. CASE Asleep # {}
    <3>1. PICK u \in Asleep : pc' = [pc EXCEPT ![u] = "awake"]
      BY <2>1, <2>8 DEF Notify
    <3>2. u \notin Awake /\ Awake' = Awake \cup {u}
      BY <3>1 DEF IInv, TypeOK, Asleep, Awake
    <3>3. Cardinality(Awake') = Cardinality(Awake) + 1
          /\ Cardinality(Awake) \in 0..Cardinality(Threads)
      BY <3>2, Counting, WaitingParts DEF IInv
    <3>4. count <= Cardinality(Awake)
      BY <2>8 DEF IInv, UnitsAreCovered
    <3>5. UnitsAreCovered'
      BY <2>1, <2>2, <3>3, <3>4 DEF UnitsAreCovered
    <3> QED BY <1>1, <2>1, <2>3, <2>6, <3>5
           DEF IInv, WaitersOK, LifeOK, GuestOK
  <2> QED BY <2>7, <2>8
<1> QED BY <1>2, <1>3

LEMMA NextInv == IInv /\ [Next]_vars => IInv'
<1> SUFFICES ASSUME IInv, [Next]_vars PROVE IInv'
  OBVIOUS
<1>1. CASE UNCHANGED vars
  BY <1>1 DEF vars, IInv, TypeOK, WaitersOK, LifeOK, GuestOK, UnitsAreCovered,
              Waiting, Asleep, Awake
<1>2. ASSUME NEW t \in Threads,
             \/ \E v \in Values : SemInit(t, v)
             \/ SemDestroy(t)
             \/ NotFound(t)
      PROVE  IInv'
  BY <1>2, LifeSteps
<1>3. ASSUME NEW t \in Threads,
             \/ Take(t)
             \/ \E code \in {"EAGAIN", "ETIMEDOUT"} : Fail(t, code)
      PROVE  IInv'
  BY <1>3, TrySteps
<1>4. ASSUME NEW t \in Threads, \E limit \in BOOLEAN : Sleep(t, limit)
      PROVE  IInv'
  BY <1>4, SleepStep
<1>5. ASSUME NEW t \in Threads, Wake(t) PROVE IInv'
  BY <1>5, WakeStep
<1>6. ASSUME NEW t \in Threads, Again(t) PROVE IInv'
  BY <1>6, AgainStep
<1>7. ASSUME NEW t \in Threads, Resume(t) \/ TimeOut(t) PROVE IInv'
  BY <1>7, LeaveSteps
<1>8. ASSUME NEW t \in Threads, Post(t) PROVE IInv'
  BY <1>8, PostStep
<1> QED BY <1>1, <1>2, <1>3, <1>4, <1>5, <1>6, <1>7, <1>8 DEF Next

-----------------------------------------------------------------------------
(* The theorems                                                            *)

\* The inductive invariant holds in every reachable state of any semaphore.
THEOREM Invariance == Spec => []IInv
<1> QED BY InitInv, NextInv, PTL DEF Spec

\* Every variable keeps its type; m_count never leaves 0..POSIX_SEM_VALUE_MAX.
THEOREM TypeCorrect == Spec => []TypeOK
<1>1. IInv => TypeOK
  BY DEF IInv
<1> QED BY Invariance, <1>1, PTL

\* While a thread sleeps in WaitFor, Post's single notification has always put
\* enough threads on their way for the units in m_count, for any number of
\* waiters, posts, timeouts and units taken by a call that came later.
THEOREM NoUnitIsStranded == Spec => []UnitsAreCovered
<1>1. IInv => UnitsAreCovered
  BY DEF IInv
<1> QED BY Invariance, <1>1, PTL

\* What the guest reads of a live semaphore is its count and whether it has
\* waiters, whichever calls last wrote the copy.
THEOREM GuestSeesTheTruth == Spec => []GuestCopyExact
<1>1. IInv => GuestCopyExact
  <2> SUFFICES ASSUME IInv, live PROVE GuestCopyExact
    BY DEF GuestCopyExact
  <2>1. guest = SyncGuest(count, waiters) /\ count \in 0..ValueMax
    BY DEF IInv, GuestOK, TypeOK
  <2>2. waiters = Cardinality(Waiting) /\ Waiting \in SUBSET Threads
    BY WaitingParts DEF IInv, WaitersOK
  <2>3. waiters \in Nat /\ (waiters = 0 <=> Waiting = {})
    BY <2>2, Counting
  <2>4. guest.count = count /\ (guest.has_waiters <=> waiters > 0)
    BY <2>1, <2>3, GuestType
  <2> QED BY <2>3, <2>4 DEF GuestCopyExact
<1> QED BY Invariance, <1>1, PTL

=============================================================================
