---------------------------- MODULE PthreadSync -----------------------------
(***************************************************************************)
(* The guest mutex and condition variable of kernel/pthread.cpp: one       *)
(* PthreadMutexPrivate and one PthreadCondPrivate used with it.            *)
(*                                                                         *)
(* Each object is guarded by a host mutex m; an action is one critical     *)
(* section of it.  Wakeups are sent after m has been released, by          *)
(* notify_one (mutex) or notify_all (condition), so sending is an action   *)
(* of its own.  A condition wait keeps cond->m from the moment it          *)
(* registers until it sleeps, with the mutex released in between.          *)
(*                                                                         *)
(* Every sleep is cut short after 10 ms at most, to dispatch guest         *)
(* signals: a sleeper may wake by itself at any time.                      *)
(*                                                                         *)
(* The sequence numbers are only ever compared with a value captured when  *)
(* the wait began, so the model keeps whether they have moved since.       *)
(***************************************************************************)
EXTENDS Integers, Sequences, FiniteSets, SequencesExt

CONSTANTS
  Threads,        \* guest threads
  NoThread,       \* nullptr, as an owner
  CountMax        \* UINT32_MAX

ASSUME SyncAssumption ==
  /\ NoThread \notin Threads
  /\ CountMax \in Nat \ {0}

VARIABLES
  type,           \* mutex->type, for good: 2 is recursive, 1 stands for the others
  owner, count,   \* mutex->owner, mutex->count
  waiters,        \* cond->waiters
  condHeld,       \* the thread keeping cond->m across a release of the mutex
  pc,             \* where each thread is
  call,           \* what each thread inside a call is doing, see Call
  moved,          \* cond->sequence or the thread's cond_sequence has moved
  held,           \* history: locks each thread was told it got, less its unlocks
  ret             \* code returned by the call that ended last

vars == <<type, owner, count, waiters, condHeld, pc, call, moved, held, ret>>

\* A call may be limited in time; a condition wait remembers the recursion
\* count it gave up and, once decided, its result.
Call == [timed : BOOLEAN, recurse : 0..CountMax, result : {"none", "OK", "ETIMEDOUT"}]
NoCall == [timed |-> FALSE, recurse |-> 0, result |-> "none"]

Codes == {"OK", "EAGAIN", "EBUSY", "EDEADLK", "EPERM", "ETIMEDOUT"}

\* mwait, mself and cwait are asleep; mawake and cawake are off the condition
\* variable and have yet to take m; mnotify, cnotify and cbcast owe a notify.
Places == {"run", "mwait", "mself", "mawake", "mnotify",
           "cnotify", "cwait", "cawake", "cbcast", "relock"}

TypeOK ==
  /\ type \in {1, 2}
  /\ owner \in Threads \cup {NoThread} /\ count \in 0..CountMax
  /\ waiters \in Seq(Threads)
  /\ condHeld \in Threads \cup {NoThread}
  /\ pc \in [Threads -> Places]
  /\ call \in [Threads -> Call]
  /\ moved \in [Threads -> BOOLEAN]
  /\ held \in [Threads -> 0..CountMax]
  /\ ret \in Codes

Init ==
  /\ type \in {1, 2}
  /\ owner = NoThread /\ count = 0 /\ waiters = <<>> /\ condHeld = NoThread
  /\ pc = [t \in Threads |-> "run"]
  /\ call = [t \in Threads |-> NoCall]
  /\ moved = [t \in Threads |-> FALSE]
  /\ held = [t \in Threads |-> 0]
  /\ ret = "OK"

Goto(t, where) == pc' = [pc EXCEPT ![t] = where]
mutex == <<type, owner, count, held>>
cond  == <<waiters, condHeld, moved>>
Recursive == type = 2

-----------------------------------------------------------------------------
(* The mutex                                                               *)

\* t becomes the owner, n deep.
Own(t, n) == owner' = t /\ count' = n /\ type' = type

\* The history: t's lock succeeds, or its unlock does.  A condition wait is
\* neither: to its caller the mutex is held before it and after it.
Locked(t)   == held' = [held EXCEPT ![t] = @ + 1]
Unlocked(t) == held' = [held EXCEPT ![t] = @ - 1]

\* NativeMutexLock and NativeMutexTrylock find the mutex free.
LockFree(t) ==
  /\ pc[t] = "run" /\ owner = NoThread
  /\ Own(t, 1) /\ Locked(t) /\ ret' = "OK"
  /\ UNCHANGED <<cond, pc, call>>

\* They find it owned by the caller and recursive.
LockRecursive(t) ==
  /\ pc[t] = "run" /\ owner = t /\ Recursive
  /\ IF count = CountMax
     THEN ret' = "EAGAIN" /\ UNCHANGED mutex
     ELSE Own(t, count + 1) /\ Locked(t) /\ ret' = "OK"
  /\ UNCHANGED <<cond, pc, call>>

\* They find it owned by the caller and not recursive.
LockSelf(t, how) ==
  /\ pc[t] = "run" /\ owner = t /\ ~Recursive
  /\ \/ how = "lock" /\ ret' = "EDEADLK" /\ pc' = pc
     \/ how = "try"  /\ ret' = "EBUSY" /\ pc' = pc
     \/ how = "zero" /\ ret' = "ETIMEDOUT" /\ pc' = pc
     \/ how = "time" /\ ret' = ret /\ Goto(t, "mself")
  /\ UNCHANGED <<mutex, cond, call>>

\* The time of a lock of one's own mutex runs out.
SelfTimeOut(t) ==
  /\ pc[t] = "mself" /\ Goto(t, "run") /\ ret' = "ETIMEDOUT"
  /\ UNCHANGED <<mutex, cond, call>>

\* They find it owned by another thread.
LockBusy(t, how) ==
  /\ pc[t] = "run" /\ owner \notin {t, NoThread}
  /\ \/ how = "try"  /\ ret' = "EBUSY" /\ UNCHANGED <<pc, call>>
     \/ how = "zero" /\ ret' = "ETIMEDOUT" /\ UNCHANGED <<pc, call>>
     \/ /\ how \in {"lock", "time"} /\ ret' = ret /\ Goto(t, "mwait")
        /\ call' = [call EXCEPT ![t].timed = (how = "time")]
  /\ UNCHANGED <<mutex, cond>>

\* A sleep on the mutex ends by itself.
LockWake(t) ==
  /\ pc[t] = "mwait" /\ Goto(t, "mawake")
  /\ UNCHANGED <<mutex, cond, call, ret>>

\* Seeded defect: a sleeper that wakes takes the mutex without another look.
LockResumeBlind(t) ==
  /\ pc[t] = "mawake"
  /\ IF call[t].recurse > 0
     THEN Own(t, call[t].recurse) /\ held' = held
     ELSE Own(t, 1) /\ Locked(t)
  /\ ret' = "OK" /\ call' = [call EXCEPT ![t] = NoCall] /\ Goto(t, "run")
  /\ UNCHANGED cond

\* A sleeper finds the mutex free.  After a condition wait it also restores
\* the recursion count: NativeMutexLockRecurse, whose second critical section
\* touches only the count of a mutex its thread owns.
LockResume(t) ==
  /\ pc[t] = "mawake" /\ owner = NoThread
  /\ IF call[t].recurse > 0
     THEN Own(t, call[t].recurse) /\ held' = held /\ ret' = call[t].result
     ELSE Own(t, 1) /\ Locked(t) /\ ret' = "OK"
  /\ call' = [call EXCEPT ![t] = NoCall]
  /\ Goto(t, "run")
  /\ UNCHANGED cond

\* It finds the mutex taken, and sleeps again.
LockAgain(t) ==
  /\ pc[t] = "mawake" /\ owner # NoThread /\ Goto(t, "mwait")
  /\ UNCHANGED <<mutex, cond, call, ret>>

\* It finds the mutex taken and its time used up.
LockTimeOut(t) ==
  /\ pc[t] = "mawake" /\ owner # NoThread /\ call[t].timed
  /\ call[t].recurse = 0
  /\ Goto(t, "run") /\ call' = [call EXCEPT ![t] = NoCall] /\ ret' = "ETIMEDOUT"
  /\ UNCHANGED <<mutex, cond>>

\* NativeMutexUnlock.
Unlock(t) ==
  /\ pc[t] = "run"
  /\ \/ /\ owner # t /\ ret' = "EPERM" /\ UNCHANGED <<mutex, pc>>
     \/ /\ owner = t /\ Recursive /\ count > 1
        /\ Own(t, count - 1) /\ Unlocked(t) /\ ret' = "OK" /\ pc' = pc
     \/ /\ owner = t /\ ~(Recursive /\ count > 1)
        /\ owner' = NoThread /\ count' = 0 /\ type' = type /\ Unlocked(t)
        /\ Goto(t, "mnotify") /\ ret' = ret
  /\ UNCHANGED <<cond, call>>

\* Seeded defect: the thread that unlocks tells nobody.
WokenByNone(t, where) == Goto(t, where)

\* notify_one on the mutex by t, which goes on at where: one sleeper, if any.
WokenByOne(t, where) ==
  LET asleep == {u \in Threads : pc[u] \in {"mwait", "mself"}}
  IN  IF asleep = {}
      THEN Goto(t, where)
      ELSE \E u \in asleep :
             pc' = [pc EXCEPT ![t] = where,
                              ![u] = IF @ = "mself" THEN "mself" ELSE "mawake"]

UnlockNotify(t) ==
  /\ pc[t] = "mnotify"
  /\ WokenByOne(t, "run") /\ ret' = "OK"
  /\ UNCHANGED <<mutex, cond, call>>

-----------------------------------------------------------------------------
(* The condition variable                                                  *)

InWait(t) == pc[t] \in {"cnotify", "cwait", "cawake"}

\* CondRemoveWaiter: find and erase.
WaitersWithout(t) ==
  IF t \in ToSet(waiters)
  THEN RemoveAt(waiters, CHOOSE k \in 1..Len(waiters) : waiters[k] = t)
  ELSE waiters

\* PthreadCondWait and the timed waits, up to the release of the mutex.
CondWait(t, how) ==
  /\ pc[t] = "run"
  /\ \/ owner # t /\ ret' = "EPERM" /\ UNCHANGED <<mutex, cond, pc, call>>
     \/ /\ owner = t /\ condHeld = NoThread
        /\ condHeld' = t /\ waiters' = Append(waiters, t)
        /\ moved' = [moved EXCEPT ![t] = FALSE]
        /\ call' = [call EXCEPT ![t] =
                      [timed |-> how # "wait", recurse |-> count,
                       result |-> IF how = "zero" THEN "ETIMEDOUT" ELSE "none"]]
        /\ owner' = NoThread /\ count' = 0 /\ UNCHANGED <<type, held>>
        /\ Goto(t, "cnotify") /\ ret' = ret

\* The wakeup the release owes, then the sleep; a wait of no time at all
\* leaves the waiters instead.  Either way cond->m is given up.
CondSleep(t) ==
  /\ pc[t] = "cnotify"
  /\ IF call[t].result = "none"
     THEN WokenByOne(t, "cwait") /\ waiters' = waiters
     ELSE WokenByOne(t, "relock") /\ waiters' = WaitersWithout(t)
  /\ condHeld' = NoThread
  /\ UNCHANGED <<mutex, call, moved, ret>>

\* A sleep on the condition ends by itself.
CondWake(t) ==
  /\ pc[t] = "cwait" /\ Goto(t, "cawake")
  /\ UNCHANGED <<mutex, cond, call, ret>>

\* The wait is decided: t leaves the waiters and goes for the mutex.
Decide(t, result) ==
  /\ waiters' = WaitersWithout(t)
  /\ call' = [call EXCEPT ![t].result = result]
  /\ Goto(t, "relock")
  /\ UNCHANGED <<mutex, condHeld, moved, ret>>

CondReady(t) ==
  /\ pc[t] = "cawake" /\ condHeld = NoThread /\ moved[t]
  /\ Decide(t, "OK")

\* Seeded defect: the deadline decides, whatever has been signalled.
CondTimeOutFirst(t) ==
  /\ pc[t] = "cawake" /\ condHeld = NoThread /\ call[t].timed
  /\ Decide(t, "ETIMEDOUT")

CondTimeOut(t) ==
  /\ pc[t] = "cawake" /\ condHeld = NoThread /\ call[t].timed /\ ~moved[t]
  /\ Decide(t, "ETIMEDOUT")

CondAgain(t) ==
  /\ pc[t] = "cawake" /\ condHeld = NoThread /\ ~moved[t] /\ Goto(t, "cwait")
  /\ UNCHANGED <<mutex, cond, call, ret>>

\* Seeded defect: the mutex is taken back one level deep.
RelockShallow(t) ==
  /\ pc[t] = "relock" /\ owner = NoThread
  /\ Own(t, 1) /\ held' = held /\ ret' = call[t].result
  /\ call' = [call EXCEPT ![t] = NoCall] /\ Goto(t, "run")
  /\ UNCHANGED cond

\* NativeMutexLockRecurse finds the mutex free at once, or sleeps.
Relock(t) ==
  /\ pc[t] = "relock"
  /\ IF owner = NoThread
     THEN /\ Own(t, call[t].recurse) /\ held' = held /\ ret' = call[t].result
          /\ call' = [call EXCEPT ![t] = NoCall] /\ Goto(t, "run")
     ELSE Goto(t, "mwait") /\ UNCHANGED <<mutex, call, ret>>
  /\ UNCHANGED cond

\* Signalling does nothing when nobody is registered, or when the thread that
\* PthreadCondSignalto names is not.
SignalNone(t) ==
  /\ pc[t] = "run" /\ condHeld = NoThread
  /\ \E u \in Threads : u \notin ToSet(waiters)
  /\ ret' = "OK" /\ UNCHANGED <<mutex, cond, pc, call>>

\* CondWakeWaiter on u, by t.
Free(t, u) ==
  /\ pc[t] = "run" /\ condHeld = NoThread
  /\ u \in ToSet(waiters)
  /\ waiters' = WaitersWithout(u)
  /\ moved' = [moved EXCEPT ![u] = TRUE]
  /\ Goto(t, "cbcast")
  /\ UNCHANGED <<mutex, condHeld, call, ret>>

\* PthreadCondSignal frees the thread that has waited longest.
Signal(t) == waiters # <<>> /\ Free(t, Head(waiters))

\* PthreadCondSignalto frees the one it is given.
SignalTo(t, u) == Free(t, u)

\* Seeded defect: the waiters are forgotten and the sequence stays.
BroadcastForgets(t) ==
  /\ pc[t] = "run" /\ condHeld = NoThread /\ waiters # <<>>
  /\ waiters' = <<>> /\ moved' = moved
  /\ Goto(t, "cbcast")
  /\ UNCHANGED <<mutex, condHeld, call, ret>>

\* PthreadCondBroadcast moves cond->sequence for every wait under way.
Broadcast(t) ==
  /\ pc[t] = "run" /\ condHeld = NoThread /\ waiters # <<>>
  /\ waiters' = <<>>
  /\ moved' = [u \in Threads |-> moved[u] \/ InWait(u)]
  /\ Goto(t, "cbcast")
  /\ UNCHANGED <<mutex, condHeld, call, ret>>

\* notify_all, after cond->m has been released.
CondNotify(t) ==
  /\ pc[t] = "cbcast"
  /\ pc' = [u \in Threads |-> IF u = t THEN "run"
                              ELSE IF pc[u] = "cwait" THEN "cawake" ELSE pc[u]]
  /\ ret' = "OK"
  /\ UNCHANGED <<mutex, cond, call>>

Next ==
  \E t \in Threads :
    \/ LockFree(t) \/ LockRecursive(t) \/ LockResume(t) \/ LockAgain(t)
    \/ \E how \in {"lock", "try", "zero", "time"} : LockSelf(t, how) \/ LockBusy(t, how)
    \/ SelfTimeOut(t) \/ LockWake(t) \/ LockTimeOut(t)
    \/ Unlock(t) \/ UnlockNotify(t)
    \/ \E how \in {"wait", "time", "zero"} : CondWait(t, how)
    \/ CondSleep(t) \/ CondWake(t) \/ CondReady(t) \/ CondTimeOut(t) \/ CondAgain(t)
    \/ Relock(t) \/ SignalNone(t) \/ Signal(t) \/ Broadcast(t) \/ CondNotify(t)
    \/ \E u \in Threads : SignalTo(t, u)

\* A thread that is not asleep goes on and sleeps end; nothing is assumed of
\* when a guest calls.  A woken waiter competes for cond->m, which waits
\* elsewhere keep giving up: that it gets the lock at last is the host
\* mutex's promise, hence the strong fairness.
Fairness ==
  \A t \in Threads :
    /\ WF_vars(LockWake(t)) /\ WF_vars(LockResume(t) \/ LockAgain(t))
    /\ WF_vars(UnlockNotify(t)) /\ WF_vars(CondNotify(t))
    /\ WF_vars(CondSleep(t)) /\ WF_vars(CondWake(t))
    /\ SF_vars(CondReady(t) \/ CondAgain(t)) /\ WF_vars(Relock(t))

Spec == Init /\ [][Next]_vars /\ Fairness

-----------------------------------------------------------------------------
(* Properties                                                              *)

\* Where a thread stands with its condition wait: one that somebody has freed
\* is woken, one that goes for the mutex is what its result says.
Phase(t) ==
  IF InWait(t)
  THEN IF moved[t] THEN "woken" ELSE "waiting"
  ELSE CASE call[t].result = "OK" -> "woken"
         [] call[t].result = "ETIMEDOUT" -> "timedout"
         [] OTHER -> "run"

\* Every thread outside a condition wait owns the mutex as deep as it was told
\* by the calls it made, and not at all if it gave back all it was told: a
\* condition wait gives up every level and takes back as many, a refused lock
\* counts for nothing, and no two threads are told the mutex is theirs.
HoldersAgree ==
  \A t \in Threads :
    Phase(t) = "run" => held[t] = IF owner = t THEN count ELSE 0

\* A thread in a condition wait that nobody has freed is registered, once: a
\* signal that finds no waiter registered really comes when nobody waits.
NoForgottenWaiter ==
  /\ \A t \in Threads : InWait(t) /\ ~moved[t] <=> t \in ToSet(waiters)
  /\ IsInjective(waiters)

\* No waiter is left asleep beside a free mutex: somebody is awake to take
\* it, or is about to send the wakeup.
FreeMutexIsNoticed ==
  owner = NoThread /\ (\E t \in Threads : pc[t] = "mwait")
    => \E t \in Threads : pc[t] \in {"mawake", "mnotify", "cnotify", "relock"}

\* A wait freed by a signal or a broadcast reports OK, also when its time ran
\* out meanwhile, and one that was not reports a timeout: signals are neither
\* lost on a thread that gives up nor invented.
SignalIsReported ==
  [][\A t \in Threads :
       call[t].result = "none" /\ call'[t].result # "none" /\ pc[t] = "cawake"
         => (call'[t].result = "OK" <=> t \notin ToSet(waiters))]_vars

\* The abstract monitor.
Monitor == INSTANCE PthreadMonitor WITH
  depth <- count,
  phase <- [t \in Threads |-> Phase(t)],
  saved <- [t \in Threads |-> call[t].recurse]

\* The implementation refines the monitor: releasing the mutex and joining the
\* waiters is atomic to every other thread, a broadcast frees all who wait at
\* that moment, and every wait ends as the owner at the depth it began with.
ImplementsMonitor == Monitor!Spec
=============================================================================
