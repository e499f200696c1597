---------------------------- MODULE PthreadRwlock ----------------------------
(***************************************************************************)
(* The guest reader/writer lock of kernel/pthread.cpp: one                 *)
(* PthreadRwlockPrivate, the calls that lock and unlock it, its            *)
(* destruction and its initialisation.                                     *)
(*                                                                         *)
(* The lock is read and changed in critical sections of the host mutex m,  *)
(* one action each; wakeups are sent inside them.  A blocking call is a    *)
(* loop that looks at the lock, sleeps for 10 ms at most, gives up m,      *)
(* dispatches guest signals and looks again.  Only the end of the object   *)
(* is outside: PthreadRwlockDestroy looks at the holders under m, gives m  *)
(* up, and deletes the object afterwards, whatever has happened meanwhile. *)
(***************************************************************************)
EXTENDS Integers, FiniteSets

CONSTANTS
  Threads,        \* guest threads
  NoThread,       \* nullptr, as a writer
  HoldMax         \* bound: how often a thread takes the lock for reading

ASSUME RwlockAssumption ==
  /\ NoThread \notin Threads
  /\ IsFiniteSet(Threads)
  /\ HoldMax \in Nat \ {0}

VARIABLES
  alive,          \* the object exists
  writer, writer_count,
  readers,        \* count of each thread's Reader, 0 when it has none
  reader_count, waiting_writers,
  pc,             \* "run", "look" before a look at the lock, "sleep", or
                  \* "free" before the delete
  call,           \* the blocking call of each thread, see Call
  ret,            \* code returned by the call that ended last
  depth,          \* history: locks each thread was told it got, less its unlocks
  writing         \* history: the threads told they have it for writing

vars == <<alive, writer, writer_count, readers, reader_count, waiting_writers,
          pc, call, ret, depth, writing>>
lock == <<writer, writer_count, readers, reader_count, depth, writing>>

Limits == {"none", "zero", "time"}
Call == [write : BOOLEAN, limit : Limits, registered : BOOLEAN]
NoCall == [write |-> FALSE, limit |-> "none", registered |-> FALSE]

Codes == {"OK", "EBUSY", "EDEADLK", "EPERM", "ETIMEDOUT"}

TypeOK ==
  /\ alive \in BOOLEAN
  /\ writer \in Threads \cup {NoThread} /\ writer_count \in {0, 1}
  /\ readers \in [Threads -> 0..HoldMax]
  /\ reader_count \in Nat /\ waiting_writers \in Nat
  /\ pc \in [Threads -> {"run", "look", "sleep", "free"}]
  /\ call \in [Threads -> Call]
  /\ ret \in Codes
  /\ depth \in [Threads -> Nat] /\ writing \in SUBSET Threads

Init ==
  /\ alive = TRUE
  /\ writer = NoThread /\ writer_count = 0
  /\ readers = [t \in Threads |-> 0] /\ reader_count = 0
  /\ waiting_writers = 0
  /\ pc = [t \in Threads |-> "run"]
  /\ call = [t \in Threads |-> NoCall]
  /\ ret = "OK"
  /\ depth = [t \in Threads |-> 0] /\ writing = {}

Goto(t, where) == pc' = [pc EXCEPT ![t] = where]

-----------------------------------------------------------------------------
(* When the lock is granted                                                *)

\* RwlockFindReader
IsReader(t) == readers[t] > 0

\* Seeded defect: a reader of the lock queues behind a waiting writer.
MayReadPolite(t) ==
  \/ writer = NoThread /\ waiting_writers = 0
  \/ writer = t

\* Seeded defect: waiting writers keep nobody out.
MayReadGreedy(t) == writer \in {NoThread, t}

\* Waiting writers keep new readers out, but not those who have the lock.
MayRead(t) ==
  \/ writer = NoThread /\ (waiting_writers = 0 \/ IsReader(t))
  \/ writer = t

\* Seeded defect: the count of readers is not looked at.
MayWriteBeside(t) == writer = NoThread

MayWrite(t) == writer = NoThread /\ reader_count = 0

\* A lock for writing by a thread that has the lock.
Deadlocked(t) == writer = t \/ IsReader(t)

\* Bound: the guest does not ask for more.
MayAsk(t) == readers[t] < HoldMax

\* RwlockAddReader
AddReader(t) ==
  /\ readers' = [readers EXCEPT ![t] = @ + 1]
  /\ reader_count' = reader_count + 1
  /\ UNCHANGED <<writer, writer_count>>

Write(t) ==
  /\ writer' = t /\ writer_count' = 1
  /\ UNCHANGED <<readers, reader_count>>

\* The history.  What a thread has for writing it has until it has unlocked as
\* often as it was told it got the lock.
Told(t, write) ==
  /\ depth' = [depth EXCEPT ![t] = @ + 1]
  /\ writing' = IF write THEN writing \cup {t} ELSE writing

GivenBack(t) ==
  /\ depth' = [depth EXCEPT ![t] = @ - 1]
  /\ writing' = IF depth[t] = 1 THEN writing \ {t} ELSE writing

\* unregister_writer_wait
Unregister(t) ==
  waiting_writers' = IF call[t].registered THEN waiting_writers - 1 ELSE waiting_writers

\* The blocking call of t returns code.
Return(t, code) ==
  /\ Unregister(t)
  /\ call' = [call EXCEPT ![t] = NoCall]
  /\ Goto(t, "run") /\ ret' = code

-----------------------------------------------------------------------------
(* RwlockLockCooperative                                                   *)

Begin(t, write, limit) ==
  /\ alive /\ pc[t] = "run" /\ (write \/ MayAsk(t))
  /\ call' = [call EXCEPT ![t] = [write |-> write, limit |-> limit, registered |-> FALSE]]
  /\ Goto(t, "look")
  /\ UNCHANGED <<alive, lock, waiting_writers, ret>>

Refused(t) ==
  /\ pc[t] = "look" /\ call[t].write /\ Deadlocked(t)
  /\ Return(t, "EDEADLK") /\ UNCHANGED <<alive, lock>>

EnterWrite(t) ==
  /\ pc[t] = "look" /\ call[t].write /\ ~Deadlocked(t) /\ MayWrite(t)
  /\ Write(t) /\ Return(t, "OK") /\ Told(t, TRUE) /\ UNCHANGED alive

EnterRead(t) ==
  /\ pc[t] = "look" /\ ~call[t].write /\ MayRead(t)
  /\ AddReader(t) /\ Return(t, "OK") /\ Told(t, FALSE) /\ UNCHANGED alive

\* The look at the lock has not ended the call.
MustWait(t) ==
  /\ pc[t] = "look"
  /\ IF call[t].write THEN ~Deadlocked(t) /\ ~MayWrite(t) ELSE ~MayRead(t)

\* A writer that has to wait is registered before its time is looked at.
TimeOut(t) ==
  /\ MustWait(t) /\ call[t].limit # "none"
  /\ Return(t, "ETIMEDOUT") /\ UNCHANGED <<alive, lock>>

Sleep(t) ==
  /\ MustWait(t) /\ call[t].limit # "zero"
  /\ Goto(t, "sleep")
  /\ call' = [call EXCEPT ![t].registered = call[t].write]
  /\ waiting_writers' = IF call[t].write /\ ~call[t].registered
                        THEN waiting_writers + 1 ELSE waiting_writers
  /\ UNCHANGED <<alive, lock, ret>>

\* Seeded defect: only a wait with a limit wakes by itself.
WakeTimed(t) ==
  /\ pc[t] = "sleep" /\ call[t].limit = "time" /\ Goto(t, "look")
  /\ UNCHANGED <<alive, lock, waiting_writers, call, ret>>

\* The 10 ms, or what was left of the time, are over.
Wake(t) ==
  /\ pc[t] = "sleep" /\ Goto(t, "look")
  /\ UNCHANGED <<alive, lock, waiting_writers, call, ret>>

-----------------------------------------------------------------------------
(* The calls that do not block                                             *)

TryRdlock(t) ==
  /\ alive /\ pc[t] = "run" /\ MayAsk(t)
  /\ IF MayRead(t)
     THEN AddReader(t) /\ ret' = "OK" /\ Told(t, FALSE)
     ELSE ret' = "EBUSY" /\ UNCHANGED lock
  /\ UNCHANGED <<alive, waiting_writers, pc, call>>

TryWrlock(t) ==
  /\ alive /\ pc[t] = "run"
  /\ \/ Deadlocked(t) /\ ret' = "EDEADLK" /\ UNCHANGED lock
     \/ ~Deadlocked(t) /\ MayWrite(t) /\ Write(t) /\ ret' = "OK" /\ Told(t, TRUE)
     \/ ~Deadlocked(t) /\ ~MayWrite(t) /\ ret' = "EBUSY" /\ UNCHANGED lock
  /\ UNCHANGED <<alive, waiting_writers, pc, call>>

\* notify_all
NotifyAll == pc' = [t \in Threads |-> IF pc[t] = "sleep" THEN "look" ELSE pc[t]]

\* PthreadRwlockUnlock: what t has read-locked goes first.
Unlock(t) ==
  /\ alive /\ pc[t] = "run"
  /\ \/ /\ IsReader(t)
        /\ readers' = [readers EXCEPT ![t] = @ - 1]
        /\ reader_count' = reader_count - 1
        /\ NotifyAll /\ ret' = "OK" /\ GivenBack(t)
        /\ UNCHANGED <<writer, writer_count>>
     \/ /\ ~IsReader(t) /\ writer = t
        /\ writer_count' = writer_count - 1
        /\ IF writer_count = 1
           THEN writer' = NoThread /\ NotifyAll
           ELSE UNCHANGED <<writer, pc>>
        /\ ret' = "OK" /\ GivenBack(t)
        /\ UNCHANGED <<readers, reader_count>>
     \/ /\ ~IsReader(t) /\ writer # t
        /\ ret' = "EPERM" /\ UNCHANGED <<lock, pc>>
  /\ UNCHANGED <<alive, waiting_writers, call>>

\* PthreadRwlockDestroy looks at the holders, not at those who wait.  The guest
\* does not destroy a lock twice at the same time.
Destroy(t) ==
  /\ alive /\ pc[t] = "run" /\ \A u \in Threads : pc[u] # "free"
  /\ IF writer # NoThread \/ reader_count # 0
     THEN ret' = "EBUSY" /\ pc' = pc
     ELSE ret' = ret /\ Goto(t, "free")
  /\ UNCHANGED <<alive, lock, waiting_writers, call>>

\* It deletes the object and clears the guest's pointer, without m and without
\* another look: a thread that was let in meanwhile has a lock that is gone.
\* Threads inside a call at that moment would use freed memory and are left out.
Delete(t) ==
  /\ pc[t] = "free" /\ \A u \in Threads \ {t} : pc[u] = "run"
  /\ alive' = FALSE /\ Goto(t, "run") /\ ret' = "OK"
  /\ UNCHANGED <<lock, waiting_writers, call>>

\* PthreadRwlockInit makes a new object; what was told of the old one says
\* nothing of it.
Initialise(t) ==
  /\ ~alive /\ alive' = TRUE /\ ret' = "OK"
  /\ writer' = NoThread /\ writer_count' = 0
  /\ readers' = [u \in Threads |-> 0] /\ reader_count' = 0
  /\ waiting_writers' = 0
  /\ depth' = [u \in Threads |-> 0] /\ writing' = {}
  /\ UNCHANGED <<pc, call>>

Next ==
  \E t \in Threads :
    \/ \E write \in BOOLEAN, limit \in Limits : Begin(t, write, limit)
    \/ Refused(t) \/ EnterWrite(t) \/ EnterRead(t) \/ TimeOut(t) \/ Sleep(t) \/ Wake(t)
    \/ TryRdlock(t) \/ TryWrlock(t) \/ Unlock(t)
    \/ Destroy(t) \/ Delete(t) \/ Initialise(t)

\* A thread in a call goes on and its sleep ends; m is held for a few
\* instructions only.  Nothing is assumed of the guest.
Fairness ==
  \A t \in Threads :
    /\ WF_vars(Refused(t) \/ EnterWrite(t) \/ EnterRead(t) \/ TimeOut(t) \/ Sleep(t))
    /\ WF_vars(Wake(t))

Spec == Init /\ [][Next]_vars /\ Fairness

-----------------------------------------------------------------------------
(* Properties                                                              *)

\* One entry for each time a thread holds the lock for reading.
HoldsOf(r) == {h \in Threads \X (1..HoldMax) : h[2] <= r[h[1]]}
Holds == HoldsOf(readers)

\* The threads registered as waiting writers.
RegisteredOf(c) == {t \in Threads : c[t].registered}
Registered == RegisteredOf(call)

\* The two counters the grants are decided by are the number of read holds
\* and the number of writers in the middle of a wait, whichever way earlier
\* waits ended: granted, refused or timed out.
Tallies ==
  /\ reader_count = Cardinality(Holds)
  /\ waiting_writers = Cardinality(Registered)

\* A thread that was told it has the lock for writing has it alone until it
\* gives it back: meanwhile no other thread that was told it has the lock, for
\* reading or for writing, still has it.  Told are the returns of the calls,
\* kept apart from the counters the grants are decided by.
Exclusion == \A t \in writing : \A u \in Threads \ {t} : depth[u] = 0

\* Nobody who has the lock sleeps for it, so no thread waits for itself: a
\* reader is let in again past waiting writers, a writer may also read, and a
\* lock for writing by a holder is refused.
HolderNeverSleeps ==
  \A t \in Threads : pc[t] = "sleep" => readers[t] = 0 /\ writer # t

\* No thread that has no part in the lock gets it for reading while a writer
\* is waiting: readers that keep coming do not starve a writer.
WriterNotOvertaken ==
  [][\A t \in Threads :
       readers[t] = 0 /\ readers'[t] > 0 /\ writer # t => Registered = {}]_vars

\* What keeps a thread in its call.
Blocked(t) ==
  writer # NoThread \/ (IF call[t].write THEN reader_count > 0 ELSE waiting_writers > 0)

\* A call does not stay blocked once nothing keeps its thread out.  A writer
\* that times out tells nobody that it no longer waits, so for the readers
\* behind it this rests on the poll.
FreeLockIsTaken ==
  \A t \in Threads : pc[t] \in {"look", "sleep"} ~> (pc[t] = "run" \/ Blocked(t))
=============================================================================
