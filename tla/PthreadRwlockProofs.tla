------------------------- MODULE PthreadRwlockProofs -------------------------
(***************************************************************************)
(* Proofs about PthreadRwlock, for any finite set of threads.              *)
(*                                                                         *)
(* What the calls tell their threads agrees with who has the lock, and     *)
(* that rests on the counter reader_count being zero only when nobody      *)
(* reads: the inductive invariant carries the two tallies and with them    *)
(* what a thread inside a blocking call may be registered as.              *)
(***************************************************************************)
EXTENDS PthreadRwlock, FiniteSetTheorems, TLAPS

\* What the calls in progress are like: only a writer inside a call is
\* registered, a reader asked within its bound, and the lock exists.
CallsOK ==
  \A t \in Threads :
    /\ call[t].registered => call[t].write /\ pc[t] \in {"look", "sleep"}
    /\ pc[t] # "run" => alive
    /\ pc[t] \in {"look", "sleep"} /\ ~call[t].write => readers[t] < HoldMax

\* Who has the lock: a writer's readers are its own, and its count is one.
LockOK ==
  /\ \A t \in Threads : readers[t] > 0 => writer \in {NoThread, t}
  /\ writer_count = IF writer = NoThread THEN 0 ELSE 1

\* What the threads were told is who has it.
ToldOK ==
  \A t \in Threads :
    /\ depth[t] = readers[t] + (IF writer = t THEN 1 ELSE 0)
    /\ t \in writing <=> writer = t

IInv == TypeOK /\ Tallies /\ LockOK /\ ToldOK /\ CallsOK /\ HolderNeverSleeps

-----------------------------------------------------------------------------
(* The read holds, as a set                                                *)

\* The holds are finitely many (RwlockAddReader, RwlockRemoveReader).
LEMMA HoldsFinite ==
  ASSUME NEW r \in [Threads -> 0..HoldMax]
  PROVE  IsFiniteSet(HoldsOf(r)) /\ Cardinality(HoldsOf(r)) \in Nat
<1>1. IsFiniteSet(1..HoldMax)
  BY FS_Interval, RwlockAssumption
<1>2. IsFiniteSet(Threads \X (1..HoldMax))
  BY <1>1, FS_Product, RwlockAssumption
<1>3. IsFiniteSet(HoldsOf(r))
  BY <1>2, FS_Subset DEF HoldsOf
<1> QED
  BY <1>3, FS_CardinalityType

\* No holds are counted exactly when no thread reads.
LEMMA NoHolds ==
  ASSUME NEW r \in [Threads -> 0..HoldMax]
  PROVE  Cardinality(HoldsOf(r)) = 0 <=> \A t \in Threads : r[t] = 0
<1>1. Cardinality(HoldsOf(r)) = 0 <=> HoldsOf(r) = {}
  BY HoldsFinite, FS_EmptySet
<1>2. ASSUME HoldsOf(r) = {}, NEW t \in Threads PROVE r[t] = 0
  <2>1. <<t, 1>> \in Threads \X (1..HoldMax)
    BY RwlockAssumption
  <2>2. ~(1 <= r[t])
    BY <2>1, <1>2 DEF HoldsOf
  <2> QED
    BY <2>2
<1>3. ASSUME \A t \in Threads : r[t] = 0 PROVE HoldsOf(r) = {}
  BY <1>3 DEF HoldsOf
<1> QED
  BY <1>1, <1>2, <1>3

\* A reader more adds one hold (RwlockAddReader).
LEMMA OneMoreHold ==
  ASSUME NEW r \in [Threads -> 0..HoldMax], NEW t \in Threads, r[t] < HoldMax
  PROVE  Cardinality(HoldsOf([r EXCEPT ![t] = @ + 1])) = Cardinality(HoldsOf(r)) + 1
<1> DEFINE new == <<t, r[t] + 1>>
<1>1. new \notin HoldsOf(r)
  BY DEF HoldsOf
<1>2. HoldsOf([r EXCEPT ![t] = @ + 1]) = HoldsOf(r) \cup {new}
  <2>1. ASSUME NEW u \in Threads, NEW i \in 1..HoldMax
        PROVE  i <= [r EXCEPT ![t] = @ + 1][u] <=> i <= r[u] \/ (u = t /\ i = r[t] + 1)
    BY RwlockAssumption
  <2>2. new \in Threads \X (1..HoldMax)
    BY RwlockAssumption
  <2> QED
    BY <2>1, <2>2 DEF HoldsOf
<1> QED
  BY <1>1, <1>2, HoldsFinite, FS_AddElement

\* A reader less takes one hold away (RwlockRemoveReader).
LEMMA OneHoldLess ==
  ASSUME NEW r \in [Threads -> 0..HoldMax], NEW t \in Threads, r[t] > 0
  PROVE  Cardinality(HoldsOf([r EXCEPT ![t] = @ - 1])) = Cardinality(HoldsOf(r)) - 1
<1> DEFINE old == <<t, r[t]>>
<1>1. old \in HoldsOf(r)
  BY RwlockAssumption DEF HoldsOf
<1>2. HoldsOf([r EXCEPT ![t] = @ - 1]) = HoldsOf(r) \ {old}
  <2>1. ASSUME NEW u \in Threads, NEW i \in 1..HoldMax
        PROVE  i <= [r EXCEPT ![t] = @ - 1][u] <=> i <= r[u] /\ ~(u = t /\ i = r[t])
    BY RwlockAssumption
  <2> QED
    BY <2>1 DEF HoldsOf
<1> QED
  BY ZenonT(60), <1>1, <1>2, HoldsFinite, FS_RemoveElement

-----------------------------------------------------------------------------
(* The registered writers, as a set                                        *)

\* The registered writers are finitely many.
LEMMA RegisteredFinite ==
  ASSUME NEW c
  PROVE  IsFiniteSet(RegisteredOf(c)) /\ Cardinality(RegisteredOf(c)) \in Nat
<1>1. IsFiniteSet(RegisteredOf(c))
  BY FS_Subset, RwlockAssumption DEF RegisteredOf
<1> QED
  BY <1>1, FS_CardinalityType

\* Registering a thread that is not registered counts one more (the
\* increment of waiting_writers).
LEMMA OneMoreWriter ==
  ASSUME NEW c \in [Threads -> Call], NEW t \in Threads, NEW x \in Call,
         ~c[t].registered, x.registered
  PROVE  Cardinality(RegisteredOf([c EXCEPT ![t] = x])) = Cardinality(RegisteredOf(c)) + 1
<1>1. t \notin RegisteredOf(c)
  BY DEF RegisteredOf
<1>2. RegisteredOf([c EXCEPT ![t] = x]) = RegisteredOf(c) \cup {t}
  BY DEF RegisteredOf
<1> QED
  BY <1>1, <1>2, RegisteredFinite, FS_AddElement

\* Ending a call takes its thread off the count if it was on it
\* (unregister_writer_wait).
LEMMA OneWriterLess ==
  ASSUME NEW c \in [Threads -> Call], NEW t \in Threads, NEW x \in Call, ~x.registered
  PROVE  Cardinality(RegisteredOf([c EXCEPT ![t] = x])) =
           IF c[t].registered THEN Cardinality(RegisteredOf(c)) - 1
                              ELSE Cardinality(RegisteredOf(c))
<1>1. RegisteredOf([c EXCEPT ![t] = x]) = RegisteredOf(c) \ {t}
  BY DEF RegisteredOf
<1>2. CASE c[t].registered
  <2>1. t \in RegisteredOf(c)
    BY <1>2 DEF RegisteredOf
  <2> QED
    BY <1>1, <1>2, <2>1, RegisteredFinite, FS_RemoveElement
<1>3. CASE ~c[t].registered
  <2>1. RegisteredOf(c) \ {t} = RegisteredOf(c)
    BY <1>3 DEF RegisteredOf
  <2> QED
    BY <1>1, <1>3, <2>1
<1> QED
  BY <1>2, <1>3

-----------------------------------------------------------------------------
(* The invariant                                                           *)

Waiting == waiting_writers = Cardinality(Registered)
Reading == reader_count = Cardinality(Holds)

\* The end of a blocking call keeps the tally of waiting writers.
LEMMA ReturnTally ==
  ASSUME IInv, NEW t \in Threads, NEW code \in Codes, Return(t, code)
  PROVE  /\ Waiting' /\ waiting_writers' \in Nat
         /\ call' = [call EXCEPT ![t] = NoCall] /\ call' \in [Threads -> Call]
         /\ pc' = [pc EXCEPT ![t] = "run"] /\ pc' \in [Threads -> {"run", "look", "sleep", "free"}]
         /\ ret' \in Codes
<1>1. call \in [Threads -> Call] /\ NoCall \in Call /\ ~NoCall.registered
  BY DEF IInv, TypeOK, NoCall, Call, Limits
<1>2. Cardinality(RegisteredOf(call')) =
        IF call[t].registered THEN Cardinality(RegisteredOf(call)) - 1
                              ELSE Cardinality(RegisteredOf(call))
  BY <1>1, OneWriterLess DEF Return
<1>3. Cardinality(RegisteredOf(call')) \in Nat
  BY RegisteredFinite
<1>4. Waiting' /\ waiting_writers' \in Nat
  BY <1>2, <1>3 DEF Return, Unregister, Waiting, Registered, IInv, Tallies
<1> QED
  BY <1>1, <1>4 DEF Return, Goto, IInv, TypeOK

\* A look at the lock that does not change who has it, at the end of a call.
LEMMA ReturnUnchanged ==
  ASSUME IInv, NEW t \in Threads, NEW code \in Codes, pc[t] = "look",
         Return(t, code), UNCHANGED <<alive, lock>>
  PROVE  IInv'
<1> USE ReturnTally
<1>1. TypeOK'
  BY DEF IInv, TypeOK, lock
<1>2. Tallies'
  BY DEF IInv, Tallies, Waiting, Holds, lock
<1>3. LockOK' /\ ToldOK'
  BY DEF IInv, LockOK, ToldOK, lock
<1>4. CallsOK'
  BY DEF IInv, TypeOK, CallsOK, lock, NoCall
<1>5. HolderNeverSleeps'
  BY DEF IInv, TypeOK, HolderNeverSleeps, lock
<1> QED
  BY <1>1, <1>2, <1>3, <1>4, <1>5 DEF IInv

\* Granting the lock for reading keeps the parts about who has it
\* (RwlockAddReader under MayRead).
LEMMA GrantRead ==
  ASSUME IInv, NEW t \in Threads, alive, MayRead(t), MayAsk(t), AddReader(t),
         alive' = alive, Told(t, FALSE)
  PROVE  /\ Reading' /\ LockOK' /\ ToldOK'
         /\ depth' \in [Threads -> Nat] /\ writing' \in SUBSET Threads
         /\ readers' \in [Threads -> 0..HoldMax] /\ reader_count' \in Nat
         /\ UNCHANGED <<writer, writer_count>>
         /\ \A u \in Threads \ {t} : readers'[u] = readers[u]
<1>1. readers \in [Threads -> 0..HoldMax] /\ reader_count \in Nat
  BY DEF IInv, TypeOK
<1>2. readers' \in [Threads -> 0..HoldMax] /\ reader_count' \in Nat
  BY <1>1, RwlockAssumption DEF AddReader, MayAsk
<1>3. Reading'
  BY <1>1, OneMoreHold DEF Reading, Holds, AddReader, MayAsk, IInv, Tallies
<1>4. LockOK'
  <2>1. \A u \in Threads : readers'[u] > 0 => writer' \in {NoThread, u}
    BY <1>1 DEF IInv, LockOK, AddReader, MayRead, TypeOK
  <2> QED
    BY <2>1 DEF IInv, LockOK, AddReader
<1>5. depth' \in [Threads -> Nat] /\ writing' \in SUBSET Threads
  BY DEF IInv, TypeOK, Told
<1>6. ToldOK'
  BY <1>1 DEF IInv, TypeOK, ToldOK, Told, AddReader
<1> QED
  BY <1>1, <1>2, <1>3, <1>4, <1>5, <1>6 DEF AddReader

\* Granting the lock for writing does too: with no hold counted nobody reads.
LEMMA GrantWrite ==
  ASSUME IInv, NEW t \in Threads, alive, MayWrite(t), Write(t), alive' = alive,
         Told(t, TRUE)
  PROVE  /\ Reading' /\ LockOK' /\ ToldOK' /\ UNCHANGED <<readers, reader_count>>
         /\ writer' = t /\ writer_count' = 1
         /\ depth' \in [Threads -> Nat] /\ writing' \in SUBSET Threads
<1>1. readers \in [Threads -> 0..HoldMax]
  BY DEF IInv, TypeOK
<1>2. \A u \in Threads : readers[u] = 0
  BY <1>1, NoHolds DEF IInv, Tallies, MayWrite, Holds
<1>3. LockOK'
  BY <1>2, RwlockAssumption DEF LockOK, Write
<1>4. depth' \in [Threads -> Nat] /\ writing' \in SUBSET Threads
  BY DEF IInv, TypeOK, Told
<1>5. ToldOK'
  BY <1>1, <1>2, RwlockAssumption DEF IInv, TypeOK, ToldOK, Told, Write, MayWrite
<1> QED
  BY <1>3, <1>4, <1>5 DEF Reading, Holds, Write, IInv, Tallies

\* Giving the lock back once: the thread has it for writing as long as it has
\* been told of more locks than it has given back (PthreadRwlockUnlock).
LEMMA GiveBack ==
  ASSUME IInv, NEW t \in Threads, GivenBack(t),
         \/ /\ readers[t] > 0 /\ readers' = [readers EXCEPT ![t] = @ - 1]
            /\ writer' = writer
         \/ readers[t] = 0 /\ readers' = readers /\ writer = t /\ writer' = NoThread
  PROVE  depth' \in [Threads -> Nat] /\ writing' \in SUBSET Threads /\ ToldOK'
<1>1. /\ readers \in [Threads -> 0..HoldMax] /\ depth \in [Threads -> Nat]
      /\ writing \in SUBSET Threads
      /\ depth[t] = readers[t] + (IF writer = t THEN 1 ELSE 0)
      /\ depth' = [depth EXCEPT ![t] = depth[t] - 1]
  BY DEF IInv, TypeOK, ToldOK, GivenBack
<1>2. depth[t] - 1 \in Nat
  BY <1>1
<1>3. \A u \in Threads : depth'[u] = readers'[u] + (IF writer' = u THEN 1 ELSE 0)
  BY <1>1, RwlockAssumption DEF IInv, ToldOK
<1>4. \A u \in Threads : u \in writing' <=> writer' = u
  BY <1>1, RwlockAssumption DEF IInv, ToldOK, GivenBack
<1> QED
  BY <1>1, <1>2, <1>3, <1>4 DEF GivenBack, ToldOK

\* The state a fresh lock starts in satisfies the invariant.
LEMMA InitInv == Init => IInv
<1> SUFFICES ASSUME Init PROVE IInv
  OBVIOUS
<1>1. TypeOK
  BY RwlockAssumption DEF Init, TypeOK, Call, NoCall, Limits, Codes
<1>2. Tallies
  <2>1. Cardinality(Holds) = 0
    BY <1>1, NoHolds DEF Init, TypeOK, Holds
  <2>2. Registered = {}
    BY DEF Init, Registered, RegisteredOf, NoCall
  <2> QED
    BY <2>1, <2>2, FS_EmptySet DEF Tallies, Init
<1>3. LockOK /\ ToldOK /\ CallsOK /\ HolderNeverSleeps
  BY RwlockAssumption DEF Init, LockOK, ToldOK, CallsOK, HolderNeverSleeps, NoCall
<1> QED
  BY <1>1, <1>2, <1>3 DEF IInv

\* Every call, and every step inside one, keeps the invariant.
LEMMA NextInv == IInv /\ [Next]_vars => IInv'
<1> SUFFICES ASSUME IInv, [Next]_vars PROVE IInv'
  OBVIOUS
<1>1. CASE UNCHANGED vars
  BY <1>1 DEF vars, IInv, TypeOK, Tallies, LockOK, ToldOK, CallsOK, HolderNeverSleeps,
              Holds, Registered
<1>2. ASSUME NEW t \in Threads, NEW write \in BOOLEAN, NEW limit \in Limits,
             Begin(t, write, limit)
      PROVE  IInv'
  <2>1. TypeOK'
    BY <1>2 DEF IInv, TypeOK, Begin, Goto, Call, lock
  <2>2. Tallies'
    <3> DEFINE x == [write |-> write, limit |-> limit, registered |-> FALSE]
    <3>1. x \in Call /\ ~x.registered /\ call \in [Threads -> Call] /\ ~call[t].registered
      BY <1>2 DEF Call, IInv, TypeOK, CallsOK, Begin
    <3>2. call' = [call EXCEPT ![t] = x]
      BY <1>2 DEF Begin
    <3>3. Cardinality(RegisteredOf(call')) = Cardinality(RegisteredOf(call))
      BY <3>1, <3>2, OneWriterLess
    <3> QED
      BY <1>2, <3>3 DEF IInv, Tallies, Begin, Registered, Holds, lock
  <2>3. LockOK' /\ ToldOK'
    BY <1>2 DEF IInv, LockOK, ToldOK, Begin, lock
  <2>4. CallsOK'
    BY <1>2 DEF IInv, TypeOK, CallsOK, Begin, Goto, MayAsk, lock
  <2>5. HolderNeverSleeps'
    BY <1>2 DEF IInv, TypeOK, HolderNeverSleeps, Begin, Goto, lock
  <2> QED
    BY <2>1, <2>2, <2>3, <2>4, <2>5 DEF IInv
<1>3. ASSUME NEW t \in Threads, Refused(t) PROVE IInv'
  BY <1>3, ReturnUnchanged DEF Refused, Codes
<1>4. ASSUME NEW t \in Threads, TimeOut(t) PROVE IInv'
  BY <1>4, ReturnUnchanged DEF TimeOut, MustWait, Codes
<1>5. ASSUME NEW t \in Threads, EnterRead(t) PROVE IInv'
  <2>1. /\ alive /\ MayRead(t) /\ MayAsk(t) /\ AddReader(t) /\ alive' = alive
        /\ Told(t, FALSE) /\ Return(t, "OK") /\ "OK" \in Codes /\ pc[t] = "look"
    BY <1>5 DEF EnterRead, IInv, CallsOK, MayAsk, Codes
  <2>2. TypeOK'
    BY <2>1, GrantRead, ReturnTally DEF IInv, TypeOK
  <2>3. Tallies' /\ LockOK' /\ ToldOK'
    BY <2>1, GrantRead, ReturnTally DEF Tallies, Reading, Waiting
  <2>4. /\ \A u \in Threads \ {t} : readers'[u] = readers[u]
        /\ writer' = writer
        /\ pc' = [pc EXCEPT ![t] = "run"] /\ call' = [call EXCEPT ![t] = NoCall]
    BY <2>1, GrantRead, ReturnTally
  <2>5. CallsOK'
    BY <2>1, <2>4 DEF IInv, TypeOK, CallsOK, NoCall
  <2>6. HolderNeverSleeps'
    BY <2>1, <2>4 DEF IInv, TypeOK, HolderNeverSleeps
  <2> QED
    BY <2>2, <2>3, <2>5, <2>6 DEF IInv
<1>6. ASSUME NEW t \in Threads, EnterWrite(t) PROVE IInv'
  <2>1. /\ alive /\ MayWrite(t) /\ Write(t) /\ alive' = alive
        /\ Told(t, TRUE) /\ Return(t, "OK") /\ "OK" \in Codes /\ pc[t] = "look"
    BY <1>6 DEF EnterWrite, IInv, CallsOK, Codes
  <2>2. TypeOK'
    BY <2>1, GrantWrite, ReturnTally DEF IInv, TypeOK
  <2>3. Tallies' /\ LockOK' /\ ToldOK'
    BY <2>1, GrantWrite, ReturnTally DEF Tallies, Reading, Waiting
  <2>4. /\ readers' = readers /\ writer' = t
        /\ pc' = [pc EXCEPT ![t] = "run"] /\ call' = [call EXCEPT ![t] = NoCall]
    BY <2>1, GrantWrite, ReturnTally
  <2>5. CallsOK'
    BY <2>1, <2>4 DEF IInv, TypeOK, CallsOK, NoCall
  <2>6. HolderNeverSleeps'
    BY <2>1, <2>4 DEF IInv, TypeOK, HolderNeverSleeps
  <2> QED
    BY <2>2, <2>3, <2>5, <2>6 DEF IInv
<1>7. ASSUME NEW t \in Threads, Sleep(t) PROVE IInv'
  <2> DEFINE x == [call[t] EXCEPT !.registered = call[t].write]
  <2>1. /\ x \in Call /\ x.registered = call[t].write /\ x.write = call[t].write
        /\ call \in [Threads -> Call] /\ call[t].write \in BOOLEAN
        /\ call[t].registered \in BOOLEAN
    BY DEF IInv, TypeOK, Call
  <2>2. call' = [call EXCEPT ![t] = x]
    BY <1>7 DEF Sleep
  <2>3. pc[t] = "look" /\ pc' = [pc EXCEPT ![t] = "sleep"] /\ UNCHANGED <<alive, lock, ret>>
    BY <1>7 DEF Sleep, MustWait, Goto
  <2>4. TypeOK'
    BY <1>7, <2>1, <2>2, <2>3 DEF IInv, TypeOK, Sleep, lock
  <2>5. Tallies'
    <3>1. CASE call[t].write /\ ~call[t].registered
      <4>1. Cardinality(RegisteredOf(call')) = Cardinality(RegisteredOf(call)) + 1
        BY <2>1, <2>2, <3>1, OneMoreWriter
      <4> QED
        BY <1>7, <2>3, <3>1, <4>1 DEF IInv, Tallies, Registered, Holds, Sleep, lock
    <3>2. CASE ~(call[t].write /\ ~call[t].registered)
      <4>1. x.registered = call[t].registered
        BY <2>1, <3>2 DEF IInv, CallsOK
      <4>2. RegisteredOf(call') = RegisteredOf(call)
        BY <2>1, <2>2, <4>1 DEF RegisteredOf
      <4> QED
        BY <1>7, <2>3, <3>2, <4>2 DEF IInv, Tallies, Registered, Holds, Sleep, lock
    <3> QED
      BY <3>1, <3>2
  <2>6. LockOK' /\ ToldOK'
    BY <2>3 DEF IInv, LockOK, ToldOK, lock
  <2>7. CallsOK'
    BY <2>1, <2>2, <2>3 DEF IInv, TypeOK, CallsOK, lock
  <2>8. HolderNeverSleeps'
    <3>1. readers[t] = 0 /\ writer # t
      BY <1>7, RwlockAssumption
         DEF Sleep, MustWait, Deadlocked, MayRead, IsReader, IInv, LockOK, TypeOK
    <3> QED
      BY <2>3, <3>1 DEF IInv, TypeOK, HolderNeverSleeps, lock
  <2> QED
    BY <2>4, <2>5, <2>6, <2>7, <2>8 DEF IInv
<1>8. ASSUME NEW t \in Threads, Wake(t) PROVE IInv'
  BY <1>8 DEF Wake, Goto, lock, IInv, TypeOK, Tallies, LockOK, ToldOK, CallsOK,
              HolderNeverSleeps, Holds, Registered
<1>9. ASSUME NEW t \in Threads, TryRdlock(t) PROVE IInv'
  <2>1. alive /\ MayAsk(t) /\ UNCHANGED <<alive, waiting_writers, pc, call>> /\ ret' \in Codes
        /\ pc[t] = "run"
    BY <1>9 DEF TryRdlock, Codes
  <2>2. CASE MayRead(t)
    <3>1. AddReader(t) /\ Told(t, FALSE)
      BY <1>9, <2>2 DEF TryRdlock
    <3> USE <2>1, <2>2, <3>1, GrantRead
    <3>2. TypeOK'
      BY DEF IInv, TypeOK
    <3>3. Tallies'
      BY DEF IInv, Tallies, Reading, Registered
    <3>4. CallsOK' /\ HolderNeverSleeps'
      BY DEF IInv, TypeOK, CallsOK, HolderNeverSleeps
    <3> QED
      BY <3>2, <3>3, <3>4 DEF IInv
  <2>3. CASE ~MayRead(t)
    BY <1>9, <2>1, <2>3 DEF TryRdlock, lock, IInv, TypeOK, Tallies, LockOK, ToldOK, CallsOK,
                            HolderNeverSleeps, Holds, Registered
  <2> QED
    BY <2>2, <2>3
<1>10. ASSUME NEW t \in Threads, TryWrlock(t) PROVE IInv'
  <2>1. alive /\ UNCHANGED <<alive, waiting_writers, pc, call>> /\ ret' \in Codes
        /\ pc[t] = "run"
    BY <1>10 DEF TryWrlock, Codes
  <2>2. CASE MayWrite(t) /\ Write(t) /\ Told(t, TRUE)
    <3> USE <2>1, <2>2, GrantWrite
    <3>2. TypeOK'
      BY DEF IInv, TypeOK
    <3>3. Tallies'
      BY DEF IInv, Tallies, Reading, Registered
    <3>4. CallsOK' /\ HolderNeverSleeps'
      BY DEF IInv, TypeOK, CallsOK, HolderNeverSleeps
    <3> QED
      BY <3>2, <3>3, <3>4 DEF IInv
  <2>3. CASE UNCHANGED lock
    BY <2>1, <2>3 DEF lock, IInv, TypeOK, Tallies, LockOK, ToldOK, CallsOK,
                      HolderNeverSleeps, Holds, Registered
  <2> QED
    BY <1>10, <2>2, <2>3 DEF TryWrlock
<1>11. ASSUME NEW t \in Threads, Unlock(t) PROVE IInv'
  <2>1. alive /\ pc[t] = "run" /\ UNCHANGED <<alive, waiting_writers, call>> /\ ret' \in Codes
    BY <1>11 DEF Unlock, Codes
  <2>2. /\ pc' \in [Threads -> {"run", "look", "sleep", "free"}]
        /\ \A u \in Threads :
             /\ pc'[u] = "sleep" => pc[u] = "sleep"
             /\ pc'[u] = "run" <=> pc[u] = "run"
             /\ pc'[u] \in {"look", "sleep"} <=> pc[u] \in {"look", "sleep"}
    BY <1>11 DEF Unlock, NotifyAll, IInv, TypeOK
  <2>3. CASE IsReader(t)
    <3>1. /\ readers' = [readers EXCEPT ![t] = @ - 1] /\ reader_count' = reader_count - 1
          /\ UNCHANGED <<writer, writer_count>> /\ GivenBack(t)
      BY <1>11, <2>3 DEF Unlock
    <3>2. readers \in [Threads -> 0..HoldMax] /\ readers[t] > 0 /\ reader_count \in Nat
      BY <2>3 DEF IsReader, IInv, TypeOK
    <3>3. readers' \in [Threads -> 0..HoldMax]
      BY <3>1, <3>2, RwlockAssumption
    <3>4. Reading'
      BY <3>1, <3>2, OneHoldLess DEF Reading, Holds, IInv, Tallies
    <3>5. reader_count' \in Nat
      BY <3>3, <3>4, HoldsFinite DEF Reading, Holds
    <3>a. depth' \in [Threads -> Nat] /\ writing' \in SUBSET Threads /\ ToldOK'
      BY <3>1, <3>2, GiveBack
    <3>6. TypeOK'
      BY <2>1, <2>2, <3>1, <3>3, <3>5, <3>a DEF IInv, TypeOK
    <3>7. Tallies'
      BY <2>1, <3>4 DEF IInv, Tallies, Reading, Registered
    <3>8. LockOK'
      BY <2>1, <3>1, <3>2 DEF IInv, LockOK
    <3>9. CallsOK' /\ HolderNeverSleeps'
      BY <2>1, <2>2, <3>1, <3>2 DEF IInv, CallsOK, HolderNeverSleeps
    <3> QED
      BY <3>6, <3>7, <3>8, <3>9, <3>a DEF IInv
  <2>4. CASE ~IsReader(t) /\ writer = t
    <3>1. /\ UNCHANGED <<readers, reader_count>> /\ writer_count = 1
          /\ writer' = NoThread /\ writer_count' = 0 /\ GivenBack(t)
      BY <1>11, <2>4, RwlockAssumption DEF Unlock, IInv, LockOK
    <3>a. depth' \in [Threads -> Nat] /\ writing' \in SUBSET Threads /\ ToldOK'
      BY <2>4, <3>1, GiveBack DEF IsReader, IInv, TypeOK
    <3>2. TypeOK'
      BY <2>1, <2>2, <3>1, <3>a DEF IInv, TypeOK
    <3>3. Tallies'
      BY <2>1, <3>1 DEF IInv, Tallies, Registered, Holds
    <3>4. LockOK'
      BY <2>1, <3>1 DEF IInv, LockOK
    <3>5. CallsOK' /\ HolderNeverSleeps'
      BY <2>1, <2>2, <3>1, RwlockAssumption DEF IInv, CallsOK, HolderNeverSleeps
    <3> QED
      BY <3>2, <3>3, <3>4, <3>5, <3>a DEF IInv
  <2>5. CASE UNCHANGED <<lock, pc>>
    BY <2>1, <2>5 DEF lock, IInv, TypeOK, Tallies, LockOK, ToldOK, CallsOK,
                      HolderNeverSleeps, Holds, Registered
  <2> QED
    BY <1>11, <2>3, <2>4, <2>5 DEF Unlock
<1>12. ASSUME NEW t \in Threads, Destroy(t) PROVE IInv'
  <2>1. /\ UNCHANGED <<alive, lock, waiting_writers, call>> /\ ret' \in Codes
        /\ alive /\ pc[t] = "run" /\ (pc' = pc \/ pc' = [pc EXCEPT ![t] = "free"])
    BY <1>12 DEF Destroy, Goto, IInv, TypeOK, Codes
  <2> QED
    BY <2>1 DEF lock, IInv, TypeOK, Tallies, LockOK, ToldOK, CallsOK, HolderNeverSleeps,
                Holds, Registered
<1>14. ASSUME NEW t \in Threads, Delete(t) PROVE IInv'
  <2>1. /\ UNCHANGED <<lock, waiting_writers, call>> /\ ret' \in Codes /\ alive' = FALSE
        /\ pc[t] = "free" /\ pc' = [pc EXCEPT ![t] = "run"]
        /\ \A u \in Threads \ {t} : pc[u] = "run"
    BY <1>14 DEF Delete, Goto, Codes
  <2> QED
    BY <2>1 DEF lock, IInv, TypeOK, Tallies, LockOK, ToldOK, CallsOK, HolderNeverSleeps,
                Holds, Registered
<1>13. ASSUME NEW t \in Threads, Initialise(t) PROVE IInv'
  <2>1. TypeOK'
    BY <1>13, RwlockAssumption DEF Initialise, IInv, TypeOK, Codes
  <2>2. \A u \in Threads : pc[u] = "run" /\ ~call[u].registered
    BY <1>13 DEF Initialise, IInv, CallsOK
  <2>3. Tallies'
    <3>1. Cardinality(HoldsOf(readers')) = 0
      BY <1>13, <2>1, NoHolds DEF Initialise, TypeOK
    <3>2. RegisteredOf(call') = {}
      BY <1>13, <2>2 DEF Initialise, RegisteredOf
    <3> QED
      BY <1>13, <3>1, <3>2, FS_EmptySet DEF Initialise, Tallies, Holds, Registered
  <2>4. LockOK' /\ ToldOK' /\ CallsOK' /\ HolderNeverSleeps'
    BY <1>13, <2>2, RwlockAssumption DEF Initialise, LockOK, ToldOK, CallsOK, HolderNeverSleeps
  <2> QED
    BY <2>1, <2>3, <2>4 DEF IInv
<1> QED
  BY <1>1, <1>2, <1>3, <1>4, <1>5, <1>6, <1>7, <1>8, <1>9, <1>10, <1>11, <1>12, <1>13,
     <1>14     DEF Next

\* The inductive invariant holds throughout.
THEOREM Invariance == Spec => []IInv
  BY InitInv, NextInv, PTL DEF Spec

\* TypeOK holds: neither counter of the lock ever falls below zero.
THEOREM TypeCorrect == Spec => []TypeOK
<1>1. IInv => TypeOK
  BY DEF IInv
<1> QED
  BY <1>1, Invariance, PTL

\* The counters that decide the grants are exact, for any number of threads.
THEOREM CountersExact == Spec => []Tallies
<1>1. IInv => Tallies
  BY DEF IInv
<1> QED
  BY <1>1, Invariance, PTL

\* A thread told it has the lock for writing is the only one with a lock that
\* it was told of and has not given back, for any number of threads.
THEOREM MutualExclusion == Spec => []Exclusion
<1>1. IInv => Exclusion
  <2> SUFFICES ASSUME IInv, NEW t \in writing, NEW u \in Threads \ {t}
               PROVE  depth[u] = 0
    BY DEF Exclusion
  <2>1. writer = t /\ t # NoThread /\ t # u /\ readers[u] \in 0..HoldMax
    BY RwlockAssumption DEF IInv, TypeOK, ToldOK
  <2>2. readers[u] = 0
    BY <2>1 DEF IInv, LockOK
  <2> QED
    BY <2>1, <2>2 DEF IInv, ToldOK
<1> QED
  BY <1>1, Invariance, PTL

\* No thread sleeps for a lock it has.
THEOREM NoSelfDeadlock == Spec => []HolderNeverSleeps
<1>1. IInv => HolderNeverSleeps
  BY DEF IInv
<1> QED
  BY <1>1, Invariance, PTL

\* A waiting writer is not overtaken by threads that have no part in the lock.
THEOREM WritersFirst == Spec => WriterNotOvertaken
<1> DEFINE A == \A t \in Threads :
                 readers[t] = 0 /\ readers'[t] > 0 /\ writer # t => Registered = {}
<1>1. IInv /\ [Next]_vars => [A]_vars
  <2> SUFFICES ASSUME IInv, Next, NEW t \in Threads,
                      readers[t] = 0, readers'[t] > 0, writer # t
               PROVE  Registered = {}
    BY DEF vars
  <2>1. readers \in [Threads -> 0..HoldMax]
    BY DEF IInv, TypeOK
  <2>2. ASSUME NEW u \in Threads, MayRead(u), AddReader(u) PROVE waiting_writers = 0
    BY <2>1, <2>2 DEF MayRead, IsReader, AddReader
  <2>3. waiting_writers = 0
    <3>1. PICK u \in Threads : \/ EnterRead(u) \/ TryRdlock(u) \/ Unlock(u) \/ Initialise(u)
                               \/ readers' = readers
      BY DEF Next, Begin, Refused, EnterWrite, Write, TimeOut, Sleep, Wake, TryWrlock,
             Destroy, Delete, lock
    <3>2. CASE EnterRead(u)
      BY <2>2, <3>2 DEF EnterRead
    <3>3. CASE TryRdlock(u)
      <4>1. (MayRead(u) /\ AddReader(u)) \/ readers' = readers
        BY <3>3 DEF TryRdlock, lock
      <4> QED
        BY <2>2, <4>1
    <3>4. CASE Unlock(u)
      <4>1. \/ readers' = readers
            \/ readers[u] > 0 /\ readers' = [readers EXCEPT ![u] = @ - 1]
        BY <3>4 DEF Unlock, IsReader, lock
      <4> QED
        BY <2>1, <4>1
    <3>5. CASE Initialise(u)
      BY <3>5 DEF Initialise
    <3> QED
      BY <3>1, <3>2, <3>3, <3>4, <3>5
  <2> QED
    BY <2>3, RegisteredFinite, FS_EmptySet DEF IInv, Tallies, Registered
<1> QED
  BY <1>1, Invariance, PTL DEF Spec, WriterNotOvertaken
=============================================================================
