-------------------------- MODULE PthreadSyncProofs --------------------------
(***************************************************************************)
(* Proofs about PthreadSync, for any threads, either kind of mutex and any *)
(* maximal recursion count.                                                *)
(***************************************************************************)
EXTENDS PthreadSync, TLAPS

-----------------------------------------------------------------------------
(* Queues of threads                                                       *)

\* RemoveAt at a legal place keeps every other element.
LEMMA RemoveAtFacts ==
  ASSUME NEW S, NEW s \in Seq(S), NEW k \in 1..Len(s)
  PROVE  /\ RemoveAt(s, k) \in Seq(S)
         /\ Len(RemoveAt(s, k)) = Len(s) - 1
         /\ \A i \in 1..Len(s) - 1 :
              RemoveAt(s, k)[i] = IF i < k THEN s[i] ELSE s[i + 1]
<1> DEFINE a == SubSeq(s, 1, k - 1)
           b == SubSeq(s, k + 1, Len(s))
<1>1. /\ a \in Seq(S) /\ Len(a) = k - 1
      /\ \A i \in 1..k - 1 : a[i] = s[i]
  OBVIOUS
<1>2. /\ b \in Seq(S) /\ Len(b) = Len(s) - k
      /\ \A i \in 1..Len(s) - k : b[i] = s[k + i]
  OBVIOUS
<1> HIDE DEF a, b
<1>4. RemoveAt(s, k) = a \o b
  BY DEF RemoveAt, a, b
<1>5. RemoveAt(s, k) \in Seq(S) /\ Len(RemoveAt(s, k)) = Len(s) - 1
  BY <1>1, <1>2, <1>4
<1>6. ASSUME NEW i \in 1..Len(s) - 1
      PROVE  RemoveAt(s, k)[i] = IF i < k THEN s[i] ELSE s[i + 1]
  <2>1. CASE i < k
    BY <1>1, <1>2, <1>4, <2>1
  <2>2. CASE i >= k
    <3>1. (a \o b)[i] = b[i - (k - 1)]
      BY <1>1, <1>2, <2>2
    <3>2. i - (k - 1) \in 1..Len(s) - k /\ k + (i - (k - 1)) = i + 1
      BY <2>2
    <3>3. b[i - (k - 1)] = s[i + 1]
      BY <1>2, <3>2
    <3> QED BY <1>4, <2>2, <3>1, <3>3
  <2> QED BY <2>1, <2>2
<1> QED BY <1>5, <1>6

\* No element occurs twice.
Distinct(s) == \A i, j \in 1..Len(s) : s[i] = s[j] => i = j

\* x occurs in s.
Has(s, x) == \E i \in 1..Len(s) : s[i] = x

\* Removing one element of a queue without repetitions removes just that one.
LEMMA RemoveOne ==
  ASSUME NEW S, NEW s \in Seq(S), NEW k \in 1..Len(s), Distinct(s)
  PROVE  /\ Distinct(RemoveAt(s, k))
         /\ \A x : Has(RemoveAt(s, k), x) <=> x # s[k] /\ Has(s, x)
<1> DEFINE r    == RemoveAt(s, k)
           n    == Len(s)
           D(i) == IF i < k THEN i ELSE i - 1
           U(i) == IF i < k THEN i ELSE i + 1
<1>1. /\ r \in Seq(S) /\ Len(r) = n - 1 /\ n \in Nat /\ k \in 1..n
      /\ \A i \in 1..n - 1 : r[i] = IF i < k THEN s[i] ELSE s[i + 1]
  BY RemoveAtFacts
<1> HIDE DEF r
<1>2. \A i \in 1..n - 1 : U(i) \in 1..n /\ U(i) # k /\ r[i] = s[U(i)]
  BY <1>1
<1>3. \A i \in 1..n : i # k => D(i) \in 1..n - 1 /\ U(D(i)) = i
  BY <1>1
<1>4. \A i, j \in 1..n - 1 : U(i) = U(j) => i = j
  BY <1>1
<1> HIDE DEF n
<1>5. \A i, j \in 1..n : s[i] = s[j] => i = j
  BY DEF Distinct, n
<1> HIDE DEF D, U
<1>6. ASSUME NEW i \in 1..n - 1, NEW j \in 1..n - 1, r[i] = r[j] PROVE i = j
  BY <1>2, <1>4, <1>5, <1>6
<1>7. Distinct(r)
  BY <1>1, <1>6 DEF Distinct
<1>8. ASSUME NEW x PROVE Has(r, x) <=> x # s[k] /\ Has(s, x)
  <2>1. ASSUME NEW i \in 1..n - 1, r[i] = x PROVE x # s[k] /\ Has(s, x)
    <3>1. U(i) \in 1..n /\ U(i) # k /\ s[U(i)] = x
      BY <1>2, <2>1
    <3>2. x # s[k]
      BY <1>1, <1>5, <3>1
    <3> QED BY <3>1, <3>2 DEF Has, n
  <2>2. ASSUME NEW i \in 1..n, s[i] = x, x # s[k] PROVE Has(r, x)
    BY <1>1, <1>2, <1>3, <2>2 DEF Has
  <2> QED BY <1>1, <2>1, <2>2 DEF Has, n
<1> QED BY <1>7, <1>8 DEF r

-----------------------------------------------------------------------------
(* The inductive invariant                                                 *)

USE DEF Recursive

\* Who has the mutex, and how deep.  What a thread was told it has is either
\* the owner's count or the depth that its condition wait has put aside.
MutexOK ==
  /\ owner = NoThread <=> count = 0
  /\ ~Recursive => count <= 1
  /\ \A t \in Threads :
       /\ held[t] = IF owner = t THEN count ELSE call[t].recurse
       /\ owner = t => call[t].recurse = 0

\* What a thread may have in hand where it is.
CallOK ==
  \A t \in Threads :
    /\ pc[t] \in {"run", "mself", "mnotify", "cbcast"} =>
         call[t].recurse = 0 /\ call[t].result = "none"
    /\ pc[t] = "mself" => owner = t
    /\ pc[t] \in {"mwait", "mawake"} => (call[t].recurse > 0 <=> call[t].result # "none")
    /\ pc[t] = "cnotify" =>
         condHeld = t /\ ~moved[t] /\ call[t].recurse > 0 /\ call[t].result # "OK"
    /\ condHeld = t => pc[t] = "cnotify"
    /\ pc[t] \in {"cwait", "cawake"} => call[t].recurse > 0 /\ call[t].result = "none"
    /\ pc[t] = "relock" => call[t].recurse > 0 /\ call[t].result # "none"
    /\ ~Recursive => call[t].recurse <= 1

\* Who is registered with the condition variable.
QueueOK ==
  /\ Distinct(waiters)
  /\ \A t \in Threads : Has(waiters, t) <=> InWait(t) /\ ~moved[t]

IInv == TypeOK /\ MutexOK /\ CallOK /\ QueueOK /\ FreeMutexIsNoticed

-----------------------------------------------------------------------------
(* The waiters                                                             *)

\* Membership, in the two forms used.
LEMMA InWaiters ==
  ASSUME waiters \in Seq(Threads), NEW t
  PROVE  t \in ToSet(waiters) <=> Has(waiters, t)
BY DEF ToSet, Has

\* A thread that joins is the only one to be added (CondAddWaiter).
LEMMA AppendFresh ==
  ASSUME NEW S, NEW s \in Seq(S), NEW e \in S, Distinct(s), ~Has(s, e)
  PROVE  /\ Append(s, e) \in Seq(S) /\ Distinct(Append(s, e))
         /\ \A x : Has(Append(s, e), x) <=> x = e \/ Has(s, x)
<1>1. /\ Append(s, e) \in Seq(S) /\ Len(Append(s, e)) = Len(s) + 1
      /\ \A i \in 1..Len(s) : Append(s, e)[i] = s[i]
      /\ Append(s, e)[Len(s) + 1] = e
  OBVIOUS
<1>2. Distinct(Append(s, e))
  BY <1>1 DEF Distinct, Has
<1>3. ASSUME NEW x PROVE Has(Append(s, e), x) <=> x = e \/ Has(s, x)
  <2>1. ASSUME Has(s, x) PROVE Has(Append(s, e), x)
    BY <1>1, <2>1 DEF Has
  <2>2. Has(Append(s, e), e)
    BY <1>1 DEF Has
  <2>3. ASSUME Has(Append(s, e), x) PROVE x = e \/ Has(s, x)
    BY <1>1, <2>3 DEF Has
  <2> QED
    BY <2>1, <2>2, <2>3
<1> QED
  BY <1>1, <1>2, <1>3

\* A thread that leaves is the only one to be taken away (CondRemoveWaiter).
LEMMA WithoutFacts ==
  ASSUME waiters \in Seq(Threads), Distinct(waiters), NEW t \in Threads
  PROVE  /\ WaitersWithout(t) \in Seq(Threads) /\ Distinct(WaitersWithout(t))
         /\ \A x : Has(WaitersWithout(t), x) <=> x # t /\ Has(waiters, x)
<1>1. CASE Has(waiters, t)
  <2> DEFINE k == CHOOSE i \in 1..Len(waiters) : waiters[i] = t
  <2>1. k \in 1..Len(waiters) /\ waiters[k] = t
    BY <1>1 DEF Has
  <2>2. WaitersWithout(t) = RemoveAt(waiters, k)
    BY <1>1, InWaiters DEF WaitersWithout
  <2> HIDE DEF k
  <2> QED
    BY <2>1, <2>2, RemoveAtFacts, RemoveOne
<1>2. CASE ~Has(waiters, t)
  BY <1>2, InWaiters DEF WaitersWithout
<1> QED
  BY <1>1, <1>2

-----------------------------------------------------------------------------
(* The invariant                                                           *)

\* The state both objects start in satisfies the invariant.
LEMMA InitInv == Init => IInv
<1> SUFFICES ASSUME Init PROVE IInv
  OBVIOUS
<1>1. TypeOK
  BY SyncAssumption DEF Init, TypeOK, Call, NoCall, Codes, Places
<1>2. MutexOK /\ CallOK /\ FreeMutexIsNoticed
  BY SyncAssumption DEF Init, MutexOK, CallOK, FreeMutexIsNoticed, NoCall
<1>3. QueueOK
  BY DEF Init, QueueOK, Distinct, Has, InWait
<1> QED
  BY <1>1, <1>2, <1>3 DEF IInv

\* A step that leaves the condition variable alone and moves no thread in or
\* out of a condition wait keeps the queue as it was.
LEMMA QueueKept ==
  ASSUME IInv, UNCHANGED cond,
         \A u \in Threads : InWait(u)' <=> InWait(u)
  PROVE  QueueOK'
BY DEF IInv, QueueOK, cond

\* Becoming the owner to a proper depth keeps the types.
LEMMA OwnTypes ==
  ASSUME TypeOK, NEW t \in Threads, NEW n \in 0..CountMax, Own(t, n)
  PROVE  owner' \in Threads \cup {NoThread} /\ count' \in 0..CountMax
BY DEF TypeOK, Own

\* One lock more or less keeps the history within its bound, where the depth
\* the thread was told leaves room for it.
LEMMA HeldTypes ==
  ASSUME TypeOK, NEW t \in Threads,
         \/ held' = held
         \/ (Locked(t) /\ held[t] # CountMax)
         \/ (Unlocked(t) /\ held[t] # 0)
  PROVE  held' \in [Threads -> 0..CountMax]
<1>1. held \in [Threads -> 0..CountMax] /\ held[t] \in 0..CountMax /\ CountMax \in Nat
  BY SyncAssumption DEF TypeOK
<1>2. CASE held' = held
  BY <1>1, <1>2
<1>3. CASE Locked(t) /\ held[t] # CountMax
  <2>1. held[t] + 1 \in 0..CountMax /\ held' = [held EXCEPT ![t] = held[t] + 1]
    BY <1>1, <1>3 DEF Locked
  <2> QED
    BY <1>1, <2>1
<1>4. CASE Unlocked(t) /\ held[t] # 0
  <2>1. held[t] - 1 \in 0..CountMax /\ held' = [held EXCEPT ![t] = held[t] - 1]
    BY <1>1, <1>4 DEF Unlocked
  <2> QED
    BY <1>1, <2>1
<1> QED
  BY <1>2, <1>3, <1>4

\* The record of a thread outside any call.
LEMMA NoCallType == NoCall \in Call /\ NoCall.recurse = 0 /\ NoCall.result = "none"
BY SyncAssumption DEF Call, NoCall

\* Setting one field of a call's record leaves the others.
LEMMA CallFields ==
  ASSUME NEW c \in Call, NEW b \in BOOLEAN, NEW r \in {"none", "OK", "ETIMEDOUT"}
  PROVE  /\ [c EXCEPT !.timed = b] \in Call /\ [c EXCEPT !.result = r] \in Call
         /\ [c EXCEPT !.timed = b].recurse = c.recurse
         /\ [c EXCEPT !.timed = b].result = c.result
         /\ [c EXCEPT !.result = r].recurse = c.recurse
         /\ [c EXCEPT !.result = r].result = r
BY DEF Call

\* The steps of the mutex.
LEMMA MutexSteps ==
  ASSUME IInv, type' = type, NEW t \in Threads,
         \/ LockFree(t) \/ LockRecursive(t) \/ LockResume(t) \/ LockAgain(t)
         \/ \E how \in {"lock", "try", "zero", "time"} : LockSelf(t, how) \/ LockBusy(t, how)
         \/ SelfTimeOut(t) \/ LockWake(t) \/ LockTimeOut(t)
         \/ Unlock(t) \/ UnlockNotify(t) \/ Relock(t)
  PROVE  IInv'
<1> USE SyncAssumption DEF IInv
<1> SUFFICES TypeOK' /\ MutexOK' /\ CallOK' /\ QueueOK' /\ FreeMutexIsNoticed'
  OBVIOUS
<1>1. ASSUME LockFree(t)
     PROVE  TypeOK' /\ MutexOK' /\ CallOK' /\ QueueOK' /\ FreeMutexIsNoticed'
  <2>1. TypeOK'
    <3>1. Locked(t) /\ held[t] # CountMax /\ Own(t, 1) /\ 1 \in 0..CountMax
      BY <1>1 DEF LockFree, TypeOK, MutexOK, CallOK
    <3> QED
      BY <1>1, <3>1, OwnTypes, HeldTypes DEF LockFree, cond, TypeOK, Codes
  <2>2. MutexOK'
    BY <1>1 DEF LockFree, Own, Locked, Goto, mutex, TypeOK, MutexOK, CallOK, Call
  <2>3. CallOK'
    BY <1>1 DEF LockFree, Own, Goto, mutex, cond, TypeOK, MutexOK, CallOK, Call, NoCall
  <2>4. QueueOK'
    <3>1. UNCHANGED cond /\ \A u \in Threads : InWait(u)' <=> InWait(u)
      BY <1>1 DEF LockFree, Goto, TypeOK, InWait
    <3> QED
      BY <3>1, QueueKept
  <2>5. FreeMutexIsNoticed'
    BY <1>1 DEF LockFree, Own, Goto, mutex, TypeOK, CallOK, FreeMutexIsNoticed
  <2> QED
    BY <2>1, <2>2, <2>3, <2>4, <2>5
<1>2. ASSUME LockRecursive(t)
     PROVE  TypeOK' /\ MutexOK' /\ CallOK' /\ QueueOK' /\ FreeMutexIsNoticed'
  <2>1. TypeOK'
    <3>1. CASE count = CountMax
      BY <1>2, <3>1 DEF LockRecursive, mutex, cond, TypeOK, Codes
    <3>2. CASE count # CountMax
      <4>1. /\ count + 1 \in 0..CountMax /\ Own(t, count + 1) /\ ret' = "OK"
            /\ Locked(t) /\ held[t] # CountMax
        BY <1>2, <3>2 DEF LockRecursive, TypeOK, MutexOK
      <4> QED
        BY <1>2, <4>1, OwnTypes, HeldTypes DEF LockRecursive, cond, TypeOK, Codes
    <3> QED
      BY <3>1, <3>2
  <2>2. MutexOK'
    BY <1>2 DEF LockRecursive, Own, Locked, Goto, mutex, cond, TypeOK, MutexOK, CallOK, Call
  <2>3. CallOK'
    BY <1>2 DEF LockRecursive, Own, Goto, mutex, cond, TypeOK, MutexOK, CallOK, Call, NoCall
  <2>4. QueueOK'
    <3>1. UNCHANGED cond /\ \A u \in Threads : InWait(u)' <=> InWait(u)
      BY <1>2 DEF LockRecursive, Goto, TypeOK, InWait
    <3> QED
      BY <3>1, QueueKept
  <2>5. FreeMutexIsNoticed'
    BY <1>2 DEF LockRecursive, Own, Goto, mutex, TypeOK, CallOK, FreeMutexIsNoticed
  <2> QED
    BY <2>1, <2>2, <2>3, <2>4, <2>5
<1>3. ASSUME NEW how \in {"lock", "try", "zero", "time"}, LockSelf(t, how)
     PROVE  TypeOK' /\ MutexOK' /\ CallOK' /\ QueueOK' /\ FreeMutexIsNoticed'
  <2>1. TypeOK'
    BY <1>3 DEF LockSelf, Own, Goto, mutex, cond, TypeOK, MutexOK, CallOK, Call, NoCall, Codes, Places
  <2>2. MutexOK'
    BY <1>3 DEF LockSelf, Own, Goto, mutex, TypeOK, MutexOK, CallOK, Call
  <2>3. CallOK'
    BY <1>3 DEF LockSelf, Own, Goto, mutex, cond, TypeOK, MutexOK, CallOK, Call, NoCall
  <2>4. QueueOK'
    <3>1. UNCHANGED cond /\ \A u \in Threads : InWait(u)' <=> InWait(u)
      BY <1>3 DEF LockSelf, Goto, TypeOK, InWait
    <3> QED
      BY <3>1, QueueKept
  <2>5. FreeMutexIsNoticed'
    BY <1>3 DEF LockSelf, Own, Goto, mutex, TypeOK, CallOK, FreeMutexIsNoticed
  <2> QED
    BY <2>1, <2>2, <2>3, <2>4, <2>5
<1>4. ASSUME SelfTimeOut(t)
     PROVE  TypeOK' /\ MutexOK' /\ CallOK' /\ QueueOK' /\ FreeMutexIsNoticed'
  <2>1. TypeOK'
    BY <1>4 DEF SelfTimeOut, Own, Goto, mutex, cond, TypeOK, MutexOK, CallOK, Call, NoCall, Codes, Places
  <2>2. MutexOK'
    BY <1>4 DEF SelfTimeOut, Own, Goto, mutex, TypeOK, MutexOK, CallOK, Call
  <2>3. CallOK'
    BY <1>4 DEF SelfTimeOut, Own, Goto, mutex, cond, TypeOK, MutexOK, CallOK, Call, NoCall
  <2>4. QueueOK'
    <3>1. UNCHANGED cond /\ \A u \in Threads : InWait(u)' <=> InWait(u)
      BY <1>4 DEF SelfTimeOut, Goto, TypeOK, InWait
    <3> QED
      BY <3>1, QueueKept
  <2>5. FreeMutexIsNoticed'
    BY <1>4 DEF SelfTimeOut, Own, Goto, mutex, TypeOK, CallOK, FreeMutexIsNoticed
  <2> QED
    BY <2>1, <2>2, <2>3, <2>4, <2>5
<1>5. ASSUME NEW how \in {"lock", "try", "zero", "time"}, LockBusy(t, how)
     PROVE  TypeOK' /\ MutexOK' /\ CallOK' /\ QueueOK' /\ FreeMutexIsNoticed'
  <2> DEFINE x == [call[t] EXCEPT !.timed = (how = "time")]
  <2>0. /\ x \in Call /\ x.recurse = call[t].recurse /\ x.result = call[t].result
        /\ call' = [call EXCEPT ![t] = x] \/ call' = call
    <3>1. call[t] \in Call /\ (how = "time") \in BOOLEAN
      BY DEF TypeOK
    <3>2. x \in Call /\ x.recurse = call[t].recurse /\ x.result = call[t].result
      BY <3>1, CallFields, ZenonT(60)
    <3>3. call' = [call EXCEPT ![t] = x] \/ call' = call
      BY <1>5 DEF LockBusy
    <3> QED
      BY <3>2, <3>3
  <2> HIDE DEF x
  <2>1. TypeOK'
    BY ZenonT(60), <1>5, <2>0 DEF LockBusy, Goto, mutex, cond, TypeOK, Codes, Places
  <2>2. MutexOK'
    <3>1. UNCHANGED mutex /\ \A u \in Threads : call'[u].recurse = call[u].recurse
      BY <1>5, <2>0 DEF LockBusy, TypeOK
    <3> QED
      BY <3>1 DEF mutex, MutexOK
  <2>3. CallOK'
    <3>1. CASE UNCHANGED <<pc, call>>
      BY <1>5, <3>1 DEF LockBusy, mutex, cond, CallOK
    <3>2. CASE pc' = [pc EXCEPT ![t] = "mwait"]
      BY <1>5, <2>0, <3>2 DEF LockBusy, mutex, cond, TypeOK, CallOK
    <3> QED
      BY <1>5, <3>1, <3>2 DEF LockBusy, Goto
  <2>4. QueueOK'
    <3>1. UNCHANGED cond /\ \A u \in Threads : InWait(u)' <=> InWait(u)
      BY <1>5 DEF LockBusy, Goto, TypeOK, InWait
    <3> QED
      BY <3>1, QueueKept
  <2>5. FreeMutexIsNoticed'
    BY <1>5 DEF LockBusy, Own, Goto, mutex, TypeOK, CallOK, FreeMutexIsNoticed
  <2> QED
    BY <2>1, <2>2, <2>3, <2>4, <2>5
<1>6. ASSUME LockWake(t)
     PROVE  TypeOK' /\ MutexOK' /\ CallOK' /\ QueueOK' /\ FreeMutexIsNoticed'
  <2>1. TypeOK'
    BY <1>6 DEF LockWake, Own, Goto, mutex, cond, TypeOK, MutexOK, CallOK, Call, NoCall, Codes, Places
  <2>2. MutexOK'
    BY <1>6 DEF LockWake, Own, Goto, mutex, TypeOK, MutexOK, CallOK, Call
  <2>3. CallOK'
    BY <1>6 DEF LockWake, Own, Goto, mutex, cond, TypeOK, MutexOK, CallOK, Call, NoCall
  <2>4. QueueOK'
    <3>1. UNCHANGED cond /\ \A u \in Threads : InWait(u)' <=> InWait(u)
      BY <1>6 DEF LockWake, Goto, TypeOK, InWait
    <3> QED
      BY <3>1, QueueKept
  <2>5. FreeMutexIsNoticed'
    BY <1>6 DEF LockWake, Own, Goto, mutex, TypeOK, CallOK, FreeMutexIsNoticed
  <2> QED
    BY <2>1, <2>2, <2>3, <2>4, <2>5
<1>7. ASSUME LockResume(t)
     PROVE  TypeOK' /\ MutexOK' /\ CallOK' /\ QueueOK' /\ FreeMutexIsNoticed'
  <2>0. /\ call[t].recurse \in 0..CountMax /\ held[t] = call[t].recurse
        /\ ~Recursive => call[t].recurse <= 1
        /\ \/ call[t].recurse > 0 /\ Own(t, call[t].recurse) /\ held' = held
           \/ call[t].recurse = 0 /\ Own(t, 1) /\ Locked(t)
        /\ call' = [call EXCEPT ![t] = NoCall] /\ owner = NoThread
    BY <1>7 DEF LockResume, TypeOK, Call, MutexOK, CallOK
  <2>1. TypeOK'
    <3>1. \E n \in 0..CountMax : Own(t, n)
      BY <1>7 DEF LockResume, TypeOK, Call
    <3>2. call' \in [Threads -> Call]
      BY <1>7 DEF LockResume, TypeOK, Call, NoCall
    <3>3. ret' \in Codes
      BY <1>7 DEF LockResume, TypeOK, Call, CallOK, Codes
    <3>4. held' = held \/ (Locked(t) /\ held[t] # CountMax)
      BY <2>0
    <3> QED
      BY <1>7, <3>1, <3>2, <3>3, <3>4, OwnTypes, HeldTypes DEF LockResume, Goto, cond, TypeOK, Places
  <2>2. MutexOK'
    <3>1. /\ call'[t].recurse = 0
          /\ \A u \in Threads \ {t} : call'[u] = call[u]
      BY <2>0, NoCallType DEF TypeOK
    <3>2. CASE call[t].recurse > 0
      BY <2>0, <3>1, <3>2 DEF Own, MutexOK
    <3>3. CASE call[t].recurse = 0
      <4>1. held'[t] = 1 /\ \A u \in Threads \ {t} : held'[u] = held[u]
        BY <2>0, <3>3 DEF Locked, TypeOK
      <4> QED
        BY <2>0, <3>1, <3>3, <4>1 DEF Own, MutexOK
    <3> QED
      BY <2>0, <3>2, <3>3
  <2>3. CallOK'
    BY <1>7 DEF LockResume, Own, Goto, mutex, cond, TypeOK, MutexOK, CallOK, Call, NoCall
  <2>4. QueueOK'
    <3>1. UNCHANGED cond /\ \A u \in Threads : InWait(u)' <=> InWait(u)
      BY <1>7 DEF LockResume, Goto, TypeOK, InWait
    <3> QED
      BY <3>1, QueueKept
  <2>5. FreeMutexIsNoticed'
    BY <1>7 DEF LockResume, Own, Goto, mutex, TypeOK, CallOK, FreeMutexIsNoticed
  <2> QED
    BY <2>1, <2>2, <2>3, <2>4, <2>5
<1>8. ASSUME LockAgain(t)
     PROVE  TypeOK' /\ MutexOK' /\ CallOK' /\ QueueOK' /\ FreeMutexIsNoticed'
  <2>1. TypeOK'
    BY <1>8 DEF LockAgain, Own, Goto, mutex, cond, TypeOK, MutexOK, CallOK, Call, NoCall, Codes, Places
  <2>2. MutexOK'
    BY <1>8 DEF LockAgain, Own, Goto, mutex, TypeOK, MutexOK, CallOK, Call
  <2>3. CallOK'
    BY <1>8 DEF LockAgain, Own, Goto, mutex, cond, TypeOK, MutexOK, CallOK, Call, NoCall
  <2>4. QueueOK'
    <3>1. UNCHANGED cond /\ \A u \in Threads : InWait(u)' <=> InWait(u)
      BY <1>8 DEF LockAgain, Goto, TypeOK, InWait
    <3> QED
      BY <3>1, QueueKept
  <2>5. FreeMutexIsNoticed'
    BY <1>8 DEF LockAgain, Own, Goto, mutex, TypeOK, CallOK, FreeMutexIsNoticed
  <2> QED
    BY <2>1, <2>2, <2>3, <2>4, <2>5
<1>9. ASSUME LockTimeOut(t)
     PROVE  TypeOK' /\ MutexOK' /\ CallOK' /\ QueueOK' /\ FreeMutexIsNoticed'
  <2>1. TypeOK'
    BY <1>9 DEF LockTimeOut, Own, Goto, mutex, cond, TypeOK, MutexOK, CallOK, Call, NoCall, Codes, Places
  <2>2. MutexOK'
    BY <1>9, NoCallType DEF LockTimeOut, mutex, TypeOK, MutexOK
  <2>3. CallOK'
    BY <1>9 DEF LockTimeOut, Own, Goto, mutex, cond, TypeOK, MutexOK, CallOK, Call, NoCall
  <2>4. QueueOK'
    <3>1. UNCHANGED cond /\ \A u \in Threads : InWait(u)' <=> InWait(u)
      BY <1>9 DEF LockTimeOut, Goto, TypeOK, InWait
    <3> QED
      BY <3>1, QueueKept
  <2>5. FreeMutexIsNoticed'
    BY <1>9 DEF LockTimeOut, Own, Goto, mutex, TypeOK, CallOK, FreeMutexIsNoticed
  <2> QED
    BY <2>1, <2>2, <2>3, <2>4, <2>5
<1>10. ASSUME Unlock(t)
     PROVE  TypeOK' /\ MutexOK' /\ CallOK' /\ QueueOK' /\ FreeMutexIsNoticed'
  <2>1. TypeOK'
    <3>1. CASE owner # t
      BY <1>10, <3>1 DEF Unlock, mutex, cond, TypeOK, Codes
    <3>2. CASE owner = t /\ Recursive /\ count > 1
      <4>1. /\ count - 1 \in 0..CountMax /\ Own(t, count - 1)
            /\ Unlocked(t) /\ held[t] # 0
        BY <1>10, <3>2 DEF Unlock, TypeOK, MutexOK
      <4> QED
        BY <1>10, <3>2, <4>1, OwnTypes, HeldTypes DEF Unlock, cond, TypeOK, Codes
    <3>3. CASE owner = t /\ ~(Recursive /\ count > 1)
      <4>1. 0 \in 0..CountMax
        OBVIOUS
      <4>2. held' \in [Threads -> 0..CountMax]
        BY <1>10, <3>3, HeldTypes DEF Unlock, TypeOK, MutexOK
      <4> QED
        BY <1>10, <3>3, <4>1, <4>2 DEF Unlock, Goto, cond, TypeOK, Places
    <3> QED
      BY <3>1, <3>2, <3>3
  <2>2. MutexOK'
    BY <1>10 DEF Unlock, Own, Unlocked, mutex, cond, TypeOK, MutexOK, CallOK
  <2>3. CallOK'
    <3>1. /\ UNCHANGED <<cond, call, type>> /\ pc[t] = "run"
          /\ \/ pc' = pc
             \/ pc' = [pc EXCEPT ![t] = "mnotify"]
          /\ owner' = owner \/ owner = t
      BY <1>10 DEF Unlock, Own, Goto, mutex
    <3> QED
      BY <3>1 DEF cond, TypeOK, CallOK
  <2>4. QueueOK'
    <3>1. UNCHANGED cond /\ \A u \in Threads : InWait(u)' <=> InWait(u)
      BY <1>10 DEF Unlock, Goto, TypeOK, InWait
    <3> QED
      BY <3>1, QueueKept
  <2>5. FreeMutexIsNoticed'
    BY <1>10 DEF Unlock, Own, Goto, mutex, TypeOK, CallOK, FreeMutexIsNoticed
  <2> QED
    BY <2>1, <2>2, <2>3, <2>4, <2>5
<1>11. ASSUME UnlockNotify(t)
     PROVE  TypeOK' /\ MutexOK' /\ CallOK' /\ QueueOK' /\ FreeMutexIsNoticed'
  <2>1. TypeOK'
    BY ZenonT(60), <1>11 DEF UnlockNotify, Own, Goto, mutex, cond, TypeOK, MutexOK, CallOK, Call, NoCall, Codes, Places, WokenByOne
  <2>2. MutexOK'
    BY <1>11 DEF UnlockNotify, Own, Goto, mutex, TypeOK, MutexOK, CallOK, Call, WokenByOne
  <2>3. CallOK'
    BY <1>11 DEF UnlockNotify, Own, Goto, mutex, cond, TypeOK, MutexOK, CallOK, Call, NoCall, WokenByOne
  <2>4. QueueOK'
    <3>1. UNCHANGED cond /\ \A u \in Threads : InWait(u)' <=> InWait(u)
      BY <1>11 DEF UnlockNotify, Goto, TypeOK, InWait, WokenByOne
    <3> QED
      BY <3>1, QueueKept
  <2>5. FreeMutexIsNoticed'
    BY <1>11 DEF UnlockNotify, Own, Goto, mutex, TypeOK, CallOK, FreeMutexIsNoticed, WokenByOne
  <2> QED
    BY <2>1, <2>2, <2>3, <2>4, <2>5
<1>12. ASSUME Relock(t)
     PROVE  TypeOK' /\ MutexOK' /\ CallOK' /\ QueueOK' /\ FreeMutexIsNoticed'
  <2>1. TypeOK'
    <3>1. CASE owner = NoThread
      <4>1. call[t].recurse \in 0..CountMax /\ Own(t, call[t].recurse)
        BY <1>12, <3>1 DEF Relock, TypeOK, Call
      <4>2. call' \in [Threads -> Call]
        BY <1>12, <3>1, NoCallType DEF Relock, TypeOK
      <4>3. ret' \in Codes
        BY <1>12, <3>1 DEF Relock, TypeOK, Call, CallOK, Codes
      <4> QED
        BY <1>12, <3>1, <4>1, <4>2, <4>3, OwnTypes, HeldTypes DEF Relock, Goto, cond, TypeOK, Places
    <3>2. CASE owner # NoThread
      BY <1>12, <3>2 DEF Relock, Goto, mutex, cond, TypeOK, Places
    <3> QED
      BY <3>1, <3>2
  <2>2. MutexOK'
    BY <1>12, NoCallType DEF Relock, Own, mutex, TypeOK, MutexOK, CallOK, Call
  <2>3. CallOK'
    <3>1. /\ UNCHANGED <<cond, type>> /\ pc[t] = "relock"
          /\ \/ /\ owner = NoThread /\ owner' = t
                /\ call' = [call EXCEPT ![t] = NoCall] /\ pc' = [pc EXCEPT ![t] = "run"]
             \/ /\ owner' = owner /\ call' = call
                /\ pc' = [pc EXCEPT ![t] = "mwait"]
      BY <1>12 DEF Relock, Own, Goto, mutex
    <3> QED
      BY <3>1, NoCallType DEF cond, TypeOK, CallOK
  <2>4. QueueOK'
    <3>1. UNCHANGED cond /\ \A u \in Threads : InWait(u)' <=> InWait(u)
      BY <1>12 DEF Relock, Goto, TypeOK, InWait
    <3> QED
      BY <3>1, QueueKept
  <2>5. FreeMutexIsNoticed'
    BY <1>12 DEF Relock, Own, Goto, mutex, TypeOK, CallOK, FreeMutexIsNoticed
  <2> QED
    BY <2>1, <2>2, <2>3, <2>4, <2>5
<1> QED
  BY <1>1, <1>2, <1>3, <1>4, <1>5, <1>6, <1>7, <1>8, <1>9, <1>10, <1>11, <1>12

\* A step of a thread inside its wait, or of one that signals nobody, that
\* leaves mutex, queue and calls alone.
LEMMA QuietSteps ==
  ASSUME IInv, type' = type, NEW t \in Threads,
         CondWake(t) \/ CondAgain(t) \/ CondNotify(t) \/ SignalNone(t)
  PROVE  IInv'
<1> USE SyncAssumption DEF IInv
<1>1. /\ UNCHANGED <<mutex, cond, call>> /\ ret' \in Codes
      /\ pc' \in [Threads -> Places]
      /\ \A u \in Threads :
           \/ pc'[u] = pc[u]
           \/ pc[u] \in {"cwait", "cawake"} /\ pc'[u] \in {"cwait", "cawake"}
           \/ pc[u] = "cbcast" /\ pc'[u] = "run"
  BY DEF CondWake, CondAgain, CondNotify, SignalNone, Goto, TypeOK, Codes, Places
<1>2. TypeOK'
  BY <1>1 DEF TypeOK, mutex, cond
<1>3. MutexOK'
  BY <1>1 DEF MutexOK, mutex
<1>4. CallOK'
  BY <1>1 DEF CallOK, mutex, cond
<1>5. QueueOK'
  BY <1>1, QueueKept DEF InWait
<1>6. FreeMutexIsNoticed'
  BY <1>1 DEF FreeMutexIsNoticed, mutex
<1> QED
  BY <1>2, <1>3, <1>4, <1>5, <1>6

\* A waiter's own decision to leave (CondReady, CondTimeOut).
LEMMA DecideSteps ==
  ASSUME IInv, type' = type, NEW t \in Threads, NEW r \in {"OK", "ETIMEDOUT"},
         pc[t] = "cawake", Decide(t, r)
  PROVE  IInv'
<1> USE SyncAssumption DEF IInv
<1> DEFINE x == [call[t] EXCEPT !.result = r]
<1>1. /\ x \in Call /\ x.recurse = call[t].recurse /\ x.result = r
      /\ call' = [call EXCEPT ![t] = x]
  <2>1. call[t] \in Call /\ r \in {"none", "OK", "ETIMEDOUT"} /\ TRUE \in BOOLEAN
    BY DEF TypeOK
  <2>2. x \in Call /\ x.recurse = call[t].recurse /\ x.result = r
    BY <2>1, CallFields, Zenon
  <2> QED
    BY <2>2 DEF Decide
<1> HIDE DEF x
<1>2. /\ waiters' \in Seq(Threads) /\ Distinct(waiters)'
      /\ \A u : Has(waiters, u)' <=> u # t /\ Has(waiters, u)
  BY WithoutFacts DEF Decide, TypeOK, QueueOK
<1>3. TypeOK'
  BY ZenonT(60), <1>1, <1>2 DEF Decide, Goto, mutex, TypeOK, Places
<1>4. MutexOK'
  BY <1>1 DEF Decide, mutex, TypeOK, MutexOK
<1>5. CallOK'
  BY <1>1 DEF Decide, Goto, mutex, TypeOK, CallOK
<1>6. QueueOK'
  BY <1>2 DEF Decide, Goto, TypeOK, QueueOK, InWait
<1>7. FreeMutexIsNoticed'
  BY DEF Decide, Goto, mutex, TypeOK, FreeMutexIsNoticed
<1> QED
  BY <1>3, <1>4, <1>5, <1>6, <1>7

\* Signalling one thread (CondWakeWaiter).
LEMMA FreeSteps ==
  ASSUME IInv, type' = type, NEW t \in Threads, NEW u \in Threads, Free(t, u)
  PROVE  IInv'
<1> USE SyncAssumption DEF IInv
<1>1. /\ waiters' \in Seq(Threads) /\ Distinct(waiters)'
      /\ \A x : Has(waiters, x)' <=> x # u /\ Has(waiters, x)
  BY WithoutFacts DEF Free, TypeOK, QueueOK
<1>2. InWait(u) /\ pc[u] # "cnotify" /\ pc[t] = "run"
  BY InWaiters DEF Free, TypeOK, QueueOK, CallOK
<1>3. TypeOK'
  BY <1>1 DEF Free, Goto, mutex, TypeOK, Places
<1>4. MutexOK'
  BY DEF Free, mutex, MutexOK
<1>5. CallOK'
  BY <1>2 DEF Free, Goto, mutex, TypeOK, CallOK
<1>6. QueueOK'
  BY <1>1, <1>2 DEF Free, Goto, TypeOK, QueueOK, InWait
<1>7. FreeMutexIsNoticed'
  BY DEF Free, Goto, mutex, TypeOK, FreeMutexIsNoticed
<1> QED
  BY <1>3, <1>4, <1>5, <1>6, <1>7

\* Signalling all of them (PthreadCondBroadcast).
LEMMA BroadcastSteps ==
  ASSUME IInv, type' = type, NEW t \in Threads, Broadcast(t)
  PROVE  IInv'
<1> USE SyncAssumption DEF IInv
<1>1. \A x : ~Has(waiters, x)'
  BY DEF Broadcast, Has
<1>2. \A u \in Threads : pc[u] # "cnotify"
  BY DEF Broadcast, CallOK
<1>3. moved' \in [Threads -> BOOLEAN] /\ \A u \in Threads : moved'[u] <=> moved[u] \/ InWait(u)
  BY DEF Broadcast, InWait
<1>4. TypeOK'
  BY <1>3 DEF Broadcast, Goto, mutex, TypeOK, Places
<1>5. MutexOK'
  BY DEF Broadcast, mutex, MutexOK
<1>6. CallOK'
  BY <1>2 DEF Broadcast, Goto, mutex, TypeOK, CallOK
<1>7. QueueOK'
  BY <1>1, <1>3 DEF Broadcast, Goto, TypeOK, QueueOK, InWait, Distinct
<1>8. FreeMutexIsNoticed'
  BY DEF Broadcast, Goto, mutex, TypeOK, FreeMutexIsNoticed
<1> QED
  BY <1>4, <1>5, <1>6, <1>7, <1>8

\* Joining the waiters and giving up the mutex (the waits' first half).
LEMMA WaitSteps ==
  ASSUME IInv, type' = type, NEW t \in Threads, NEW how \in {"wait", "time", "zero"}, CondWait(t, how)
  PROVE  IInv'
<1> USE SyncAssumption DEF IInv
<1>1. CASE owner # t
  <2>1. UNCHANGED <<mutex, cond, pc, call>> /\ ret' \in Codes
    BY <1>1 DEF CondWait, Codes
  <2> QED
    BY <2>1 DEF mutex, cond, TypeOK, MutexOK, CallOK, QueueOK, InWait, FreeMutexIsNoticed
<1>2. CASE owner = t
  <2> DEFINE x == [timed |-> how # "wait", recurse |-> count,
                   result |-> IF how = "zero" THEN "ETIMEDOUT" ELSE "none"]
  <2>1. /\ pc[t] = "run" /\ condHeld = NoThread
        /\ condHeld' = t /\ waiters' = Append(waiters, t)
        /\ moved' = [moved EXCEPT ![t] = FALSE] /\ call' = [call EXCEPT ![t] = x]
        /\ owner' = NoThread /\ count' = 0 /\ held' = held
        /\ pc' = [pc EXCEPT ![t] = "cnotify"] /\ ret' = ret
    BY <1>2 DEF CondWait, Goto
  <2>2. /\ x.recurse = count /\ x.result # "OK" /\ x \in Call
        /\ count > 0
    BY <1>2 DEF TypeOK, Call, MutexOK
  <2> HIDE DEF x
  <2>3. /\ waiters' \in Seq(Threads) /\ Distinct(waiters)'
        /\ \A u : Has(waiters, u)' <=> u = t \/ Has(waiters, u)
    <3>1. ~Has(waiters, t)
      BY <2>1 DEF QueueOK, InWait
    <3> QED
      BY <2>1, <3>1, AppendFresh DEF TypeOK, QueueOK
  <2>4. TypeOK'
    <3>1. 0 \in 0..CountMax
      OBVIOUS
    <3> QED
      BY <2>1, <2>2, <2>3, <3>1 DEF TypeOK, Places
  <2>5. MutexOK'
    BY <1>2, <2>1, <2>2 DEF TypeOK, MutexOK
  <2>6. CallOK'
    BY <1>2, <2>1, <2>2 DEF TypeOK, MutexOK, CallOK
  <2>7. QueueOK'
    BY <2>1, <2>3 DEF TypeOK, QueueOK, InWait
  <2>8. FreeMutexIsNoticed'
    BY <2>1 DEF TypeOK, FreeMutexIsNoticed
  <2> QED
    BY <2>4, <2>5, <2>6, <2>7, <2>8
<1> QED
  BY <1>1, <1>2

\* Going to sleep, or leaving at once, after the mutex has been given up.
LEMMA SleepSteps ==
  ASSUME IInv, type' = type, NEW t \in Threads, CondSleep(t)
  PROVE  IInv'
<1> USE SyncAssumption DEF IInv
<1> DEFINE where == IF call[t].result = "none" THEN "cwait" ELSE "relock"
<1>1. /\ pc[t] = "cnotify" /\ condHeld' = NoThread /\ UNCHANGED <<mutex, call, moved, ret>>
      /\ waiters' = (IF where = "cwait" THEN waiters ELSE WaitersWithout(t))
      /\ WokenByOne(t, where)
  BY DEF CondSleep
<1>2. where \in {"cwait", "relock"} /\ (where = "cwait" <=> call[t].result = "none")
  OBVIOUS
<1> HIDE DEF where
<1>3. /\ waiters' \in Seq(Threads) /\ Distinct(waiters)'
      /\ \A u : Has(waiters, u)' <=> (u = t => where = "cwait") /\ Has(waiters, u)
  BY <1>1, <1>2, WithoutFacts DEF TypeOK, QueueOK
<1>4. /\ pc' \in [Threads -> Places] /\ pc'[t] = where
      /\ \A u \in Threads \ {t} :
           pc'[u] = pc[u] \/ (pc[u] = "mwait" /\ pc'[u] = "mawake")
  <2> DEFINE asleep == {u \in Threads : pc[u] \in {"mwait", "mself"}}
  <2>1. pc \in [Threads -> Places] /\ where \in Places
        /\ "mawake" \in Places /\ "mself" \in Places
    BY <1>2 DEF TypeOK, Places
  <2>2. CASE asleep = {}
    <3>1. pc' = [pc EXCEPT ![t] = where]
      BY <1>1, <2>2 DEF WokenByOne, Goto
    <3> QED
      BY <2>1, <3>1
  <2>3. CASE asleep # {}
    <3>1. PICK u \in asleep :
            pc' = [pc EXCEPT ![t] = where,
                             ![u] = IF @ = "mself" THEN "mself" ELSE "mawake"]
      BY <1>1, <2>3 DEF WokenByOne
    <3>2. u # t /\ u \in Threads /\ pc[u] \in {"mwait", "mself"}
      BY <1>1
    <3>3. pc' = [pc EXCEPT ![t] = where, ![u] = IF pc[u] = "mself" THEN "mself" ELSE "mawake"]
      BY <2>1, <3>1, <3>2
    <3>4. /\ pc' \in [Threads -> Places] /\ pc'[t] = where
          /\ pc'[u] = IF pc[u] = "mself" THEN "mself" ELSE "mawake"
          /\ \A v \in Threads \ {t, u} : pc'[v] = pc[v]
      BY <2>1, <3>2, <3>3
    <3> QED
      BY <3>2, <3>4
  <2> QED
    BY <2>2, <2>3
<1>5. TypeOK'
  BY <1>1, <1>3, <1>4 DEF TypeOK, mutex
<1>6. MutexOK'
  BY <1>1 DEF MutexOK, mutex
<1>7. CallOK'
  BY <1>1, <1>2, <1>4 DEF CallOK, TypeOK, mutex
<1>8. QueueOK'
  BY <1>1, <1>2, <1>3, <1>4 DEF QueueOK, CallOK, InWait
<1>9. FreeMutexIsNoticed'
  BY <1>1, <1>2 DEF WokenByOne, Goto, TypeOK, CallOK, FreeMutexIsNoticed, mutex
<1> QED
  BY <1>5, <1>6, <1>7, <1>8, <1>9

\* The type of a mutex is settled when it is made.
LEMMA TypeKept == Next => type' = type
BY DEF Next, LockFree, LockRecursive, LockResume, LockAgain, LockSelf, LockBusy, SelfTimeOut,
       LockWake, LockTimeOut, Unlock, UnlockNotify, CondWait, CondSleep, CondWake, CondReady,
       CondTimeOut, Decide, CondAgain, Relock, SignalNone, Signal, Free, Broadcast, CondNotify,
       SignalTo, Own, mutex

\* Every step of either object keeps the invariant.
LEMMA NextInv == IInv /\ [Next]_vars => IInv'
<1> SUFFICES ASSUME IInv, [Next]_vars PROVE IInv'
  OBVIOUS
<1>1. CASE UNCHANGED vars
  BY <1>1 DEF vars, IInv, TypeOK, MutexOK, CallOK, QueueOK, InWait, FreeMutexIsNoticed
<1>2. ASSUME NEW t \in Threads, type' = type, CondReady(t) \/ CondTimeOut(t) PROVE IInv'
  BY <1>2, DecideSteps DEF CondReady, CondTimeOut
<1>3. ASSUME NEW t \in Threads, type' = type, Signal(t) PROVE IInv'
  <2>1. Head(waiters) \in Threads
    BY <1>3 DEF Signal, IInv, TypeOK
  <2> QED
    BY <1>3, <2>1, FreeSteps DEF Signal
<1>4. ASSUME NEW t \in Threads, NEW u \in Threads, type' = type, SignalTo(t, u) PROVE IInv'
  BY <1>4, FreeSteps DEF SignalTo
<1> QED
  BY <1>1, <1>2, <1>3, <1>4, TypeKept, MutexSteps, QuietSteps, BroadcastSteps, WaitSteps,
     SleepSteps     DEF Next

\* The inductive invariant holds throughout.
THEOREM Invariance == Spec => []IInv
  BY InitInv, NextInv, PTL DEF Spec

\* TypeOK holds: in particular the recursion count never passes its maximum.
THEOREM TypeCorrect == Spec => []TypeOK
<1>1. IInv => TypeOK
  BY DEF IInv
<1> QED
  BY <1>1, Invariance, PTL

\* Every thread outside a condition wait owns the mutex as deep as the calls
\* it made have told it: across its waits, the count that owner and waiters
\* hand to each other comes back whole, and two threads are never told the
\* mutex is theirs.
THEOREM Ownership == Spec => []HoldersAgree
<1>1. IInv => HoldersAgree
  <2> SUFFICES ASSUME IInv, NEW t \in Threads, Phase(t) = "run"
               PROVE  held[t] = IF owner = t THEN count ELSE 0
    BY DEF HoldersAgree
  <2>1. ~InWait(t) /\ call[t].result = "none" /\ pc[t] \in Places
    BY DEF IInv, TypeOK, Call, Phase
  <2>2. call[t].recurse = 0
    BY <2>1 DEF IInv, TypeOK, Call, CallOK, InWait, Places
  <2> QED
    BY <2>2 DEF IInv, MutexOK
<1> QED
  BY <1>1, Invariance, PTL

\* The registered threads are exactly the waiting ones nobody has freed.
THEOREM WaitersRegistered == Spec => []NoForgottenWaiter
<1>1. IInv => NoForgottenWaiter
  <2> SUFFICES ASSUME IInv PROVE NoForgottenWaiter
    OBVIOUS
  <2>1. waiters \in Seq(Threads) /\ DOMAIN waiters = 1..Len(waiters)
    BY DEF IInv, TypeOK
  <2>2. IsInjective(waiters)
    BY <2>1 DEF IInv, QueueOK, Distinct, IsInjective
  <2>3. ASSUME NEW t \in Threads PROVE InWait(t) /\ ~moved[t] <=> t \in ToSet(waiters)
    BY <2>1, InWaiters DEF IInv, QueueOK
  <2> QED
    BY <2>2, <2>3 DEF NoForgottenWaiter
<1> QED
  BY <1>1, Invariance, PTL

\* A free mutex with sleepers has somebody on the way to it.
THEOREM FreeMutexNoticed == Spec => []FreeMutexIsNoticed
<1>1. IInv => FreeMutexIsNoticed
  BY DEF IInv
<1> QED
  BY <1>1, Invariance, PTL

-----------------------------------------------------------------------------
(* The refinement                                                          *)

\* The abstract waits, as functions of the state.
phases == [t \in Threads |-> Phase(t)]
saveds == [t \in Threads |-> call[t].recurse]

\* A thread seen from the monitor is where it was.
Still(u) == Phase(u)' = Phase(u) /\ call'[u].recurse = call[u].recurse

\* Where a thread is, seen from the monitor.
LEMMA PhaseIs ==
  ASSUME NEW t
  PROVE  /\ InWait(t) /\ moved[t] => Phase(t) = "woken"
         /\ InWait(t) /\ ~moved[t] => Phase(t) = "waiting"
         /\ ~InWait(t) /\ call[t].result = "OK" => Phase(t) = "woken"
         /\ ~InWait(t) /\ call[t].result = "ETIMEDOUT" => Phase(t) = "timedout"
         /\ ~InWait(t) /\ call[t].result = "none" => Phase(t) = "run"
BY DEF Phase

\* And after a step.
LEMMA PhaseIsNext ==
  ASSUME NEW t
  PROVE  /\ InWait(t)' /\ moved'[t] => Phase(t)' = "woken"
         /\ InWait(t)' /\ ~moved'[t] => Phase(t)' = "waiting"
         /\ ~InWait(t)' /\ call'[t].result = "OK" => Phase(t)' = "woken"
         /\ ~InWait(t)' /\ call'[t].result = "ETIMEDOUT" => Phase(t)' = "timedout"
         /\ ~InWait(t)' /\ call'[t].result = "none" => Phase(t)' = "run"
BY DEF Phase

\* A thread whose wait, call and place do not change is where it was.
LEMMA StillIs ==
  ASSUME NEW u, InWait(u)' <=> InWait(u), moved'[u] = moved[u], call'[u] = call[u]
  PROVE  Still(u)
BY DEF Still, Phase

\* A step that moves no thread and leaves the mutex alone is a stutter.
LEMMA Stutter ==
  ASSUME UNCHANGED <<type, owner, count>>, \A u \in Threads : Still(u)
  PROVE  UNCHANGED Monitor!vars
<1>1. phases' = phases /\ saveds' = saveds
  BY DEF phases, saveds, Still
<1> QED
  BY <1>1 DEF Monitor!vars, phases, saveds

\* Steps that the monitor does not see.
LEMMA HiddenSteps ==
  ASSUME IInv, IInv', type' = type, NEW t \in Threads,
         \/ SelfTimeOut(t) \/ LockWake(t) \/ LockAgain(t) \/ LockTimeOut(t)
         \/ \E how \in {"lock", "try", "zero", "time"} : LockSelf(t, how) \/ LockBusy(t, how)
         \/ UnlockNotify(t) \/ CondWake(t) \/ CondAgain(t) \/ CondNotify(t) \/ SignalNone(t)
  PROVE  UNCHANGED Monitor!vars
<1>1. UNCHANGED <<owner, count, moved>>
  BY DEF SelfTimeOut, LockWake, LockAgain, LockTimeOut, LockSelf, LockBusy, UnlockNotify,
         CondWake, CondAgain, CondNotify, SignalNone, mutex, cond
<1>2. ASSUME NEW u \in Threads
      PROVE  /\ InWait(u)' <=> InWait(u)
             /\ call'[u].result = call[u].result /\ call'[u].recurse = call[u].recurse
  <2>1. CASE LockTimeOut(t)
    BY <2>1, NoCallType DEF IInv, TypeOK, CallOK, LockTimeOut, Goto, InWait
  <2>2. ASSUME NEW how \in {"lock", "try", "zero", "time"}, LockBusy(t, how)
        PROVE  /\ InWait(u)' <=> InWait(u)
               /\ call'[u].result = call[u].result /\ call'[u].recurse = call[u].recurse
    <3>1. InWait(u)' <=> InWait(u)
      BY <2>2 DEF IInv, TypeOK, LockBusy, Goto, InWait
    <3>2. CASE u = t /\ call' = [call EXCEPT ![t].timed = (how = "time")]
      BY <3>1, <3>2 DEF IInv, TypeOK, Call
    <3>3. CASE u # t \/ call' = call
      BY <2>2, <3>1, <3>3 DEF IInv, TypeOK, LockBusy
    <3> QED
      BY <2>2, <3>2, <3>3 DEF LockBusy
  <2>3. CASE UnlockNotify(t)
    BY <2>3 DEF IInv, TypeOK, UnlockNotify, WokenByOne, Goto, InWait
  <2>4. CASE \/ SelfTimeOut(t) \/ LockWake(t) \/ LockAgain(t) \/ CondWake(t)
             \/ CondAgain(t) \/ CondNotify(t) \/ SignalNone(t)
             \/ \E how \in {"lock", "try", "zero", "time"} : LockSelf(t, how)
    BY <2>4 DEF IInv, TypeOK, SelfTimeOut, LockWake, LockAgain, LockSelf, CondWake, CondAgain,
                CondNotify, SignalNone, Goto, InWait
  <2> QED
    BY <2>1, <2>2, <2>3, <2>4
<1>3. ASSUME NEW u \in Threads PROVE Still(u)
  BY <1>1, <1>2 DEF Still, Phase
<1> QED
  BY <1>1, <1>3, Stutter

\* The phase and the saved depth of t change as given, those of others do not.
Moves(t, p, n) ==
  /\ Phase(t)' = p /\ call'[t].recurse = n
  /\ \A u \in Threads \ {t} : Still(u)

\* Pointwise changes, as changes of the abstract functions.
LEMMA MovesIs ==
  ASSUME NEW t \in Threads, NEW p, NEW n, Moves(t, p, n)
  PROVE  /\ phases' = [phases EXCEPT ![t] = p] /\ saveds' = [saveds EXCEPT ![t] = n]
         /\ phases[t] = Phase(t) /\ saveds[t] = call[t].recurse
BY DEF Moves, Still, phases, saveds

\* Taking the mutex back at the end of a wait, and taking it to begin with.
LEMMA TakeSteps ==
  ASSUME IInv, IInv', type' = type, NEW t \in Threads,
         LockFree(t) \/ LockRecursive(t) \/ LockResume(t) \/ Relock(t)
  PROVE  [Monitor!Next]_(Monitor!vars)
<1>1. ASSUME NEW u \in Threads
      PROVE  (InWait(u)' <=> InWait(u)) /\ moved'[u] = moved[u] /\ (u # t => call'[u] = call[u])
  BY DEF IInv, TypeOK, LockFree, LockRecursive, LockResume, Relock, Goto, InWait, cond
<1>2. \A u \in Threads \ {t} : Still(u)
  BY <1>1, StillIs
<1>3. ~InWait(t)
  BY DEF LockFree, LockRecursive, LockResume, Relock, InWait
<1>4. CASE UNCHANGED <<owner, count, call>>
  BY <1>1, <1>2, <1>4, StillIs, Stutter
<1>5. CASE call' = call /\ pc[t] = "run" /\ ~UNCHANGED <<owner, count>>
  <2>1. Phase(t) = "run" /\ Still(t)
    BY <1>1, <1>3, <1>5, PhaseIs, StillIs DEF IInv, CallOK
  <2>2. phases' = phases /\ saveds' = saveds /\ phases[t] = "run"
    BY <1>2, <2>1 DEF phases, saveds, Still
  <2>3. CASE LockFree(t)
    <3>1. Monitor!Acquire(t)
      BY <2>2, <2>3 DEF Monitor!Acquire, LockFree, Own, phases, saveds
    <3> QED
      BY <3>1 DEF Monitor!Next
  <2>4. CASE LockRecursive(t)
    <3>0. /\ owner = t /\ owner' = t /\ Recursive /\ count < CountMax /\ count' = count + 1
      BY <1>5, <2>4, SyncAssumption DEF LockRecursive, Own, mutex, IInv, TypeOK
    <3>1. Monitor!Deepen(t)
      BY <2>2, <3>0 DEF Monitor!Deepen, phases, saveds
    <3> QED
      BY <3>1 DEF Monitor!Next
  <2> QED
    BY <1>5, <2>3, <2>4 DEF LockResume, Relock
<1>6. CASE LockResume(t) /\ call[t].recurse = 0
  <2>1. call[t].result = "none" /\ owner = NoThread /\ owner' = t /\ count' = 1
        /\ call'[t] = NoCall
    BY <1>6 DEF LockResume, Own, IInv, TypeOK, CallOK
  <2>2. Phase(t) = "run" /\ Phase(t)' = "run" /\ call'[t].recurse = call[t].recurse
    BY <1>1, <1>3, <1>6, <2>1, PhaseIs, PhaseIsNext, NoCallType
  <2>3. phases' = phases /\ saveds' = saveds /\ phases[t] = "run"
    BY <1>2, <2>2 DEF phases, saveds, Still
  <2>4. Monitor!Acquire(t)
    BY <2>1, <2>3 DEF Monitor!Acquire, phases, saveds
  <2> QED
    BY <2>4 DEF Monitor!Next
<1>7. CASE /\ LockResume(t) \/ Relock(t)
           /\ call[t].recurse > 0 /\ owner = NoThread
  <2>1. /\ call[t].result \in {"OK", "ETIMEDOUT"} /\ owner' = t /\ count' = call[t].recurse
        /\ call'[t] = NoCall
    BY <1>7 DEF LockResume, Relock, Own, IInv, TypeOK, Call, CallOK
  <2>2. Phase(t) \in {"woken", "timedout"} /\ Moves(t, "run", 0)
    BY <1>1, <1>2, <1>3, <2>1, PhaseIs, PhaseIsNext, NoCallType DEF Moves
  <2>3. Monitor!Reacquire(t)
    BY <1>7, <2>1, <2>2, MovesIs DEF Monitor!Reacquire, phases, saveds
  <2> QED
    BY <2>3 DEF Monitor!Next
<1> QED
  <2>1. CASE LockFree(t) \/ LockRecursive(t)
    BY <1>4, <1>5, <2>1 DEF LockFree, LockRecursive
  <2>2. CASE LockResume(t)
    BY <1>6, <1>7, <2>2 DEF LockResume, IInv, TypeOK, Call
  <2>3. CASE Relock(t)
    BY <1>4, <1>7, <2>3 DEF Relock, IInv, CallOK, mutex
  <2> QED
    BY <2>1, <2>2, <2>3

\* Giving up the mutex, for good or for a wait.
LEMMA GiveSteps ==
  ASSUME IInv, IInv', type' = type, NEW t \in Threads,
         Unlock(t) \/ \E how \in {"wait", "time", "zero"} : CondWait(t, how)
  PROVE  [Monitor!Next]_(Monitor!vars)
<1>0. pc[t] = "run" /\ ~InWait(t) /\ call[t].result = "none" /\ Phase(t) = "run"
  BY PhaseIs DEF Unlock, CondWait, InWait, IInv, CallOK
<1>1. CASE Unlock(t)
  <2>1. ASSUME NEW u \in Threads PROVE Still(u)
    BY <1>0, <1>1, StillIs DEF Unlock, Goto, cond, InWait, IInv, TypeOK
  <2>2. phases' = phases /\ saveds' = saveds /\ phases[t] = "run"
    BY <1>0, <2>1 DEF phases, saveds, Still
  <2>3. CASE owner # t
    BY <1>1, <2>1, <2>3, Stutter DEF Unlock, mutex
  <2>4. CASE owner = t
    <3>1. count' = count - 1 /\ owner' = (IF count = 1 THEN NoThread ELSE t)
      BY <1>1, <2>4, SyncAssumption DEF Unlock, Own, IInv, TypeOK, MutexOK
    <3>2. Monitor!Release(t)
      BY <2>2, <2>4, <3>1 DEF Monitor!Release, phases, saveds
    <3> QED
      BY <3>2 DEF Monitor!Next
  <2> QED
    BY <2>3, <2>4
<1>2. ASSUME NEW how \in {"wait", "time", "zero"}, CondWait(t, how)
      PROVE  [Monitor!Next]_(Monitor!vars)
  <2>1. CASE owner # t
    <3>1. ASSUME NEW u \in Threads PROVE Still(u)
      BY <1>2, <2>1, StillIs DEF CondWait, cond, InWait
    <3> QED
      BY <1>2, <2>1, <3>1, Stutter DEF CondWait, mutex
  <2>2. CASE owner = t
    <3>1. /\ owner' = NoThread /\ count' = 0 /\ pc' = [pc EXCEPT ![t] = "cnotify"]
          /\ moved' = [moved EXCEPT ![t] = FALSE]
      BY <1>2, <2>2 DEF CondWait, Goto
    <3>2. call'[t].recurse = count /\ \A u \in Threads \ {t} : call'[u] = call[u]
      BY <1>2, <2>2 DEF CondWait, IInv, TypeOK
    <3>3. InWait(t)' /\ ~moved'[t]
      BY <3>1 DEF InWait, IInv, TypeOK
    <3>4. \A u \in Threads \ {t} : Still(u)
      BY <3>1, <3>2, StillIs DEF InWait, IInv, TypeOK
    <3>5. Moves(t, "waiting", count)
      BY <3>2, <3>3, <3>4, PhaseIsNext DEF Moves
    <3>6. Monitor!Wait(t)
      BY <1>0, <2>2, <3>1, <3>5, MovesIs DEF Monitor!Wait, phases, saveds
    <3> QED
      BY <3>6 DEF Monitor!Next
  <2> QED
    BY <2>1, <2>2
<1> QED
  BY <1>1, <1>2

\* Leaving the waiters by one's own decision.
LEMMA LeaveSteps ==
  ASSUME IInv, IInv', type' = type, NEW t \in Threads, CondSleep(t) \/ CondReady(t) \/ CondTimeOut(t)
  PROVE  [Monitor!Next]_(Monitor!vars)
<1>1. UNCHANGED <<owner, count, moved>> /\ InWait(t)
  BY DEF CondSleep, CondReady, CondTimeOut, Decide, mutex, InWait
<1>2. ASSUME NEW u \in Threads \ {t} PROVE Still(u)
  <2>1. call'[u] = call[u]
    BY DEF CondSleep, CondReady, CondTimeOut, Decide, IInv, TypeOK
  <2>2. CASE CondReady(t) \/ CondTimeOut(t)
    BY <1>1, <2>1, <2>2, StillIs DEF CondReady, CondTimeOut, Decide, Goto, InWait, IInv, TypeOK
  <2>3. CASE CondSleep(t)
    <3>1. \E where : WokenByOne(t, where)
      BY <2>3 DEF CondSleep
    <3>2. InWait(u)' <=> InWait(u)
      BY <3>1 DEF WokenByOne, Goto, InWait, IInv, TypeOK
    <3> QED
      BY <1>1, <2>1, <3>2, StillIs
  <2> QED
    BY <2>2, <2>3
<1>3. CASE CondReady(t)
  <2>1. moved[t] /\ ~InWait(t)' /\ call'[t].result = "OK" /\ call'[t].recurse = call[t].recurse
    BY <1>3 DEF CondReady, Decide, Goto, InWait, IInv, TypeOK, Call
  <2>2. Still(t)
    BY <1>1, <2>1, PhaseIs, PhaseIsNext DEF Still
  <2> QED
    BY <1>1, <1>2, <2>2, Stutter
<1>4. CASE CondTimeOut(t) \/ (CondSleep(t) /\ call[t].result # "none")
  <2>1. ~moved[t]
    BY <1>4 DEF CondTimeOut, CondSleep, IInv, CallOK
  <2>2. call'[t].result = "ETIMEDOUT" /\ call'[t].recurse = call[t].recurse
    BY <1>4 DEF CondTimeOut, CondSleep, Decide, IInv, TypeOK, Call, CallOK
  <2>3. ~InWait(t)'
    <3>1. CASE CondTimeOut(t)
      BY <3>1 DEF CondTimeOut, Decide, Goto, InWait, IInv, TypeOK
    <3>2. CASE CondSleep(t) /\ call[t].result # "none"
      <4>1. WokenByOne(t, "relock") /\ pc[t] = "cnotify"
        BY <3>2 DEF CondSleep
      <4> QED
        BY <4>1 DEF WokenByOne, Goto, InWait, IInv, TypeOK
    <3> QED
      BY <1>4, <3>1, <3>2
  <2>4. Phase(t) = "waiting" /\ Moves(t, "timedout", call[t].recurse)
    BY <1>1, <1>2, <2>1, <2>2, <2>3, PhaseIs, PhaseIsNext DEF Moves
  <2>5. saveds' = saveds
    BY <2>4 DEF Moves, Still, saveds
  <2>6. Monitor!GiveUp(t)
    BY <1>1, <2>4, <2>5, MovesIs DEF Monitor!GiveUp, phases, saveds
  <2> QED
    BY <2>6 DEF Monitor!Next
<1>5. CASE CondSleep(t) /\ call[t].result = "none"
  <2>1. WokenByOne(t, "cwait") /\ pc[t] = "cnotify" /\ call' = call
    BY <1>5 DEF CondSleep
  <2>2. InWait(t)'
    BY <2>1 DEF WokenByOne, Goto, InWait, IInv, TypeOK
  <2>3. Still(t)
    BY <1>1, <2>1, <2>2, StillIs
  <2> QED
    BY <1>1, <1>2, <2>3, Stutter
<1> QED
  BY <1>3, <1>4, <1>5

\* Freeing one waiter or all of them.
LEMMA FreeingSteps ==
  ASSUME IInv, IInv', type' = type, NEW t \in Threads,
         (\E u \in Threads : Free(t, u)) \/ Broadcast(t)
  PROVE  [Monitor!Next]_(Monitor!vars)
<1>1. UNCHANGED <<owner, count, call>> /\ \A v \in Threads : InWait(v)' <=> InWait(v)
  BY DEF Free, Broadcast, Goto, mutex, InWait, IInv, TypeOK
<1>2. ASSUME NEW u \in Threads, Free(t, u) PROVE Monitor!Signal(u)
  <2>1. InWait(u) /\ ~moved[u] /\ moved' = [moved EXCEPT ![u] = TRUE]
    BY <1>2, InWaiters DEF Free, IInv, TypeOK, QueueOK
  <2>2. \A v \in Threads \ {u} : Still(v)
    BY <1>1, <2>1, StillIs DEF IInv, TypeOK
  <2>3. Phase(u) = "waiting" /\ Moves(u, "woken", call[u].recurse)
    BY <1>1, <2>1, <2>2, PhaseIs, PhaseIsNext DEF Moves, IInv, TypeOK
  <2>4. saveds' = saveds
    BY <1>1 DEF saveds
  <2> QED
    BY <1>1, <2>3, <2>4, MovesIs DEF Monitor!Signal, phases, saveds
<1>3. CASE Broadcast(t)
  <2>1. ASSUME NEW u \in Threads
        PROVE  Phase(u)' = IF Phase(u) = "waiting" THEN "woken" ELSE Phase(u)
    <3>1. moved'[u] <=> moved[u] \/ InWait(u)
      BY <1>3 DEF Broadcast, InWait, IInv, TypeOK
    <3>2. CASE InWait(u)
      BY <1>1, <3>1, <3>2, PhaseIs, PhaseIsNext
    <3>3. CASE ~InWait(u)
      <4>1. call[u].result \in {"none", "OK", "ETIMEDOUT"}
        BY DEF IInv, TypeOK, Call
      <4> QED
        BY <1>1, <3>3, <4>1, PhaseIs, PhaseIsNext
    <3> QED
      BY <3>2, <3>3
  <2>2. /\ saveds' = saveds
        /\ phases' = [u \in Threads |-> IF phases[u] = "waiting" THEN "woken" ELSE phases[u]]
    BY <1>1, <2>1 DEF phases, saveds
  <2>3. Monitor!Broadcast
    BY <1>1, <2>2 DEF Monitor!Broadcast, phases, saveds
  <2> QED
    BY <2>3 DEF Monitor!Next
<1> QED
  BY <1>2, <1>3 DEF Monitor!Next

\* The mutex and the condition variable of pthread.cpp implement the monitor.
THEOREM Refinement == Spec => ImplementsMonitor
<1>1. Init => Monitor!Init
  BY PhaseIs DEF Init, Monitor!Init, InWait, NoCall
<1>2. IInv /\ IInv' /\ [Next]_vars => [Monitor!Next]_(Monitor!vars)
  <2> SUFFICES ASSUME IInv, IInv', [Next]_vars PROVE [Monitor!Next]_(Monitor!vars)
    OBVIOUS
  <2>1. CASE UNCHANGED vars
    BY <2>1, StillIs, Stutter DEF vars, InWait
  <2>2. ASSUME NEW t \in Threads, type' = type, Signal(t) PROVE [Monitor!Next]_(Monitor!vars)
    <3>1. Head(waiters) \in Threads
      BY <2>2 DEF Signal, IInv, TypeOK
    <3> QED
      BY <2>2, <3>1, FreeingSteps DEF Signal
  <2>3. ASSUME NEW t \in Threads, NEW u \in Threads, type' = type, SignalTo(t, u)
        PROVE  [Monitor!Next]_(Monitor!vars)
    BY <2>3, FreeingSteps DEF SignalTo
  <2> QED
    BY <2>1, <2>2, <2>3, TypeKept, HiddenSteps, TakeSteps, GiveSteps, LeaveSteps, FreeingSteps
       DEF Next
<1> QED
  BY <1>1, <1>2, Invariance, PTL DEF Spec, ImplementsMonitor, Monitor!Spec

\* A freed waiter reports success and only a freed one does.
THEOREM SignalsReported == Spec => SignalIsReported
<1> DEFINE A == \A t \in Threads :
       call[t].result = "none" /\ call'[t].result # "none" /\ pc[t] = "cawake"
         => (call'[t].result = "OK" <=> t \notin ToSet(waiters))
<1>1. IInv /\ [Next]_vars => [A]_vars
  <2> SUFFICES ASSUME IInv, Next, NEW t \in Threads,
                      call'[t].result # call[t].result, pc[t] = "cawake"
               PROVE  call'[t].result = "OK" <=> t \notin ToSet(waiters)
    BY DEF vars
  <2>1. t \in ToSet(waiters) <=> ~moved[t]
    BY InWaiters DEF IInv, TypeOK, QueueOK, InWait
  <2>2. CondReady(t) \/ CondTimeOut(t)
    BY DEF Next, LockFree, LockRecursive, LockResume, LockAgain, LockSelf, LockBusy, SelfTimeOut,
           LockWake, LockTimeOut, Unlock, UnlockNotify, CondWait, CondSleep, CondWake, CondReady,
           CondTimeOut, Decide, CondAgain, Relock, SignalNone, Signal, Free, Broadcast, CondNotify,
           SignalTo, IInv, TypeOK, Call
  <2>3. CASE CondReady(t)
    BY <2>1, <2>3 DEF CondReady, Decide, IInv, TypeOK, Call
  <2>4. CASE CondTimeOut(t)
    BY <2>1, <2>4 DEF CondTimeOut, Decide, IInv, TypeOK, Call
  <2> QED
    BY <2>2, <2>3, <2>4
<1> QED
  BY <1>1, Invariance, PTL DEF Spec, SignalIsReported
=============================================================================
