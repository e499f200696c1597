----------------------- MODULE KernelEventFlagProofs ------------------------
(***************************************************************************)
(* Proofs about the kernel event flag, for any set of threads and any bit  *)
(* patterns.                                                               *)
(***************************************************************************)
EXTENDS KernelEventFlag, TLAPS

\* Who holds the flag in which status.  The thread that destroys it may have
\* to wait for a Cancel that was under way, and for no other after it.
LifeOK ==
  /\ registered => status \in {"Set", "Canceled"} /\ refs >= 1
  /\ status = "None" => Waiting = {}
  /\ \A t \in Threads :
       /\ pc[t] = "canceling" => status = "Canceled"
       /\ pc[t] = "closing" => status \in {"Set", "Canceled"} /\ ~registered
       /\ pc[t] = "deleting" => status = "Deleted" /\ ~registered
  /\ \A t, u \in Threads :
       /\ pc[t] = "canceling" /\ pc[u] = "canceling" => t = u
       /\ pc[t] \in {"closing", "deleting"} /\ pc[u] \in {"closing", "deleting"}
            => t = u
  /\ status = "Canceled" => \E t \in Threads : pc[t] = "canceling"

\* A waiter that was interrupted has not looked yet, and the status it will
\* find is still that of the interruption.
DueOK ==
  \A t \in Threads :
    /\ due[t] = "ECANCELED" => pc[t] = "awake" /\ status = "Canceled"
    /\ due[t] = "EACCES" => pc[t] = "awake" /\ status = "Deleted"

\* The inductive invariant.
IInv == TypeOK /\ LifeOK /\ DueOK /\ NoLostWakeup

-----------------------------------------------------------------------------
(* Facts about the helpers                                                 *)

\* Taking bits away satisfies no wait that was not satisfied before.
LEMMA SatisfiedMonotone ==
  ASSUME NEW r, NEW b, NEW c, c \subseteq b, Satisfied(r, c)
  PROVE  Satisfied(r, b)
BY DEF Satisfied

\* A wait that ends takes bits away and adds none.
LEMMA ClearedSubset ==
  ASSUME NEW r, NEW b
  PROVE  Cleared(r, b) \subseteq b
<1>1. CASE r.clear = "All"
  BY <1>1 DEF Cleared
<1>2. CASE r.clear = "Bits"
  BY <1>2 DEF Cleared
<1>3. CASE r.clear # "All" /\ r.clear # "Bits"
  BY <1>3 DEF Cleared
<1> QED BY <1>1, <1>2, <1>3

\* Every pattern a call may pass consists of bits of the flag.
LEMMA PatternBits ==
  ASSUME NEW p \in InitPatterns \cup WaitPatterns \cup SetPatterns \cup CancelPatterns
  PROVE  p \subseteq Bits
BY DEF Bits

\* A step that adds no bit and puts nobody to sleep loses no wakeup.
LEMMA StillAsleep ==
  ASSUME NoLostWakeup, bits' \subseteq bits,
         \A t \in Threads : pc'[t] = "asleep" => pc[t] = "asleep" /\ req'[t] = req[t]
  PROVE  NoLostWakeup'
BY SatisfiedMonotone DEF NoLostWakeup, Asleep

-----------------------------------------------------------------------------
(* The inductive invariant                                                 *)

LEMMA InitInv == Init => IInv
<1> SUFFICES ASSUME Init PROVE IInv
  OBVIOUS
<1> USE DEF Init
<1>1. TypeOK
  <2>1. registered \in BOOLEAN /\ single \in BOOLEAN /\ ret \in Codes
    BY DEF Codes
  <2>2. refs \in 0..MaxRefs
    BY EventFlagAssumption
  <2>3. /\ pc \in [Threads -> {"run", "asleep", "awake",
                               "canceling", "closing", "deleting"}]
        /\ req \in [Threads -> Request \cup {NoRequest}]
        /\ due \in [Threads -> {"none", "ECANCELED", "EACCES"}]
    OBVIOUS
  <2> QED BY <2>1, <2>2, <2>3 DEF TypeOK
<1>2. LifeOK /\ DueOK /\ NoLostWakeup
  BY DEF LifeOK, DueOK, NoLostWakeup, Asleep, Waiting
<1> QED BY <1>1, <1>2 DEF IInv

\* The calls of the registry, up to the destructor.
LEMMA RegistrySteps ==
  ASSUME IInv, NEW t \in Threads,
         \/ \E one \in BOOLEAN, b \in InitPatterns : Create(t, one, b)
         \/ Open(t) \/ Close(t) \/ Delete(t) \/ NotFound(t)
  PROVE  IInv'
<1> USE DEF IInv, object, waits, Goto
<1>m. MaxRefs \in Nat /\ refs \in Nat
  BY EventFlagAssumption DEF TypeOK
<1>1. ASSUME NEW one \in BOOLEAN, NEW b \in InitPatterns, Create(t, one, b)
      PROVE  IInv'
  <2>1. b \subseteq Bits
    BY PatternBits
  <2>2. TypeOK'
    BY <1>1, <2>1, EventFlagAssumption DEF Create, TypeOK, Codes
  <2>3. LifeOK' /\ DueOK'
    BY <1>1 DEF Create, LifeOK, DueOK, TypeOK, Waiting
  <2>4. NoLostWakeup'
    BY <1>1 DEF Create, LifeOK, NoLostWakeup, Waiting, Asleep
  <2> QED BY <2>2, <2>3, <2>4
<1>2. CASE Open(t)
  <2>1. TypeOK'
    BY <1>2, <1>m DEF Open, TypeOK, Codes
  <2>2. LifeOK' /\ DueOK'
    BY <1>2, <1>m DEF Open, LifeOK, DueOK, Waiting
  <2>3. NoLostWakeup'
    BY <1>2, StillAsleep DEF Open
  <2> QED BY <2>1, <2>2, <2>3
<1>3. CASE Close(t)
  <2>p. /\ \A u \in Threads : u # t => pc'[u] = pc[u]
        /\ pc[t] = "run" /\ pc'[t] = IF refs = 1 THEN "closing" ELSE "run"
        /\ pc' \in [Threads -> {"run", "asleep", "awake",
                                "canceling", "closing", "deleting"}]
    BY <1>3 DEF Close, TypeOK
  <2>r. refs >= 1 /\ registered
    BY <1>3 DEF Close, LifeOK
  <2>1. TypeOK'
    BY <1>3, <1>m, <2>p, <2>r DEF Close, TypeOK, Codes
  <2>w. Waiting' = Waiting
    BY <2>p DEF Waiting
  <2>2. CASE refs = 1
    <3>0. registered' = (refs > 1) /\ ~(refs > 1)
      BY <1>3, <2>2 DEF Close
    <3>1. status \in {"Set", "Canceled"} /\ status' = status
      BY <1>3, <2>2, <2>r DEF Close, LifeOK
    <3>2. ~registered'
      BY <3>0, Zenon
    <3> QED BY <2>1, <2>2, <2>p, <2>r, <2>w, <3>1, <3>2, <1>3, StillAsleep
            DEF Close, LifeOK, DueOK
  <2>3. CASE refs # 1
    <3>0. registered' = (refs > 1) /\ refs > 1 /\ refs' >= 1
      BY <1>3, <1>m, <2>3, <2>r DEF Close
    <3>1. registered'
      BY <3>0, Zenon
    <3>2. pc' = pc /\ status' = status
      BY <1>3, <2>3, <2>p DEF Close, TypeOK
    <3> QED BY <2>1, <2>r, <2>w, <3>0, <3>1, <3>2, <1>3, StillAsleep
            DEF Close, LifeOK, DueOK
  <2> QED BY <2>2, <2>3
<1>4. CASE Delete(t)
  <2>p. /\ \A u \in Threads : u # t => pc'[u] = pc[u]
        /\ pc[t] = "run" /\ pc'[t] = "closing"
        /\ pc' \in [Threads -> {"run", "asleep", "awake",
                                "canceling", "closing", "deleting"}]
    BY <1>4 DEF Delete, TypeOK
  <2>1. TypeOK'
    BY <1>4, <2>p DEF Delete, TypeOK
  <2>w. Waiting' = Waiting
    BY <2>p DEF Waiting
  <2>2. /\ status \in {"Set", "Canceled"} /\ status' = status
        /\ ~registered' /\ registered
    BY <1>4 DEF Delete, LifeOK
  <2> QED BY <1>4, <2>1, <2>2, <2>p, <2>w, StillAsleep DEF Delete, LifeOK, DueOK
<1>5. CASE NotFound(t)
  BY <1>5, StillAsleep DEF NotFound, TypeOK, Codes, LifeOK, DueOK, Waiting
<1> QED BY <1>1, <1>2, <1>3, <1>4, <1>5

\* The destructor: it interrupts every waiter and ends when all have left.
LEMMA DestroySteps ==
  ASSUME IInv, NEW t \in Threads, Destroy(t) \/ DestroyEnd(t)
  PROVE  IInv'
<1> USE DEF IInv, object
<1>1. CASE Destroy(t)
  <2>1. /\ pc[t] = "closing" /\ status = "Set" /\ status' = "Deleted"
        /\ bits' = bits /\ req' = req /\ registered' = registered
    BY <1>1 DEF Destroy
  <2>2. \A u \in Threads :
          /\ pc'[u] = IF u = t THEN "deleting"
                      ELSE IF pc[u] = "asleep" THEN "awake" ELSE pc[u]
          /\ due'[u] = IF pc[u] \in {"asleep", "awake"} THEN "EACCES" ELSE due[u]
    BY <1>1 DEF Destroy, Asleep, Waiting
  <2>3. TypeOK'
    <3>1. pc' \in [Threads -> {"run", "asleep", "awake",
                               "canceling", "closing", "deleting"}]
      BY <1>1 DEF Destroy, TypeOK
    <3>2. due' \in [Threads -> {"none", "ECANCELED", "EACCES"}]
      BY <1>1 DEF Destroy, TypeOK
    <3> QED BY <1>1, <3>1, <3>2 DEF Destroy, TypeOK
  <2>4. LifeOK'
    BY <2>1, <2>2 DEF LifeOK, TypeOK
  <2>5. DueOK'
    BY <2>1, <2>2 DEF DueOK, TypeOK
  <2>6. NoLostWakeup'
    BY <2>1, <2>2, StillAsleep
  <2> QED BY <2>3, <2>4, <2>5, <2>6
<1>2. CASE DestroyEnd(t)
  <2>1. /\ pc[t] = "deleting" /\ Waiting = {} /\ status' = "None"
        /\ bits' = {} /\ req' = req /\ due' = due /\ registered' = registered
        /\ pc' = [pc EXCEPT ![t] = "run"]
    BY <1>2 DEF DestroyEnd, Goto, waits
  <2>2. /\ \A u \in Threads : u # t => pc'[u] = pc[u]
        /\ pc'[t] = "run"
        /\ \A u \in Threads : pc[u] \notin {"asleep", "awake"}
    BY <2>1 DEF TypeOK, Waiting
  <2>3. ~registered /\ status = "Deleted"
    BY <2>1 DEF LifeOK
  <2>4. TypeOK'
    BY <1>2, <2>1, EventFlagAssumption DEF DestroyEnd, TypeOK, Codes
  <2>5. LifeOK' /\ DueOK'
    BY <2>1, <2>2, <2>3 DEF LifeOK, DueOK, Waiting, TypeOK
  <2>6. NoLostWakeup'
    BY <2>1, <2>2, StillAsleep
  <2> QED BY <2>4, <2>5, <2>6
<1> QED BY <1>1, <1>2

\* Wait: a thread sleeps, leaves its sleep and looks.
LEMMA WaitSteps ==
  ASSUME IInv, NEW t \in Threads,
         \/ \E r \in Request, how \in {"poll", "zero", "time"} : WaitReturns(t, r, how)
         \/ \E r \in Request : WaitSleeps(t, r)
         \/ Wake(t) \/ Again(t)
  PROVE  IInv'
<1> USE DEF IInv, object, waits, Goto
<1>1. ASSUME NEW r \in Request, NEW how \in {"poll", "zero", "time"},
             WaitReturns(t, r, how)
      PROVE  IInv'
  <2>1. bits' \subseteq bits /\ ret' \in Codes /\ pc' = pc /\ status' = status
        /\ req' = req /\ due' = due /\ UNCHANGED object
    BY <1>1, ClearedSubset DEF WaitReturns, Codes
  <2>2. TypeOK'
    BY <2>1 DEF TypeOK
  <2>3. LifeOK' /\ DueOK'
    BY <2>1 DEF LifeOK, DueOK, Waiting
  <2> QED BY <2>1, <2>2, <2>3, StillAsleep
<1>2. ASSUME NEW r \in Request, WaitSleeps(t, r) PROVE IInv'
  <2>1. /\ \A u \in Threads : u # t => pc'[u] = pc[u] /\ req'[u] = req[u]
        /\ pc[t] = "run" /\ pc'[t] = "asleep" /\ req'[t] = r
        /\ ~Satisfied(r, bits) /\ bits' = bits /\ status' = status /\ status # "None"
        /\ due' = due /\ UNCHANGED object
    BY <1>2 DEF WaitSleeps, TypeOK
  <2>2. TypeOK'
    BY <1>2 DEF WaitSleeps, TypeOK
  <2>3. LifeOK' /\ DueOK'
    BY <2>1 DEF LifeOK, DueOK
  <2>4. NoLostWakeup'
    BY <2>1 DEF NoLostWakeup, Asleep
  <2> QED BY <2>2, <2>3, <2>4
<1>3. CASE Wake(t)
  <2>1. /\ \A u \in Threads : u # t => pc'[u] = pc[u]
        /\ pc[t] = "asleep" /\ pc'[t] = "awake"
        /\ bits' = bits /\ status' = status /\ due' = due /\ req' = req /\ UNCHANGED object
    BY <1>3 DEF Wake, TypeOK
  <2>2. TypeOK'
    BY <1>3 DEF Wake, TypeOK
  <2>3. LifeOK' /\ DueOK'
    BY <2>1 DEF LifeOK, DueOK, Waiting
  <2> QED BY <2>1, <2>2, <2>3, StillAsleep
<1>4. CASE Again(t)
  <2>1. /\ \A u \in Threads : u # t => pc'[u] = pc[u]
        /\ pc[t] = "awake" /\ pc'[t] = "asleep" /\ status = "Set"
        /\ ~Satisfied(req[t], bits)
        /\ bits' = bits /\ status' = status /\ due' = due /\ req' = req /\ UNCHANGED object
    BY <1>4 DEF Again, TypeOK
  <2>2. TypeOK'
    BY <1>4 DEF Again, TypeOK
  <2>3. LifeOK' /\ DueOK'
    BY <2>1 DEF LifeOK, DueOK, TypeOK
  <2>4. NoLostWakeup'
    BY <2>1 DEF NoLostWakeup, Asleep
  <2> QED BY <2>2, <2>3, <2>4
<1> QED BY <1>1, <1>2, <1>3, <1>4

\* A thread comes back from its Wait.
LEMMA ReturnSteps ==
  ASSUME IInv, NEW t \in Threads, NEW c \in Codes, Return(t, c), bits' \subseteq bits
  PROVE  IInv'
<1> USE DEF IInv, object
<1>1. /\ \A u \in Threads : u # t => /\ pc'[u] = pc[u] /\ req'[u] = req[u]
                                     /\ due'[u] = due[u]
      /\ pc[t] = "awake" /\ pc'[t] = "run" /\ due'[t] = "none"
      /\ status' = status /\ UNCHANGED object
  BY DEF Return, Goto, TypeOK
<1>2. TypeOK'
  BY DEF Return, Goto, TypeOK
<1>3. LifeOK' /\ DueOK'
  BY <1>1 DEF LifeOK, DueOK, Waiting
<1>4. NoLostWakeup'
  BY <1>1, StillAsleep
<1> QED BY <1>2, <1>3, <1>4

\* Set, Clear and Cancel.
LEMMA UpdateSteps ==
  ASSUME IInv, NEW t \in Threads,
         \/ \E b \in SetPatterns : SetFlag(t, b)
         \/ \E b \in KeepPatterns : ClearFlag(t, b)
         \/ \E b \in CancelPatterns : CancelBegin(t, b)
         \/ CancelEnd(t)
  PROVE  IInv'
<1> USE DEF IInv, object
<1>1. ASSUME NEW b \in SetPatterns, SetFlag(t, b) PROVE IInv'
  <2>1. /\ status = "Set" /\ status' = "Set" /\ registered
        /\ req' = req /\ due' = due /\ UNCHANGED object
    BY <1>1 DEF SetFlag, waits
  <2>2. \A u \in Threads : pc'[u] = IF pc[u] = "asleep" THEN "awake" ELSE pc[u]
    BY <1>1 DEF SetFlag, Asleep
  <2>3. TypeOK'
    <3>1. pc' \in [Threads -> {"run", "asleep", "awake",
                               "canceling", "closing", "deleting"}]
      BY <1>1 DEF SetFlag, TypeOK
    <3>2. bits' \subseteq Bits
      BY <1>1, PatternBits DEF SetFlag, TypeOK
    <3> QED BY <1>1, <3>1, <3>2 DEF SetFlag, TypeOK, waits, Codes
  <2>4. LifeOK' /\ DueOK'
    BY <2>1, <2>2 DEF LifeOK, DueOK, Waiting
  <2>5. NoLostWakeup'
    BY <2>2 DEF NoLostWakeup, Asleep
  <2> QED BY <2>3, <2>4, <2>5
<1>2. ASSUME NEW b \in KeepPatterns, ClearFlag(t, b) PROVE IInv'
  BY <1>2, StillAsleep DEF ClearFlag, waits, TypeOK, Codes, LifeOK, DueOK, Waiting
<1>3. ASSUME NEW b \in CancelPatterns, CancelBegin(t, b) PROVE IInv'
  <2>1. /\ pc[t] = "run" /\ status = "Set" /\ status' = "Canceled" /\ registered
        /\ req' = req /\ bits' = b /\ UNCHANGED object
    BY <1>3 DEF CancelBegin
  <2>2. \A u \in Threads :
          /\ pc'[u] = IF u = t THEN "canceling"
                      ELSE IF pc[u] = "asleep" THEN "awake" ELSE pc[u]
          /\ due'[u] = IF pc[u] \in {"asleep", "awake"} THEN "ECANCELED" ELSE due[u]
    BY <1>3 DEF CancelBegin, Asleep, Waiting
  <2>3. TypeOK'
    <3>1. pc' \in [Threads -> {"run", "asleep", "awake",
                               "canceling", "closing", "deleting"}]
      BY <1>3 DEF CancelBegin, TypeOK
    <3>2. due' \in [Threads -> {"none", "ECANCELED", "EACCES"}]
      BY <1>3 DEF CancelBegin, TypeOK
    <3>3. bits' \subseteq Bits
      BY <1>3, PatternBits DEF CancelBegin
    <3> QED BY <1>3, <3>1, <3>2, <3>3 DEF CancelBegin, TypeOK
  <2>4. LifeOK'
    BY <2>1, <2>2 DEF LifeOK, TypeOK
  <2>5. DueOK'
    BY <2>1, <2>2 DEF DueOK, TypeOK
  <2>6. NoLostWakeup'
    BY <2>2 DEF NoLostWakeup, Asleep
  <2> QED BY <2>3, <2>4, <2>5, <2>6
<1>4. CASE CancelEnd(t)
  <2>1. /\ pc[t] = "canceling" /\ Waiting = {} /\ status' = "Set"
        /\ bits' = bits /\ req' = req /\ due' = due /\ UNCHANGED object
        /\ pc' = [pc EXCEPT ![t] = "run"]
    BY <1>4 DEF CancelEnd, Goto, waits
  <2>2. /\ \A u \in Threads : u # t => pc'[u] = pc[u]
        /\ pc'[t] = "run"
        /\ \A u \in Threads : pc[u] \notin {"asleep", "awake"}
    BY <2>1 DEF TypeOK, Waiting
  <2>3. status = "Canceled"
    BY <2>1 DEF LifeOK
  <2>4. TypeOK'
    BY <1>4, <2>1 DEF CancelEnd, TypeOK, Codes
  <2>5. LifeOK' /\ DueOK'
    BY <2>1, <2>2, <2>3 DEF LifeOK, DueOK, Waiting, TypeOK
  <2>6. NoLostWakeup'
    BY <2>1, <2>2, StillAsleep
  <2> QED BY <2>4, <2>5, <2>6
<1> QED BY <1>1, <1>2, <1>3, <1>4

LEMMA NextInv == IInv /\ [Next]_vars => IInv'
<1> SUFFICES ASSUME IInv, [Next]_vars PROVE IInv'
  OBVIOUS
<1>1. ASSUME NEW t \in Threads, Interrupted(t) PROVE IInv'
  BY <1>1, ReturnSteps DEF Interrupted, Codes
<1>2. ASSUME NEW t \in Threads, Succeed(t) PROVE IInv'
  BY <1>2, ReturnSteps, ClearedSubset DEF Succeed, Codes
<1>3. ASSUME NEW t \in Threads, TimeOut(t) PROVE IInv'
  BY <1>3, ReturnSteps DEF TimeOut, Codes
<1>4. CASE UNCHANGED vars
  BY <1>4 DEF vars, IInv, TypeOK, LifeOK, DueOK, NoLostWakeup, Asleep, Waiting
<1> QED
  BY <1>1, <1>2, <1>3, <1>4, RegistrySteps, DestroySteps, WaitSteps, UpdateSteps
  DEF Next

-----------------------------------------------------------------------------
(* Results                                                                 *)

\* The inductive invariant holds of every behaviour of the event flag.
THEOREM Invariance == Spec => []IInv
BY InitInv, NextInv, PTL DEF Spec

\* The variables keep their types, whatever calls race on the flag.
THEOREM TypeCorrect == Spec => []TypeOK
<1>1. IInv => TypeOK
  BY DEF IInv
<1> QED BY <1>1, Invariance, PTL

\* No wakeup is lost: no thread sleeps in Wait beside the bits it waits for,
\* however Set, Clear, Cancel and other waiters change m_bits.
THEOREM NoWakeupIsLost == Spec => []NoLostWakeup
<1>1. IInv => NoLostWakeup
  BY DEF IInv
<1> QED BY <1>1, Invariance, PTL

\* Who waits when Cancel or the destructor begins comes back with its code.
THEOREM InterruptionIsReported == Spec => InterruptionReported
<1>1. ASSUME IInv, [Next]_vars, NEW t \in Threads, due[t] # "none", pc'[t] = "run"
      PROVE  ret' = due[t]
  <2>1. /\ pc[t] = "awake"
        /\ \/ due[t] = "ECANCELED" /\ status = "Canceled"
           \/ due[t] = "EACCES" /\ status = "Deleted"
    BY <1>1 DEF IInv, DueOK, TypeOK
  <2>2. pc'[t] # pc[t]
    BY <1>1, <2>1
  <2>3. PICK u \in Threads :
          \/ \E one \in BOOLEAN, b \in InitPatterns : Create(u, one, b)
          \/ Open(u) \/ Close(u) \/ Delete(u) \/ NotFound(u)
          \/ Destroy(u) \/ DestroyEnd(u)
          \/ \E r \in Request, how \in {"poll", "zero", "time"} : WaitReturns(u, r, how)
          \/ \E r \in Request : WaitSleeps(u, r)
          \/ Wake(u) \/ Interrupted(u) \/ Succeed(u) \/ TimeOut(u) \/ Again(u)
          \/ \E b \in SetPatterns : SetFlag(u, b)
          \/ \E b \in KeepPatterns : ClearFlag(u, b)
          \/ \E b \in CancelPatterns : CancelBegin(u, b)
          \/ CancelEnd(u)
    BY <1>1, <2>2 DEF Next, vars
  <2>4. CASE u = t
    <3>1. status \notin {"None", "Set"} /\ pc[u] = "awake"
      BY <2>1, <2>4
    <3>2. Interrupted(u)
      BY <2>3, <3>1
      DEF Create, Open, Close, Delete, NotFound, Destroy, DestroyEnd, WaitReturns,
          WaitSleeps, Wake, Succeed, TimeOut, Again, SetFlag, ClearFlag, CancelBegin,
          CancelEnd
    <3> QED BY <2>1, <2>4, <3>2 DEF Interrupted, Return
  <2>5. CASE u # t
    <3>1. pc \in [Threads -> {"run", "asleep", "awake",
                              "canceling", "closing", "deleting"}]
      BY <1>1 DEF IInv, TypeOK
    <3>2. pc'[t] = pc[t]
      BY <2>1, <2>3, <2>5, <3>1
      DEF Create, Open, Close, Delete, NotFound, Destroy, DestroyEnd, WaitReturns,
          WaitSleeps, Wake, Interrupted, Succeed, TimeOut, Again, Return, Goto, SetFlag,
          ClearFlag, CancelBegin, CancelEnd, Asleep
    <3> QED BY <2>2, <3>2
  <2> QED BY <2>4, <2>5
<1>2. IInv /\ [Next]_vars =>
        [\A t \in Threads : due[t] # "none" /\ pc'[t] = "run" => ret' = due[t]]_vars
  BY <1>1
<1> QED BY <1>2, Invariance, PTL DEF Spec, InterruptionReported
=============================================================================
