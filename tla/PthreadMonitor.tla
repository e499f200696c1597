--------------------------- MODULE PthreadMonitor ---------------------------
(***************************************************************************)
(* What a guest may rely on when it uses one pthread mutex with one        *)
(* condition variable: the abstract specification that PthreadSync, the    *)
(* model of kernel/pthread.cpp, implements.                                *)
(*                                                                         *)
(* Giving up the mutex and joining the waiters is one step; a signal frees *)
(* one waiter and a broadcast all of them; a freed waiter comes back as    *)
(* the owner of the mutex, as deep as it was.                              *)
(***************************************************************************)
EXTENDS Integers

CONSTANTS
  Threads,        \* guest threads
  NoThread,       \* the owner of a free mutex
  CountMax        \* how often its owner may lock it

VARIABLES
  type,           \* 2 for a recursive mutex
  owner,          \* the thread that owns the mutex
  depth,          \* how often it has locked it
  phase,          \* "run", or where a thread is in its wait
  saved           \* the depth a waiting thread gave up

vars == <<type, owner, depth, phase, saved>>

TypeOK ==
  /\ type \in {1, 2}
  /\ owner \in Threads \cup {NoThread}
  /\ depth \in 0..CountMax
  /\ phase \in [Threads -> {"run", "waiting", "woken", "timedout"}]
  /\ saved \in [Threads -> 0..CountMax]

Init ==
  /\ type \in {1, 2}
  /\ owner = NoThread /\ depth = 0
  /\ phase = [t \in Threads |-> "run"]
  /\ saved = [t \in Threads |-> 0]

Acquire(t) ==
  /\ phase[t] = "run" /\ owner = NoThread
  /\ owner' = t /\ depth' = 1
  /\ UNCHANGED <<phase, saved>>

Deepen(t) ==
  /\ phase[t] = "run" /\ owner = t /\ type = 2 /\ depth < CountMax
  /\ depth' = depth + 1
  /\ UNCHANGED <<owner, phase, saved>>

Release(t) ==
  /\ phase[t] = "run" /\ owner = t
  /\ depth' = depth - 1
  /\ owner' = IF depth = 1 THEN NoThread ELSE t
  /\ UNCHANGED <<phase, saved>>

Wait(t) ==
  /\ phase[t] = "run" /\ owner = t
  /\ owner' = NoThread /\ depth' = 0
  /\ phase' = [phase EXCEPT ![t] = "waiting"]
  /\ saved' = [saved EXCEPT ![t] = depth]

Signal(u) ==
  /\ phase[u] = "waiting"
  /\ phase' = [phase EXCEPT ![u] = "woken"]
  /\ UNCHANGED <<owner, depth, saved>>

Broadcast ==
  /\ phase' = [u \in Threads |-> IF phase[u] = "waiting" THEN "woken" ELSE phase[u]]
  /\ UNCHANGED <<owner, depth, saved>>

GiveUp(t) ==
  /\ phase[t] = "waiting"
  /\ phase' = [phase EXCEPT ![t] = "timedout"]
  /\ UNCHANGED <<owner, depth, saved>>

Reacquire(t) ==
  /\ phase[t] \in {"woken", "timedout"} /\ owner = NoThread
  /\ owner' = t /\ depth' = saved[t]
  /\ phase' = [phase EXCEPT ![t] = "run"]
  /\ saved' = [saved EXCEPT ![t] = 0]

Next ==
  /\ type' = type
  /\ \/ Broadcast
     \/ \E t \in Threads : \/ Acquire(t) \/ Deepen(t) \/ Release(t) \/ Wait(t)
                           \/ Signal(t) \/ GiveUp(t) \/ Reacquire(t)

Spec == Init /\ [][Next]_vars
=============================================================================
