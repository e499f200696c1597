---------------------------- MODULE FlipQueueProofs ----------------------------
(***************************************************************************)
(* Proofs about the flip queue, for any threads, buffers, capacity, pool,  *)
(* rates and bounds.                                                       *)
(***************************************************************************)
EXTENDS FlipQueue, FiniteSetTheorems, TLAPS

Everything == Queued \union cpu \union cancelled

\* The GPU thread has the flip Me in work.
Busy == pc[Gpu] \in {"prepare", "check", "cut", "frame", "store", "done"}

\* Flips of the processor whose call has yet to hand them to the GPU thread.
Sent == {call[g].n : g \in {h \in Guests : pc[h] = "submit"}}

\* Stages of a flip on its way to be ready.
IsReserved(id)  == \E r \in Everything : r.id = id /\ r.state = "Reserved"
IsRecording(id) == \E r \in Everything : r.id = id /\ r.state = "Recording" /\ ~r.frame
IsRecorded(id)  == \E r \in Everything : /\ r.id = id /\ r.state = "Recording"
                                         /\ r \in Queued => r.frame

\* Each flip is in one place and its number is its own.
IdsOK ==
  /\ IsFiniteSet(cpu) /\ IsFiniteSet(cancelled)
  /\ \A i, j \in DOMAIN requests : requests[i].id = requests[j].id => i = j
  /\ \A r, s \in Everything : r.id = s.id => r = s
  /\ Queued \intersect cpu = {} /\ Queued \intersect cancelled = {}
  /\ cpu \intersect cancelled = {}
  /\ \A r \in Everything : r.id < nextId

\* What a flip's list says of its state, and its state of its frame.
StatesOK ==
  /\ \A r \in cpu : r.state = "Reserved" /\ r.source = "Cpu"
  /\ \A r \in cancelled : r.state \in {"Reserved", "Recording"}
  /\ \A r \in Queued : r.state \in {"Ready", "Presenting"} => r.frame
  /\ \A r \in Everything : r.state = "Reserved" => ~r.frame

\* Every flip to be prepared is in one hand, and is still reserved.
JobsOK ==
  /\ \A g, h \in Guests :
       pc[g] = "submit" /\ pc[h] = "submit" /\ call[g].n = call[h].n => g = h
  /\ \A i, j \in DOMAIN jobs : jobs[i] = jobs[j] => i = j
  /\ Sent \intersect ToSet(jobs) = {}
  /\ \A id \in Sent \union ToSet(jobs) : IsReserved(id)

\* The flip in work is where its preparation has got to.
PacketOK ==
  Busy => /\ Me \notin Sent \union ToSet(jobs) \union ToSet(eop)
          /\ CASE pc[Gpu] = "prepare" -> IsReserved(Me)
               [] pc[Gpu] = "done"    -> IsRecorded(Me)
               [] OTHER               -> IsRecording(Me)

\* Every flip that the end of the pipe completes is recorded.
EopOK ==
  /\ \A i, j \in DOMAIN eop : eop[i] = eop[j] => i = j
  /\ \A id \in ToSet(eop) : IsRecorded(id)

\* The front stays what Flip read, and a flip shown belongs to the open port.
PresentOK ==
  /\ processing <=> pc[Present] \in {"due", "undo", "show", "pop"}
  /\ pc[Present] \in {"due", "show"} => IsFront("Ready")
  /\ pc[Present] = "pop" => IsFront("Presenting")
  /\ pc[Present] \in {"show", "pop"} => opened
  /\ \A r \in Queued : r.state = "Presenting" => pc[Present] = "pop" /\ r = Head(requests)

\* One Close at a time, which leaves nothing of the port behind.
PortOK ==
  /\ opened => ~closing
  /\ ~opened /\ ~closing =>
       /\ nextId = 1 /\ \A g \in Guests : pc[g] = "free"
       /\ pc[Gpu] \in {"idle", "get", "getwait"}
  /\ \A g \in Guests : pc[g] \in {"cancel", "discard"} =>
       closing /\ \A h \in Guests : pc[h] \in {"cancel", "discard"} => h = g
  /\ ~opened => (requests = <<>> /\ cpu = {}) \/ \E g \in Guests : pc[g] = "cancel"
  /\ opened => \A r \in Queued \union cpu : r.gen = gen
  /\ pc[Gpu] = "cut" /\ Me \in Ids(Queued) => ~opened
  /\ Total <= Capacity

\* Threads that may reserve a flip have a number left for it.
Asking == {g \in Guests : pc[g] = "got" /\ call[g].op = "flip"}
            \union {t \in {Gpu} : pc[t] \in {"get", "reserve", "slot"}}
BoundOK == nextId + Cardinality(Asking) <= ReqMax + 1

\* The arguments that threads carry.
ArgsOK ==
  /\ \A g \in Guests :
       /\ pc[g] = "got" => call[g] \in Calls
       /\ pc[g] = "submit" => call[g].n \in 1..ReqMax
       /\ pc[g] = "discard" => call[g].n \in Nat
  /\ call \in [Guests -> [op : {"none", "flip", "rate", "register", "unregister"},
                          index : Indices \union {"none"}, n : Nat]]
  /\ packet \in [index : Indices \union {"none"}, id : Nat, source : {"none", "Cpu", "GpuEop"}]
  /\ pc[Gpu] \in {"get", "reserve", "slot"} => packet.index \in Indices
  /\ Busy => Me \in 1..ReqMax
  /\ pc \in [Threads -> GuestPcs \union GpuPcs \union PresentPcs]

IInv ==
  /\ TypeOK /\ ArgsOK /\ IdsOK /\ StatesOK /\ JobsOK /\ PacketOK /\ EopOK
  /\ PresentOK /\ PortOK /\ BoundOK
  /\ QueueStaysConsistent /\ StatusExact /\ FramesAccounted

-----------------------------------------------------------------------------
(* Sequences as the sets of their elements                                 *)

\* No element occurs twice, and no two requests have one number.
Distinct(s)  == \A i, j \in DOMAIN s : s[i] = s[j] => i = j
UniqueIds(s) == \A i, j \in DOMAIN s : s[i].id = s[j].id => i = j

LEMMA SeqIsFinite ==
  ASSUME NEW S, NEW s \in Seq(S)
  PROVE  IsFiniteSet(ToSet(s)) /\ ToSet(s) \subseteq S
<1>1. s \in Surjection(1..Len(s), ToSet(s))
  BY DEF Surjection, ToSet
<1>2. IsFiniteSet(1..Len(s))
  BY FS_Interval
<1> QED BY <1>1, <1>2, FS_Surjection DEF ToSet

\* One more element at the end.
LEMMA AppendFacts ==
  ASSUME NEW S, NEW s \in Seq(S), NEW e \in S
  PROVE  /\ Append(s, e) \in Seq(S) /\ Len(Append(s, e)) = Len(s) + 1
         /\ ToSet(Append(s, e)) = ToSet(s) \union {e}
         /\ s # <<>> => Head(Append(s, e)) = Head(s)
         /\ Append(s, e) # <<>>
         /\ Distinct(s) /\ e \notin ToSet(s) => Distinct(Append(s, e))
<1>1. /\ Append(s, e) \in Seq(S) /\ Len(Append(s, e)) = Len(s) + 1
      /\ \A i \in 1..Len(s) + 1 : Append(s, e)[i] = IF i = Len(s) + 1 THEN e ELSE s[i]
  OBVIOUS
<1>2. DOMAIN Append(s, e) = 1..Len(s) + 1 /\ DOMAIN s = 1..Len(s) /\ Len(s) \in Nat
  BY <1>1
<1> DEFINE a == Append(s, e)
<1> HIDE DEF a
<1>3. ToSet(a) = ToSet(s) \union {e}
  <2>1. ASSUME NEW i \in 1..Len(s) + 1 PROVE a[i] \in ToSet(s) \union {e}
    BY <1>1, <1>2 DEF ToSet, a
  <2>2. ASSUME NEW i \in 1..Len(s) PROVE s[i] = a[i] /\ i \in 1..Len(s) + 1
    BY <1>1, <1>2 DEF a
  <2>3. e = a[Len(s) + 1] /\ Len(s) + 1 \in 1..Len(s) + 1
    BY <1>1, <1>2 DEF a
  <2> QED BY <1>2, <2>1, <2>2, <2>3 DEF ToSet, a
<1>4. s # <<>> => Head(a) = Head(s)
  BY <1>1, <1>2 DEF a
<1>5. a # <<>>
  BY <1>1 DEF a
<1>6. ASSUME Distinct(s), e \notin ToSet(s) PROVE Distinct(a)
  <2>1. \A i \in 1..Len(s) : s[i] # e
    BY <1>2, <1>6 DEF ToSet
  <2> QED BY <1>1, <1>2, <1>6, <2>1 DEF Distinct, a
<1> QED BY <1>1, <1>3, <1>4, <1>5, <1>6 DEF a

\* Without the front.
LEMMA TailFacts ==
  ASSUME NEW S, NEW s \in Seq(S), s # <<>>
  PROVE  /\ Tail(s) \in Seq(S) /\ Len(Tail(s)) = Len(s) - 1
         /\ Head(s) \in S /\ Head(s) \in ToSet(s)
         /\ Distinct(s) => /\ ToSet(Tail(s)) = ToSet(s) \ {Head(s)}
                           /\ Distinct(Tail(s))
<1>1. /\ Tail(s) \in Seq(S) /\ Len(Tail(s)) = Len(s) - 1 /\ Len(s) \in Nat
      /\ Head(s) = s[1] /\ 1 \in 1..Len(s)
      /\ \A i \in 1..Len(s) - 1 : Tail(s)[i] = s[i + 1]
  OBVIOUS
<1>2. DOMAIN Tail(s) = 1..Len(s) - 1 /\ DOMAIN s = 1..Len(s)
  BY <1>1
<1> DEFINE r == Tail(s)
<1> HIDE DEF r
<1>3. ASSUME Distinct(s) PROVE ToSet(r) = ToSet(s) \ {Head(s)} /\ Distinct(r)
  <2>1. ASSUME NEW i \in 1..Len(s) - 1
        PROVE  i + 1 \in 1..Len(s) /\ r[i] = s[i + 1] /\ s[i + 1] # s[1]
    BY <1>1, <1>2, <1>3 DEF Distinct, r
  <2>2. ASSUME NEW i \in 1..Len(s), s[i] # s[1]
        PROVE  i - 1 \in 1..Len(s) - 1 /\ s[i] = r[i - 1]
    BY <1>1, <2>2 DEF r
  <2>3. ToSet(r) = ToSet(s) \ {s[1]}
    <3>1. ASSUME NEW x \in ToSet(r) PROVE x \in ToSet(s) \ {s[1]}
      BY <1>2, <2>1 DEF ToSet, r
    <3>2. ASSUME NEW x \in ToSet(s) \ {s[1]} PROVE x \in ToSet(r)
      <4>1. PICK i \in 1..Len(s) : x = s[i]
        BY <1>2 DEF ToSet
      <4>2. i - 1 \in DOMAIN r /\ x = r[i - 1]
        BY <1>2, <2>2, <4>1 DEF r
      <4> QED BY <4>2 DEF ToSet
    <3> QED BY <3>1, <3>2
  <2>4. Distinct(r)
    BY <1>2, <1>3, <2>1 DEF Distinct, r
  <2> QED BY <1>1, <2>3, <2>4
<1> QED BY <1>1, <1>2, <1>3 DEF r, ToSet

\* Without the element at place k.
LEMMA RemoveAtFacts ==
  ASSUME NEW S, NEW s \in Seq(S), NEW k \in DOMAIN s, Distinct(s)
  PROVE  /\ RemoveAt(s, k) \in Seq(S) /\ Len(RemoveAt(s, k)) = Len(s) - 1
         /\ ToSet(RemoveAt(s, k)) = ToSet(s) \ {s[k]}
         /\ Distinct(RemoveAt(s, k))
         /\ s # <<>> /\ Head(s) # s[k] =>
              RemoveAt(s, k) # <<>> /\ Head(RemoveAt(s, k)) = Head(s)
<1> DEFINE a == SubSeq(s, 1, k - 1)
           b == SubSeq(s, k + 1, Len(s))
           n == Len(s)
           r == RemoveAt(s, k)
<1>0. n \in Nat /\ DOMAIN s = 1..n /\ k \in 1..n
  OBVIOUS
<1>1. /\ a \in Seq(S) /\ Len(a) = k - 1
      /\ \A i \in 1..k - 1 : a[i] = s[i]
  BY <1>0
<1>2. /\ b \in Seq(S) /\ Len(b) = n - k
      /\ \A i \in 1..n - k : b[i] = s[k + i]
  BY <1>0
<1>3. r = a \o b
  BY DEF RemoveAt
<1> HIDE DEF a, b, r, n
<1>4. r \in Seq(S) /\ Len(r) = n - 1
  <2>1. a \in Seq(S) /\ b \in Seq(S)
    BY <1>1, <1>2
  <2>2. a \o b \in Seq(S)
    BY <2>1
  <2>3. Len(a \o b) = Len(a) + Len(b)
    BY <2>1
  <2> QED BY <1>0, <1>1, <1>2, <1>3, <2>2, <2>3
<1>5. ASSUME NEW i \in 1..n - 1 PROVE r[i] = IF i < k THEN s[i] ELSE s[i + 1]
  <2>1. CASE i < k
    BY <1>0, <1>1, <1>2, <1>3, <2>1
  <2>2. CASE i >= k
    <3>1. (a \o b)[i] = b[i - (k - 1)]
      BY <1>0, <1>1, <1>2, <2>2
    <3>2. i - (k - 1) \in 1..n - k /\ k + (i - (k - 1)) = i + 1
      BY <1>0, <2>2
    <3>3. b[i - (k - 1)] = s[i + 1]
      BY <1>2, <3>2
    <3> QED BY <1>0, <1>3, <2>2, <3>1, <3>3
  <2> QED BY <1>0, <2>1, <2>2
<1> DEFINE U(i) == IF i < k THEN i ELSE i + 1
           D(i) == IF i < k THEN i ELSE i - 1
<1>6. \A i \in 1..n - 1 : U(i) \in 1..n /\ U(i) # k /\ r[i] = s[U(i)]
  BY <1>0, <1>5
<1>7. \A i \in 1..n : i # k => D(i) \in 1..n - 1 /\ U(D(i)) = i
  BY <1>0
<1>8. \A i, j \in 1..n - 1 : U(i) = U(j) => i = j
  BY <1>0
<1>9. n # 0 /\ k # 1 => U(1) = 1 /\ 1 \in 1..n - 1
  BY <1>0
<1> HIDE DEF U, D
<1>10. DOMAIN r = 1..n - 1
  BY <1>4, <1>0
<1>11. \A i, j \in 1..n : s[i] = s[j] => i = j
  BY <1>0 DEF Distinct
<1>12. ToSet(r) = ToSet(s) \ {s[k]}
  <2>1. ASSUME NEW i \in 1..n - 1 PROVE r[i] \in ToSet(s) \ {s[k]}
    BY <1>0, <1>6, <1>11 DEF ToSet
  <2>2. ASSUME NEW i \in 1..n, s[i] # s[k] PROVE \E j \in 1..n - 1 : s[i] = r[j]
    BY <1>6, <1>7, <2>2
  <2>3. ASSUME NEW x \in ToSet(r) PROVE x \in ToSet(s) \ {s[k]}
    BY <1>10, <2>1 DEF ToSet
  <2>4. ASSUME NEW x \in ToSet(s) \ {s[k]} PROVE x \in ToSet(r)
    <3>1. PICK i \in 1..n : x = s[i]
      BY <1>0 DEF ToSet
    <3> QED BY <1>10, <2>2, <3>1 DEF ToSet
  <2> QED BY <2>3, <2>4
<1>13. Distinct(r)
  BY <1>6, <1>8, <1>10, <1>11 DEF Distinct
<1>14. ASSUME s # <<>>, Head(s) # s[k] PROVE r # <<>> /\ Head(r) = Head(s)
  <2>1. n # 0 /\ Head(s) = s[1] /\ k # 1
    BY <1>14 DEF n
  <2>2. r[1] = s[1] /\ Len(r) # 0
    BY <1>0, <1>4, <1>6, <1>9, <2>1
  <2>3. r # <<>>
    <3>1. r = <<>> => Len(r) = 0
      OBVIOUS
    <3> QED BY <2>2, <3>1
  <2>4. Head(r) = r[1]
    BY <1>4, <2>3
  <2> QED BY <2>1, <2>2, <2>3, <2>4
<1> QED BY <1>4, <1>12, <1>13, <1>14 DEF r, n

-----------------------------------------------------------------------------
(* Threads, requests, and the lists they are in                            *)

LEMMA ThreadFacts ==
  /\ Gpu \in Threads /\ Present \in Threads /\ Guests \subseteq Threads
  /\ Gpu \notin Guests /\ Present \notin Guests /\ Gpu # Present
  /\ IsFiniteSet(Guests)
BY FlipAssumption DEF Gpu, Present, Guests, Threads

LEMMA GoFacts ==
  ASSUME ArgsOK, NEW t \in Threads, NEW where, Go(t, where)
  PROVE  \A u \in Threads : pc'[u] = IF u = t THEN where ELSE pc[u]
BY DEF Go, ArgsOK

\* What becomes of a request on its way.
Framed(r)   == [r EXCEPT !.frame = TRUE]
Readied(r)  == [r EXCEPT !.state = "Ready"]
OnScreen(r) == [r EXCEPT !.state = "Presenting"]

LEMMA RequestFields ==
  ASSUME NEW r \in Request
  PROVE  /\ r.id \in 1..ReqMax /\ r.gen \in Nat /\ r.frame \in BOOLEAN
         /\ r.source \in {"Cpu", "GpuEop"} /\ r.index \in Indices
         /\ r.state \in {"Reserved", "Recording", "Ready", "Presenting"}
         /\ Recording(r) \in Request /\ Recording(r).id = r.id
         /\ Recording(r).gen = r.gen /\ Recording(r).source = r.source
         /\ Recording(r).state = "Recording" /\ Recording(r).frame = r.frame
         /\ Framed(r) \in Request /\ Framed(r).id = r.id
         /\ Framed(r).gen = r.gen /\ Framed(r).source = r.source
         /\ Framed(r).state = r.state /\ Framed(r).frame = TRUE
         /\ Readied(r) \in Request /\ Readied(r).id = r.id
         /\ Readied(r).gen = r.gen /\ Readied(r).source = r.source
         /\ Readied(r).state = "Ready" /\ Readied(r).frame = r.frame
         /\ OnScreen(r) \in Request /\ OnScreen(r).id = r.id
         /\ OnScreen(r).gen = r.gen /\ OnScreen(r).source = r.source
         /\ OnScreen(r).state = "Presenting" /\ OnScreen(r).frame = r.frame
<1>1. /\ r.id \in 1..ReqMax /\ r.gen \in Nat /\ r.frame \in BOOLEAN
      /\ r.source \in {"Cpu", "GpuEop"} /\ r.index \in Indices
      /\ r.state \in {"Reserved", "Recording", "Ready", "Presenting"}
  BY DEF Request
<1>2. /\ Recording(r) \in Request /\ Recording(r).id = r.id
      /\ Recording(r).gen = r.gen /\ Recording(r).source = r.source
      /\ Recording(r).state = "Recording" /\ Recording(r).frame = r.frame
  BY DEF Request, Recording
<1>3. /\ Framed(r) \in Request /\ Framed(r).id = r.id
      /\ Framed(r).gen = r.gen /\ Framed(r).source = r.source
      /\ Framed(r).state = r.state /\ Framed(r).frame = TRUE
  BY DEF Request, Framed
<1>4. /\ Readied(r) \in Request /\ Readied(r).id = r.id
      /\ Readied(r).gen = r.gen /\ Readied(r).source = r.source
      /\ Readied(r).state = "Ready" /\ Readied(r).frame = r.frame
  BY DEF Request, Readied
<1>5. /\ OnScreen(r) \in Request /\ OnScreen(r).id = r.id
      /\ OnScreen(r).gen = r.gen /\ OnScreen(r).source = r.source
      /\ OnScreen(r).state = "Presenting" /\ OnScreen(r).frame = r.frame
  BY DEF Request, OnScreen
<1> QED BY <1>1, <1>2, <1>3, <1>4, <1>5

LEMMA QueuedFacts ==
  ASSUME TypeOK, IdsOK
  PROVE  /\ requests \in Seq(Request) /\ IsFiniteSet(Queued)
         /\ Queued \subseteq Request /\ Everything \subseteq Request
         /\ Distinct(requests) /\ Len(requests) \in Nat
         /\ requests # <<>> => Head(requests) \in Queued
         /\ requests = <<>> <=> Queued = {}
<1>1. requests \in Seq(Request) /\ cpu \subseteq Request /\ cancelled \subseteq Request
  BY DEF TypeOK
<1>2. IsFiniteSet(Queued) /\ Queued \subseteq Request
  BY <1>1, SeqIsFinite DEF Queued
<1>3. Distinct(requests)
  BY DEF IdsOK, Distinct
<1>4. requests # <<>> => Head(requests) \in Queued
  BY <1>1, TailFacts DEF Queued
<1>5. requests = <<>> => Queued = {}
  BY DEF Queued, ToSet
<1> QED BY <1>1, <1>2, <1>3, <1>4, <1>5 DEF Everything

\* The request with a number is found where it is.
LEMMA OfFacts ==
  ASSUME TypeOK, IdsOK, NEW s \in SUBSET Everything, NEW id
  PROVE  /\ id \in Ids(s) => /\ Of(s, id) \in s /\ Of(s, id).id = id
                             /\ Of(s, id) \in Request
         /\ \A r \in s : r.id = id => id \in Ids(s) /\ Of(s, id) = r
<1>1. \A r, u \in s : r.id = u.id => r = u
  BY DEF IdsOK
<1>2. id \in Ids(s) => \E r \in s : r.id = id
  BY DEF Ids
<1>3. id \in Ids(s) => Of(s, id) \in s /\ Of(s, id).id = id
  BY <1>2 DEF Of
<1>4. \A r \in s : r.id = id => id \in Ids(s)
  BY DEF Ids
<1>5. s \subseteq Request
  BY QueuedFacts
<1> QED BY <1>1, <1>3, <1>4, <1>5

\* A request in m_requests is changed in its place.
LEMMA PutFacts ==
  ASSUME TypeOK, IdsOK, NEW old \in Queued, NEW new \in Request, new.id = old.id
  PROVE  /\ Put(new) \in Seq(Request) /\ Len(Put(new)) = Len(requests)
         /\ ToSet(Put(new)) = (Queued \ {old}) \union {new}
         /\ UniqueIds(Put(new))
         /\ requests # <<>> /\ Put(new) # <<>>
         /\ Head(Put(new)) = IF Head(requests) = old THEN new ELSE Head(requests)
         /\ \A i \in 1..Len(requests) : Put(new)[i].id = requests[i].id
<1>1. /\ requests \in Seq(Request) /\ Len(requests) \in Nat
      /\ DOMAIN requests = 1..Len(requests)
  BY DEF TypeOK
<1> DEFINE n == Len(requests)
           p == Put(new)
<1>2. PICK k \in 1..n : requests[k] = old
  BY <1>1 DEF Queued, ToSet
<1>3. ASSUME NEW i \in 1..n PROVE requests[i].id = new.id <=> i = k
  BY <1>1, <1>2 DEF IdsOK
<1>4. p \in Seq(Request) /\ Len(p) = n /\ DOMAIN p = 1..n
  <2>1. p \in [1..n -> Request]
    BY <1>1 DEF Put
  <2>2. p \in Seq(Request)
    BY <1>1, <2>1
  <2> HIDE DEF p
  <2> QED BY <1>1, <2>1, <2>2
<1>5. \A i \in 1..n : p[i] = IF i = k THEN new ELSE requests[i]
  BY <1>1, <1>3 DEF Put
<1> HIDE DEF n, p
<1>6. \A i, j \in 1..n : requests[i].id = requests[j].id => i = j
  BY <1>1 DEF IdsOK, n
<1>7. \A i \in 1..n : p[i].id = requests[i].id
  BY <1>2, <1>5
<1>8. UniqueIds(p)
  BY <1>4, <1>6, <1>7 DEF UniqueIds
<1>9. ToSet(p) = (Queued \ {old}) \union {new}
  <2>1. ASSUME NEW x \in ToSet(p) PROVE x \in (Queued \ {old}) \union {new}
    <3>1. PICK i \in 1..n : x = p[i]
      BY <1>4 DEF ToSet
    <3>2. CASE i = k
      BY <1>5, <3>1, <3>2
    <3>3. CASE i # k
      <4>1. x = requests[i] /\ requests[i] # old
        BY <1>2, <1>5, <1>6, <3>1, <3>3
      <4> QED BY <1>1, <4>1 DEF Queued, ToSet, n
    <3> QED BY <3>2, <3>3
  <2>2. ASSUME NEW x \in Queued \ {old} PROVE x \in ToSet(p)
    <3>1. PICK i \in 1..n : x = requests[i]
      BY <1>1 DEF Queued, ToSet, n
    <3>2. i # k
      BY <1>2, <3>1
    <3> QED BY <1>4, <1>5, <3>1, <3>2 DEF ToSet
  <2>3. new \in ToSet(p)
    BY <1>2, <1>4, <1>5 DEF ToSet
  <2> QED BY <2>1, <2>2, <2>3
<1>10. requests # <<>> /\ p # <<>> /\ Head(requests) = requests[1] /\ Head(p) = p[1]
       /\ 1 \in 1..n
  <2>1. n # 0 /\ n \in Nat
    BY <1>1, <1>2 DEF n
  <2>2. requests # <<>> /\ Head(requests) = requests[1]
    BY <1>1, <2>1 DEF n
  <2>3. p = <<>> => Len(p) = 0
    OBVIOUS
  <2>4. p # <<>>
    BY <1>4, <2>1, <2>3
  <2>5. Head(p) = p[1]
    BY <1>4, <2>4
  <2> QED BY <2>1, <2>2, <2>4, <2>5
<1>11. Head(p) = IF Head(requests) = old THEN new ELSE Head(requests)
  <2>1. requests[1] = old <=> 1 = k
    BY <1>2, <1>6, <1>10
  <2> QED BY <1>5, <1>10, <2>1
<1> QED BY <1>4, <1>7, <1>8, <1>9, <1>10, <1>11 DEF n, p

\* A request leaves m_requests from wherever it is.
LEMMA WithoutFacts ==
  ASSUME TypeOK, IdsOK, NEW old \in Queued
  PROVE  /\ Without(old.id) \in Seq(Request)
         /\ Len(Without(old.id)) = Len(requests) - 1
         /\ ToSet(Without(old.id)) = Queued \ {old}
         /\ UniqueIds(Without(old.id))
         /\ requests # <<>> /\ Head(requests) # old =>
              Without(old.id) # <<>> /\ Head(Without(old.id)) = Head(requests)
<1> DEFINE k == CHOOSE i \in DOMAIN requests : requests[i].id = old.id
<1>1. PICK j \in DOMAIN requests : requests[j] = old
  BY DEF Queued, ToSet
<1>2. k \in DOMAIN requests /\ requests[k].id = old.id
  BY <1>1
<1> HIDE DEF k
<1>3. requests[k] = old
  BY <1>1, <1>2 DEF IdsOK
<1>4. Without(old.id) = RemoveAt(requests, k)
  BY DEF Without, k
<1>5. requests \in Seq(Request) /\ Distinct(requests) /\ Queued = ToSet(requests)
  BY QueuedFacts DEF Queued
<1>6. /\ Without(old.id) \in Seq(Request)
      /\ Len(Without(old.id)) = Len(requests) - 1
      /\ ToSet(Without(old.id)) = Queued \ {old}
      /\ Distinct(Without(old.id))
      /\ requests # <<>> /\ Head(requests) # old =>
           Without(old.id) # <<>> /\ Head(Without(old.id)) = Head(requests)
  BY <1>2, <1>3, <1>4, <1>5, RemoveAtFacts
<1>7. UniqueIds(Without(old.id))
  <2> DEFINE w == Without(old.id)
  <2> HIDE DEF w
  <2>1. ASSUME NEW i \in DOMAIN w, NEW m \in DOMAIN w, w[i].id = w[m].id PROVE i = m
    <3>1. w[i] \in ToSet(w) /\ w[m] \in ToSet(w)
      BY DEF ToSet
    <3>2. w[i] \in Everything /\ w[m] \in Everything
      BY <1>6, <3>1 DEF Everything, w
    <3>3. w[i] = w[m]
      BY <2>1, <3>2 DEF IdsOK
    <3> QED BY <1>6, <3>3 DEF Distinct, w
  <2> QED BY <2>1 DEF UniqueIds, w
<1> QED BY <1>6, <1>7

-----------------------------------------------------------------------------
(* What a step that leaves a part of the state alone leaves true           *)

\* Flips under way stay where they are or are cancelled, but for flip x.
Keeps(x) ==
  \A r \in Everything :
    r.id # x /\ r.state \in {"Reserved", "Recording"} =>
      r \in Everything' /\ (r \in Queued' => r \in Queued)

SameLists == UNCHANGED <<requests, cpu, cancelled>>

LEMMA ListsKept ==
  ASSUME IdsOK, StatesOK, SameLists, nextId' = nextId, NEW x
  PROVE  /\ IdsOK' /\ StatesOK' /\ Keeps(x)
         /\ Queued' = Queued /\ Everything' = Everything /\ Total' = Total
<1>1. Queued' = Queued /\ Everything' = Everything /\ Total' = Total
  BY DEF SameLists, Queued, Everything, Total
<1>2. IdsOK'
  BY <1>1 DEF SameLists, IdsOK
<1>3. StatesOK'
  BY <1>1 DEF SameLists, StatesOK
<1> QED BY <1>1, <1>2, <1>3 DEF Keeps

LEMMA StagesKept ==
  ASSUME NEW x, Keeps(x), NEW id, id # x
  PROVE  /\ IsReserved(id) => IsReserved(id)'
         /\ IsRecording(id) => IsRecording(id)'
         /\ IsRecorded(id) => IsRecorded(id)'
<1>1. IsReserved(id) => IsReserved(id)'
  BY DEF Keeps, IsReserved
<1>2. IsRecording(id) => IsRecording(id)'
  BY DEF Keeps, IsRecording
<1>3. IsRecorded(id) => IsRecorded(id)'
  BY DEF Keeps, IsRecorded
<1> QED BY <1>1, <1>2, <1>3

\* No guest thread gets a flip to hand over, and none hands one over.
SameSent ==
  \A g \in Guests : /\ pc'[g] = "submit" <=> pc[g] = "submit"
                    /\ pc[g] = "submit" => call'[g] = call[g]

LEMMA JobsKept ==
  ASSUME JobsOK, NEW x, Keeps(x), x \notin Sent \union ToSet(jobs), jobs' = jobs, SameSent
  PROVE  JobsOK' /\ Sent' = Sent
<1>1. Sent' = Sent
  BY DEF SameSent, Sent
<1>2. \A id \in Sent \union ToSet(jobs) : IsReserved(id)'
  BY StagesKept DEF JobsOK
<1>3. \A g, h \in Guests :
        pc'[g] = "submit" /\ pc'[h] = "submit" /\ call'[g].n = call'[h].n => g = h
  BY DEF JobsOK, SameSent
<1>4. (\A i, j \in DOMAIN jobs : jobs[i] = jobs[j] => i = j)'
  BY DEF JobsOK
<1>5. (Sent \intersect ToSet(jobs) = {})'
  BY <1>1 DEF JobsOK
<1>6. (\A id \in Sent \union ToSet(jobs) : IsReserved(id))'
  BY <1>1, <1>2
<1>7. JobsOK'
  BY <1>3, <1>4, <1>5, <1>6 DEF JobsOK
<1> QED BY <1>1, <1>7

LEMMA EopKept ==
  ASSUME EopOK, NEW x, Keeps(x), x \notin ToSet(eop), eop' = eop
  PROVE  EopOK'
<1>1. \A id \in ToSet(eop) : IsRecorded(id)'
  BY StagesKept DEF EopOK
<1>2. (\A i, j \in DOMAIN eop : eop[i] = eop[j] => i = j)'
  BY DEF EopOK
<1>3. (\A id \in ToSet(eop) : IsRecorded(id))'
  BY <1>1
<1> QED BY <1>2, <1>3 DEF EopOK

\* The GPU thread and the flips in the hands of others are left alone.
LEMMA PacketKept ==
  ASSUME PacketOK, NEW x, Keeps(x), Busy => Me # x, packet' = packet, pc'[Gpu] = pc[Gpu],
         Busy => Me \notin (Sent \union ToSet(jobs) \union ToSet(eop))'
  PROVE  PacketOK'
<1>1. Busy' <=> Busy
  BY DEF Busy
<1>2. SUFFICES ASSUME Busy
              PROVE  /\ (Me \notin Sent \union ToSet(jobs) \union ToSet(eop))'
                     /\ (CASE pc[Gpu] = "prepare" -> IsReserved(Me)
                           [] pc[Gpu] = "done"    -> IsRecorded(Me)
                           [] OTHER               -> IsRecording(Me))'
  BY <1>1 DEF PacketOK
<1>3. Me' = Me
  BY DEF Me
<1>4. /\ IsReserved(Me) => IsReserved(Me)'
      /\ IsRecording(Me) => IsRecording(Me)'
      /\ IsRecorded(Me) => IsRecorded(Me)'
  <2>1. Me # x
    BY <1>2
  <2> DEFINE m == Me
  <2>2. /\ IsReserved(m) => IsReserved(m)'
        /\ IsRecording(m) => IsRecording(m)'
        /\ IsRecorded(m) => IsRecorded(m)'
    BY <2>1, <1>3, StagesKept DEF Me
  <2> QED BY <2>2
<1>5. CASE pc[Gpu] = "prepare"
  BY <1>2, <1>3, <1>4, <1>5 DEF PacketOK
<1>6. CASE pc[Gpu] = "done"
  BY <1>2, <1>3, <1>4, <1>6 DEF PacketOK
<1>7. CASE pc[Gpu] # "prepare" /\ pc[Gpu] # "done"
  BY <1>2, <1>3, <1>4, <1>7 DEF PacketOK
<1> QED BY <1>5, <1>6, <1>7

\* A front that is ready stays the front, and nothing new is on the screen.
SameFront ==
  /\ requests # <<>> /\ Head(requests).state \in {"Ready", "Presenting"} =>
       requests' # <<>> /\ Head(requests') = Head(requests)
  /\ \A r \in Queued' : r.state = "Presenting" => r \in Queued

LEMMA PresentKept ==
  ASSUME TypeOK, IdsOK, PresentOK, SameFront, processing' = processing, front' = front,
         pc'[Present] = pc[Present], pc[Present] \in {"show", "pop"} => opened' = opened
  PROVE  PresentOK'
<1>1. \A state \in {"Ready", "Presenting"} : IsFront(state) => IsFront(state)'
  BY DEF IsFront, SameFront
<1>2. ASSUME NEW r \in Queued', r.state = "Presenting"
      PROVE  pc'[Present] = "pop" /\ r = Head(requests')
  <2>1. r \in Queued
    BY <1>2 DEF SameFront
  <2>2. requests # <<>>
    BY <2>1, QueuedFacts
  <2> QED BY <1>2, <2>1, <2>2 DEF SameFront, PresentOK
<1>3. (processing <=> pc[Present] \in {"due", "undo", "show", "pop"})'
  BY DEF PresentOK
<1>4. (pc[Present] \in {"due", "show"} => IsFront("Ready"))'
  BY <1>1 DEF PresentOK
<1>5. (pc[Present] = "pop" => IsFront("Presenting"))'
  BY <1>1 DEF PresentOK
<1>6. (pc[Present] \in {"show", "pop"} => opened)'
  BY DEF PresentOK
<1> QED BY <1>2, <1>3, <1>4, <1>5, <1>6 DEF PresentOK

LEMMA SameListsFront ==
  ASSUME SameLists
  PROVE  SameFront
BY DEF SameLists, SameFront, Queued

\* No call of Close begins or goes on.
SameClosing ==
  \A g \in Guests : /\ pc'[g] \in {"cancel", "discard"} => pc'[g] = pc[g]
                    /\ pc[g] = "cancel" => pc'[g] = "cancel"

LEMMA PortKept ==
  ASSUME PortOK, UNCHANGED <<opened, closing, gen>>, SameClosing,
         opened \/ closing \/ /\ nextId' = nextId /\ \A g \in Guests : pc'[g] = "free"
                              /\ pc'[Gpu] \in {"idle", "get", "getwait"},
         ~opened /\ requests = <<>> /\ cpu = {} => requests' = <<>> /\ cpu' = {},
         opened => \A r \in Queued' \union cpu' : r.gen = gen,
         pc'[Gpu] = "cut" /\ packet'.id \in Ids(Queued') => ~opened,
         Total' <= Capacity
  PROVE  PortOK'
<1>1. (opened => ~closing)'
  BY DEF PortOK
<1>2. (~opened /\ ~closing => /\ nextId = 1 /\ \A g \in Guests : pc[g] = "free"
                              /\ pc[Gpu] \in {"idle", "get", "getwait"})'
  BY DEF PortOK
<1>3. (\A g \in Guests : pc[g] \in {"cancel", "discard"} =>
         closing /\ \A h \in Guests : pc[h] \in {"cancel", "discard"} => h = g)'
  <2>1. ASSUME NEW g \in Guests, pc'[g] \in {"cancel", "discard"}
        PROVE  closing' /\ \A h \in Guests : pc'[h] \in {"cancel", "discard"} => h = g
    <3>1. pc[g] \in {"cancel", "discard"}
      BY <2>1 DEF SameClosing
    <3>2. closing /\ \A h \in Guests : pc[h] \in {"cancel", "discard"} => h = g
      BY <3>1 DEF PortOK
    <3>3. \A h \in Guests : pc'[h] \in {"cancel", "discard"} => pc[h] \in {"cancel", "discard"}
      BY DEF SameClosing
    <3> QED BY <3>2, <3>3
  <2> QED BY <2>1
<1>4. (~opened => (requests = <<>> /\ cpu = {}) \/ \E g \in Guests : pc[g] = "cancel")'
  BY DEF PortOK, SameClosing
<1>5. (opened => \A r \in Queued \union cpu : r.gen = gen)'
  OBVIOUS
<1>6. (pc[Gpu] = "cut" /\ Me \in Ids(Queued) => ~opened)'
  BY DEF Me, Ids
<1>7. (Total <= Capacity)'
  OBVIOUS
<1> QED BY <1>1, <1>2, <1>3, <1>4, <1>5, <1>6, <1>7 DEF PortOK

\* The same with the lists left alone as well.
LEMMA QuietPortKept ==
  ASSUME PortOK, SameLists, UNCHANGED <<opened, closing, gen, nextId>>, SameClosing,
         \A g \in Guests : pc'[g] # "free" => opened \/ closing \/ pc[g] # "free",
         pc'[Gpu] \in {"idle", "get", "getwait"} \/ pc'[Gpu] = pc[Gpu] \/ opened \/ closing,
         pc'[Gpu] = "cut" => pc[Gpu] = "cut" /\ packet' = packet
  PROVE  PortOK'
<1>1. Queued' = Queued /\ Total' = Total
  BY DEF SameLists, Queued, Total
<1>2. opened \/ closing \/ /\ nextId' = nextId /\ \A g \in Guests : pc'[g] = "free"
                           /\ pc'[Gpu] \in {"idle", "get", "getwait"}
  BY DEF PortOK
<1>3. pc'[Gpu] = "cut" /\ packet'.id \in Ids(Queued') => ~opened
  BY <1>1 DEF PortOK, Me
<1> QED BY <1>1, <1>2, <1>3, PortKept DEF SameLists, PortOK

LEMMA BoundKept ==
  ASSUME TypeOK, BoundOK, nextId' = nextId, Asking' \subseteq Asking
  PROVE  BoundOK'
<1>1. IsFiniteSet(Asking)
  <2>1. Asking \subseteq Guests \union {Gpu}
    BY DEF Asking
  <2>2. IsFiniteSet(Guests \union {Gpu})
    BY ThreadFacts, FS_AddElement
  <2> QED BY <2>1, <2>2, FS_Subset
<1>2. IsFiniteSet(Asking') /\ Cardinality(Asking') <= Cardinality(Asking)
  BY <1>1, FS_Subset
<1>3. Cardinality(Asking') \in Nat /\ Cardinality(Asking) \in Nat
  BY <1>1, <1>2, FS_CardinalityType
<1>4. nextId \in Nat /\ ReqMax \in Nat
  BY FlipAssumption DEF TypeOK
<1> QED BY <1>2, <1>3, <1>4 DEF BoundOK

\* Frames between the pool and a request, by whose hand they are in.
Stored == IF pc[Gpu] = "store" THEN 1 ELSE 0
HandFacts ==
  /\ \A g \in Guests : pc[g] = "discard" => InHand = Stored + call[g].n
  /\ (\A g \in Guests : pc[g] # "discard") => InHand = Stored

LEMMA HandsNow == PortOK => HandFacts
<1> SUFFICES ASSUME PortOK PROVE HandFacts
  OBVIOUS
<1>1. ASSUME NEW g \in Guests, pc[g] = "discard" PROVE InHand = Stored + call[g].n
  <2> DEFINE d == CHOOSE h \in Guests : pc[h] = "discard"
  <2>1. d \in Guests /\ pc[d] = "discard"
    BY <1>1
  <2> HIDE DEF d
  <2>2. d = g
    BY <1>1, <2>1 DEF PortOK
  <2> QED BY <1>1, <2>2 DEF InHand, Stored, d
<1>2. ASSUME \A g \in Guests : pc[g] # "discard" PROVE InHand = Stored
  BY <1>2 DEF InHand, Stored
<1> QED BY <1>1, <1>2 DEF HandFacts

LEMMA HandsNext == PortOK' => HandFacts'
BY HandsNow, PTL

-----------------------------------------------------------------------------
(* Steps of one thread                                                     *)

AnyCall == [op : {"none", "flip", "rate", "register", "unregister"},
            index : Indices \union {"none"}, n : Nat]

LEMMA CallFacts ==
  /\ NoCall \in AnyCall /\ Calls \subseteq AnyCall
  /\ \A c \in AnyCall, n \in Nat : [c EXCEPT !.n = n] \in AnyCall /\ [c EXCEPT !.n = n].n = n
<1>1. NoCall \in AnyCall
  BY DEF NoCall, AnyCall
<1>2. Calls \subseteq AnyCall
  <2>1. \A n \in Rates \union {0} : n \in Nat
    BY FlipAssumption
  <2> QED BY <2>1 DEF Calls, AnyCall
<1>3. \A c \in AnyCall, n \in Nat : [c EXCEPT !.n = n] \in AnyCall /\ [c EXCEPT !.n = n].n = n
  BY DEF AnyCall
<1> QED BY <1>1, <1>2, <1>3

\* Where a thread may be.
PcsOK ==
  /\ pc \in [Threads -> GuestPcs \union GpuPcs \union PresentPcs]
  /\ pc[Gpu] \in GpuPcs /\ pc[Present] \in PresentPcs
  /\ \A g \in Guests : pc[g] \in GuestPcs

LEMMA PcsFacts ==
  ASSUME TypeOK, ArgsOK
  PROVE  PcsOK
BY DEF TypeOK, ArgsOK, PcsOK

\* Thread t goes on, the others stay where they are.
Goes(t, where) ==
  /\ pc'[t] = where
  /\ \A u \in Threads : u # t => pc'[u] = pc[u]

LEMMA GuestGoes ==
  ASSUME PcsOK, NEW g \in Guests, NEW where \in GuestPcs, Go(g, where)
  PROVE  /\ PcsOK' /\ Goes(g, where)
         /\ pc'[Gpu] = pc[Gpu] /\ pc'[Present] = pc[Present]
BY ThreadFacts DEF PcsOK, Go, Goes

LEMMA GpuGoes ==
  ASSUME PcsOK, NEW where \in GpuPcs, Go(Gpu, where)
  PROVE  /\ PcsOK' /\ Goes(Gpu, where)
         /\ pc'[Present] = pc[Present] /\ \A g \in Guests : pc'[g] = pc[g]
BY ThreadFacts DEF PcsOK, Go, Goes

LEMMA PresentThreadGoes ==
  ASSUME PcsOK, NEW where \in PresentPcs, Go(Present, where)
  PROVE  /\ PcsOK' /\ Goes(Present, where)
         /\ pc'[Gpu] = pc[Gpu] /\ \A g \in Guests : pc'[g] = pc[g]
BY ThreadFacts DEF PcsOK, Go, Goes

\* A guest thread goes on with another argument.
LEMMA GuestArgs ==
  ASSUME TypeOK, ArgsOK, NEW g \in Guests, NEW where \in GuestPcs, NEW c \in AnyCall,
         Go(g, where), call' = [call EXCEPT ![g] = c], packet' = packet,
         where = "got" => c \in Calls, where = "submit" => c.n \in 1..ReqMax
  PROVE  ArgsOK' /\ call'[g] = c /\ \A h \in Guests : h # g => call'[h] = call[h]
<1>1. PcsOK' /\ Goes(g, where) /\ pc'[Gpu] = pc[Gpu]
  BY PcsFacts, GuestGoes
<1>2. call' \in [Guests -> AnyCall] /\ call'[g] = c /\ \A h \in Guests : h # g => call'[h] = call[h]
  BY DEF ArgsOK, AnyCall
<1>3. Me' = Me /\ (Busy' <=> Busy)
  BY <1>1 DEF Me, Busy
<1>4. (\A h \in Guests : /\ pc[h] = "got" => call[h] \in Calls
                         /\ pc[h] = "submit" => call[h].n \in 1..ReqMax
                         /\ pc[h] = "discard" => call[h].n \in Nat)'
  <2>1. ASSUME NEW h \in Guests
        PROVE  /\ pc'[h] = "got" => call'[h] \in Calls
               /\ pc'[h] = "submit" => call'[h].n \in 1..ReqMax
               /\ pc'[h] = "discard" => call'[h].n \in Nat
    <3>1. CASE h = g
      BY <1>1, <1>2, <3>1 DEF Goes, AnyCall
    <3>2. CASE h # g
      <4>1. pc'[h] = pc[h] /\ call'[h] = call[h]
        BY <1>1, <1>2, <3>2, ThreadFacts DEF Goes
      <4> QED BY <4>1 DEF ArgsOK
    <3> QED BY <3>1, <3>2
  <2> QED BY <2>1
<1>5. (/\ call \in [Guests -> AnyCall]
       /\ packet \in [index : Indices \union {"none"}, id : Nat,
                      source : {"none", "Cpu", "GpuEop"}]
       /\ pc[Gpu] \in {"get", "reserve", "slot"} => packet.index \in Indices
       /\ Busy => Me \in 1..ReqMax
       /\ pc \in [Threads -> GuestPcs \union GpuPcs \union PresentPcs])'
  BY <1>1, <1>2, <1>3 DEF ArgsOK, PcsOK
<1>6. ArgsOK'
  BY <1>4, <1>5 DEF ArgsOK, AnyCall
<1> QED BY <1>2, <1>6

\* The flip status of an open port and the lists it counts are left alone.
LEMMA StatusQuiet ==
  ASSUME StatusExact, SameLists, opened' => opened, pending' = pending, gc' = gc
  PROVE  StatusExact'
BY DEF StatusExact, SameLists, Queued, Total

\* Frames change hands at no list.
LEMMA FramesQuiet ==
  ASSUME FramesAccounted, SameLists, free' + InHand' = free + InHand, TypeOK, IdsOK,
         InHand \in Nat, InHand' \in Nat, free' \in Nat
  PROVE  FramesAccounted'
<1>1. HeldBy(Queued)' = HeldBy(Queued) /\ HeldBy(cpu)' = HeldBy(cpu)
      /\ HeldBy(cancelled)' = HeldBy(cancelled)
  BY DEF SameLists, Queued, HeldBy
<1>2. IsFiniteSet(Queued) /\ IsFiniteSet(cpu) /\ IsFiniteSet(cancelled)
  BY QueuedFacts DEF IdsOK
<1>3. \A s : IsFiniteSet(s) => HeldBy(s) \in Nat
  BY FS_Subset, FS_CardinalityType DEF HeldBy
<1>4. /\ HeldBy(Queued) \in Nat /\ HeldBy(cpu) \in Nat /\ HeldBy(cancelled) \in Nat
      /\ free \in Nat /\ Pool \in Nat
  BY <1>2, <1>3, FlipAssumption DEF TypeOK
<1>5. free' + HeldBy(Queued) + HeldBy(cpu) + HeldBy(cancelled) + InHand' = Pool
  <2> DEFINE a == HeldBy(Queued)
             b == HeldBy(cpu)
             c == HeldBy(cancelled)
             h == InHand
             k == InHand'
  <2>1. free + a + b + c + h = Pool
    BY DEF FramesAccounted
  <2>2. a \in Nat /\ b \in Nat /\ c \in Nat /\ h \in Nat /\ k \in Nat /\ free \in Nat
        /\ free' \in Nat /\ free' + k = free + h
    BY <1>4
  <2> HIDE DEF a, b, c, h, k
  <2>3. free' + a + b + c + k = (free' + k) + (a + b + c)
    BY <2>2
  <2>4. free + a + b + c + h = (free + h) + (a + b + c)
    BY <2>2
  <2> QED BY <2>1, <2>2, <2>3, <2>4 DEF a, b, c, k
<1> QED BY <1>1, <1>5 DEF FramesAccounted

\* No frame changes hands.
LEMMA HandsQuiet ==
  ASSUME PortOK, PortOK', ArgsOK,
         pc'[Gpu] = "store" <=> pc[Gpu] = "store",
         \A g \in Guests : /\ pc'[g] = "discard" <=> pc[g] = "discard"
                           /\ pc[g] = "discard" => call'[g] = call[g]
  PROVE  InHand' = InHand /\ InHand \in Nat
<1>1. HandFacts /\ HandFacts'
  BY HandsNow, HandsNext
<1>2. Stored' = Stored /\ Stored \in Nat
  BY DEF Stored
<1>3. CASE \E g \in Guests : pc[g] = "discard"
  <2>1. PICK g \in Guests : pc[g] = "discard"
    BY <1>3
  <2>2. InHand = Stored + call[g].n /\ InHand' = Stored' + call'[g].n
    BY <1>1, <2>1 DEF HandFacts
  <2>3. call[g].n \in Nat /\ call'[g] = call[g]
    BY <2>1 DEF ArgsOK
  <2> QED BY <1>2, <2>2, <2>3
<1>4. CASE \A g \in Guests : pc[g] # "discard"
  <2>1. InHand = Stored /\ InHand' = Stored'
    BY <1>1, <1>4 DEF HandFacts
  <2> QED BY <1>2, <2>1
<1> QED BY <1>3, <1>4

LEMMA HeldNat ==
  ASSUME NEW s, IsFiniteSet(s)
  PROVE  HeldBy(s) \in Nat
BY FS_Subset, FS_CardinalityType DEF HeldBy

\* The pool never holds more frames than it has.
FreeFacts == free \in Nat /\ InHand \in Nat => free \in 0..Pool

FiniteQueue == IsFiniteSet(Queued)

LEMMA FreeNow == IdsOK /\ FiniteQueue /\ FramesAccounted => FreeFacts
<1> SUFFICES ASSUME IdsOK, FiniteQueue, FramesAccounted, free \in Nat, InHand \in Nat
             PROVE  free \in 0..Pool
  BY DEF FreeFacts
<1> DEFINE a == HeldBy(Queued)
           b == HeldBy(cpu)
           c == HeldBy(cancelled)
           h == InHand
<1>1. a \in Nat /\ b \in Nat /\ c \in Nat /\ h \in Nat /\ free \in Nat /\ Pool \in Nat
  BY HeldNat, FlipAssumption DEF IdsOK, FiniteQueue
<1>2. free + a + b + c + h = Pool
  BY DEF FramesAccounted
<1> HIDE DEF a, b, c, h
<1>3. free + a + b + c + h = free + (a + b + c + h) /\ a + b + c + h \in Nat
  BY <1>1
<1> QED BY <1>1, <1>2, <1>3

LEMMA FreeNext == IdsOK' /\ FiniteQueue' /\ FramesAccounted' => FreeFacts'
BY FreeNow, PTL

-----------------------------------------------------------------------------
(* Steps that leave the lists alone                                        *)

\* Whatever step leaves the lists alone keeps what is said of them.
LEMMA QuietKept ==
  ASSUME IInv, SameLists, nextId' = nextId, failed' \notin Internal, NEW x
  PROVE  IdsOK' /\ StatesOK' /\ QueueStaysConsistent' /\ Keeps(x) /\ Keeps(0)
<1>1. QueueStaysConsistent'
  BY DEF QueueStaysConsistent
<1> QED BY <1>1, ListsKept DEF IInv

\* The parts of the state that no call of a guest thread touches.
NotGuest == UNCHANGED <<processing, eop, packet, front, nextId>>

LEMMA ZeroIsNoFlip ==
  ASSUME IInv
  PROVE  0 \notin Sent \union ToSet(jobs) /\ 0 \notin ToSet(eop) /\ (Busy => Me # 0)
<1>1. 0 \notin Sent
  BY FlipAssumption DEF IInv, ArgsOK, Sent
<1>2. 0 \notin ToSet(jobs) /\ 0 \notin ToSet(eop)
  <2>1. jobs \in Seq(1..ReqMax) /\ eop \in Seq(1..ReqMax) /\ 0 \notin 1..ReqMax
    BY FlipAssumption DEF IInv, TypeOK
  <2> QED BY <2>1, SeqIsFinite
<1>3. Busy => Me # 0
  BY FlipAssumption DEF IInv, ArgsOK
<1> QED BY <1>1, <1>2, <1>3

\* The GPU thread, its completions and the flips in hand, when nobody
\* hands over a flip.
LEMMA StagesQuiet ==
  ASSUME IInv, Keeps(0), SameSent, jobs' = jobs
  PROVE  /\ JobsOK' /\ Sent' = Sent
         /\ eop' = eop => EopOK'
         /\ eop' = eop /\ packet' = packet /\ pc'[Gpu] = pc[Gpu] => PacketOK'
<1>1. JobsOK' /\ Sent' = Sent
  BY ZeroIsNoFlip, JobsKept DEF IInv
<1>2. eop' = eop => EopOK'
  BY ZeroIsNoFlip, EopKept DEF IInv
<1>3. ASSUME eop' = eop, packet' = packet, pc'[Gpu] = pc[Gpu] PROVE PacketOK'
  <2>1. Busy => Me \notin (Sent \union ToSet(jobs) \union ToSet(eop))'
    BY <1>1, <1>3 DEF IInv, PacketOK
  <2>2. Busy => Me # 0
    BY ZeroIsNoFlip
  <2> QED BY <1>3, <2>1, <2>2, PacketKept DEF IInv
<1> QED BY <1>1, <1>2, <1>3

\* A call that is begun, asleep or at its end.
LEMMA GuestQuiet ==
  ASSUME IInv, TypeOK', ArgsOK', NEW g \in Guests, NEW where \in GuestPcs, Go(g, where),
         SameLists, NotGuest, UNCHANGED <<opened, closing, gen, pending, gc, free, jobs>>,
         failed' \notin Internal,
         \A h \in Guests : h # g => call'[h] = call[h],
         {pc[g], where} \subseteq {"free", "got"}, where = "got" => opened, BoundOK'
  PROVE  IInv'
<1>1. PcsOK' /\ Goes(g, where) /\ pc'[Gpu] = pc[Gpu] /\ pc'[Present] = pc[Present]
  BY PcsFacts, GuestGoes DEF IInv
<1>2. pc'[g] = where /\ \A h \in Guests : h # g => pc'[h] = pc[h]
  BY <1>1, ThreadFacts DEF Goes
<1>3. IdsOK' /\ StatesOK' /\ QueueStaysConsistent' /\ Keeps(0)
  BY QuietKept DEF NotGuest
<1>4. SameSent
  BY <1>2 DEF SameSent
<1>5. JobsOK' /\ EopOK' /\ PacketOK'
  BY <1>1, <1>3, <1>4, StagesQuiet DEF NotGuest
<1>6. PresentOK'
  BY <1>1, SameListsFront, PresentKept DEF NotGuest, IInv
<1>7. PortOK'
  BY <1>1, <1>2, QuietPortKept DEF IInv, SameClosing, NotGuest
<1>8. StatusExact'
  BY StatusQuiet DEF IInv
<1>9. FramesAccounted'
  <2>1. InHand' = InHand /\ InHand \in Nat
    BY <1>1, <1>2, <1>7, HandsQuiet DEF IInv
  <2> QED BY <2>1, FramesQuiet DEF IInv, TypeOK
<1> QED BY <1>3, <1>5, <1>6, <1>7, <1>8, <1>9 DEF IInv

LEMMA EndsFacts ==
  ASSUME TypeOK, ArgsOK, NEW g \in Guests, Ends(g)
  PROVE  /\ Go(g, "free") /\ PcsOK' /\ ArgsOK' /\ packet' = packet /\ front' = front
         /\ \A h \in Guests : h # g => call'[h] = call[h]
<1>1. /\ Go(g, "free") /\ packet' = packet /\ front' = front
      /\ call' = [call EXCEPT ![g] = NoCall]
  BY DEF Ends
<1>2. PcsOK'
  BY <1>1, PcsFacts, GuestGoes DEF GuestPcs
<1>3. NoCall \in AnyCall /\ "free" \in GuestPcs
  BY CallFacts DEF GuestPcs
<1>4. ArgsOK' /\ \A h \in Guests : h # g => call'[h] = call[h]
  BY <1>1, <1>3, GuestArgs
<1> QED BY <1>1, <1>2, <1>4

\* A thread that no longer asks for a flip, and none that begins to.
LEMMA AskingShrinks ==
  ASSUME IInv, nextId' = nextId,
         \A g \in Guests : pc'[g] = "got" => pc[g] = "got" /\ call'[g] = call[g],
         pc'[Gpu] \in {"get", "reserve", "slot"} => pc[Gpu] \in {"get", "reserve", "slot"}
  PROVE  BoundOK'
<1>1. Asking' \subseteq Asking
  BY DEF Asking
<1> QED BY <1>1, BoundKept DEF IInv

\* A call ends and leaves nothing but another flip rate or buffers.
LEMMA CallEnds ==
  ASSUME IInv, NEW g \in Guests, pc[g] = "got", Ends(g),
         SameLists, NotGuest,
         UNCHANGED <<opened, closing, gen, count, pending, gc, free, jobs, sleep, shown, failed>>,
         rate' \in 0..2, registered' \in BOOLEAN
  PROVE  IInv'
<1>1. TypeOK /\ ArgsOK /\ QueueStaysConsistent
  BY DEF IInv
<1>2. /\ Go(g, "free") /\ PcsOK' /\ ArgsOK'
      /\ \A h \in Guests : h # g => call'[h] = call[h]
  BY <1>1, EndsFacts
<1>3. TypeOK'
  BY <1>1, <1>2 DEF TypeOK, PcsOK, NotGuest, SameLists, sleep
<1>4. /\ pc'[Gpu] = pc[Gpu] /\ "free" \in GuestPcs
      /\ pc'[g] = "free" /\ \A h \in Guests : h # g => pc'[h] = pc[h]
  BY <1>1, <1>2, PcsFacts, GuestGoes, ThreadFacts DEF Goes, GuestPcs
<1>5. BoundOK'
  BY <1>2, <1>4, AskingShrinks DEF NotGuest
<1>6. failed' \notin Internal
  BY <1>1 DEF QueueStaysConsistent
<1> QED BY <1>2, <1>3, <1>4, <1>5, <1>6, GuestQuiet

LEMMA SetFlipRateKeeps ==
  ASSUME IInv, NEW g \in Guests, SetFlipRate(g)
  PROVE  IInv'
<1>1. call[g].n \in 0..2
  <2>1. call[g] \in Calls /\ call[g].op = "rate"
    BY DEF IInv, ArgsOK, SetFlipRate
  <2>2. call[g].n \in Rates
    BY <2>1 DEF Calls
  <2> QED BY <2>2, FlipAssumption
<1>2. /\ pc[g] = "got" /\ Ends(g) /\ SameLists /\ NotGuest
      /\ UNCHANGED <<opened, closing, gen, count, pending, gc, free, jobs, sleep, shown, failed>>
      /\ rate' \in 0..2 /\ registered' = registered
  BY <1>1 DEF SetFlipRate, lists, work, Ends, SameLists, NotGuest
<1>3. registered' \in BOOLEAN
  BY <1>2 DEF IInv, TypeOK
<1> QED BY <1>2, <1>3, CallEnds

LEMMA ChangeBuffersKeeps ==
  ASSUME IInv, NEW g \in Guests, ChangeBuffers(g)
  PROVE  IInv'
<1>1. /\ pc[g] = "got" /\ Ends(g) /\ SameLists /\ NotGuest
      /\ UNCHANGED <<opened, closing, gen, count, pending, gc, free, jobs, sleep, shown, failed>>
      /\ rate' = rate
      /\ registered' = IF closing THEN registered ELSE call[g].op = "register"
  BY DEF ChangeBuffers, lists, work, Ends, SameLists, NotGuest
<1>2. rate' \in 0..2 /\ registered \in BOOLEAN
  BY <1>1 DEF IInv, TypeOK
<1>3. registered' \in BOOLEAN
  <2>1. CASE closing
    BY <1>1, <1>2, <2>1
  <2>2. CASE ~closing
    <3>1. registered' = (call[g].op = "register")
      BY <1>1, <2>2, Zenon
    <3> QED BY <3>1, Zenon
  <2> QED BY <2>1, <2>2
<1> QED BY <1>1, <1>2, <1>3, CallEnds

\* A thread goes to sleep, or the guest has reached an EXIT of its own.
LEMMA OnlySleep ==
  ASSUME IInv, UNCHANGED <<port, lists, free, work, pc, arg, nextId, shown>>,
         doneWait' \subseteq Threads, slotWait' \subseteq {Gpu},
         failed' \in {"none"} \union OfGuest
  PROVE  IInv'
<1>1. failed' \notin Internal /\ failed' \in {"none"} \union Internal \union OfGuest
  BY DEF Internal, OfGuest
<1>2. TypeOK'
  BY <1>1 DEF IInv, TypeOK, port, lists, work, arg
<1>3. ArgsOK'
  BY DEF IInv, ArgsOK, arg, Me, Busy
<1>4. SameLists /\ nextId' = nextId /\ UNCHANGED <<processing, eop, jobs, packet, front, call, free>>
      /\ UNCHANGED <<opened, closing, gen, pending, gc>>
  BY DEF SameLists, lists, work, arg, port
<1>5. IdsOK' /\ StatesOK' /\ QueueStaysConsistent' /\ Keeps(0)
  BY <1>1, <1>4, QuietKept
<1>6. JobsOK' /\ EopOK' /\ PacketOK'
  BY <1>4, <1>5, StagesQuiet DEF SameSent
<1>7. PresentOK'
  BY <1>4, SameListsFront, PresentKept DEF IInv
<1>8. PortOK'
  BY <1>4, QuietPortKept DEF IInv, SameClosing, PortOK
<1>9. StatusExact' /\ BoundOK'
  BY <1>4, StatusQuiet, BoundKept DEF IInv, Asking
<1>10. FramesAccounted'
  <2>1. InHand' = InHand /\ InHand \in Nat
    BY <1>4, <1>8, HandsQuiet DEF IInv
  <2> QED BY <2>1, <1>4, FramesQuiet DEF IInv, TypeOK
<1> QED BY <1>2, <1>3, <1>5, <1>6, <1>7, <1>8, <1>9, <1>10 DEF IInv

LEMMA FailKeeps ==
  ASSUME IInv, NEW reason \in OfGuest, Fail(reason)
  PROVE  IInv'
BY OnlySleep DEF Fail, sleep, IInv, TypeOK

LEMMA CancelWaitsKeeps ==
  ASSUME IInv, failed = "none", NEW g \in Guests, CancelWaits(g)
  PROVE  IInv'
BY OnlySleep, ThreadFacts DEF CancelWaits, IInv, TypeOK

\* The bound leaves a number for the flip that is asked for.
LEMMA AskingGrows ==
  ASSUME IInv, MoreFlips, nextId' = nextId, NEW t, Asking' \subseteq Asking \union {t}
  PROVE  BoundOK'
<1>1. nextId + Cardinality(Asking) <= ReqMax
  BY DEF MoreFlips, Asking
<1>2. IsFiniteSet(Asking)
  <2>1. Asking \subseteq Guests \union {Gpu}
    BY DEF Asking
  <2>2. IsFiniteSet(Guests \union {Gpu})
    BY ThreadFacts, FS_AddElement
  <2> QED BY <2>1, <2>2, FS_Subset
<1>3. /\ IsFiniteSet(Asking \union {t})
      /\ Cardinality(Asking \union {t}) = Cardinality(Asking)
         \/ Cardinality(Asking \union {t}) = Cardinality(Asking) + 1
  BY <1>2, FS_AddElement
<1>4. IsFiniteSet(Asking') /\ Cardinality(Asking') <= Cardinality(Asking \union {t})
  BY <1>3, FS_Subset
<1>5. Cardinality(Asking') \in Nat /\ Cardinality(Asking) \in Nat
  BY <1>2, <1>4, FS_CardinalityType
<1>6. nextId \in Nat /\ ReqMax \in Nat
  BY FlipAssumption DEF IInv, TypeOK
<1> QED BY <1>1, <1>3, <1>4, <1>5, <1>6 DEF BoundOK

LEMMA GetKeeps ==
  ASSUME IInv, failed = "none", NEW g \in Guests, NEW c \in Calls, Get(g, c)
  PROVE  IInv'
<1>1. /\ pc[g] = "free" /\ opened /\ (c.op = "flip" => MoreFlips)
      /\ Go(g, "got") /\ call' = [call EXCEPT ![g] = c] /\ packet' = packet /\ front' = front
      /\ UNCHANGED <<port, lists, sleep, free, work, nextId, shown, failed>>
  BY DEF Get
<1>2. SameLists /\ NotGuest /\ UNCHANGED <<opened, closing, gen, pending, gc, free, jobs>>
      /\ UNCHANGED <<rate, count, registered, shown, failed, doneWait, slotWait>>
  BY <1>1 DEF SameLists, NotGuest, port, lists, work, sleep
<1>3. "got" \in GuestPcs /\ c \in AnyCall
  BY CallFacts DEF GuestPcs
<1>4. PcsOK' /\ Goes(g, "got") /\ pc'[Gpu] = pc[Gpu]
  BY <1>1, <1>3, PcsFacts, GuestGoes DEF IInv
<1>5. ArgsOK' /\ call'[g] = c /\ \A h \in Guests : h # g => call'[h] = call[h]
  BY <1>1, <1>3, GuestArgs DEF IInv
<1>6. TypeOK'
  BY <1>2, <1>4 DEF IInv, TypeOK, PcsOK, SameLists, NotGuest
<1>7. BoundOK'
  <2>1. \A h \in Guests : h # g => pc'[h] = pc[h]
    BY <1>4, ThreadFacts DEF Goes
  <2>2. CASE c.op = "flip"
    <3>1. Asking' \subseteq Asking \union {g}
      BY <1>4, <1>5, <2>1 DEF Asking
    <3> QED BY <1>1, <1>2, <2>2, <3>1, AskingGrows DEF NotGuest
  <2>3. CASE c.op # "flip"
    <3>1. Asking' \subseteq Asking
      BY <1>4, <1>5, <2>1, <2>3 DEF Asking
    <3> QED BY <1>2, <3>1, BoundKept DEF IInv, NotGuest
  <2> QED BY <2>2, <2>3
<1>8. failed' \notin Internal
  BY <1>2 DEF Internal
<1> QED BY <1>1, <1>2, <1>3, <1>5, <1>6, <1>7, <1>8, GuestQuiet

LEMMA CloseReturnsKeeps ==
  ASSUME IInv, failed = "none", NEW g \in Guests, CloseReturns(g)
  PROVE  IInv'
<1>1. /\ pc[g] = "discard" /\ free' = free + call[g].n /\ pending' = 0 /\ gc' = 0 /\ Ends(g)
      /\ SameLists /\ NotGuest /\ UNCHANGED <<opened, closing, gen, jobs>>
      /\ UNCHANGED <<rate, count, registered, shown, failed, doneWait, slotWait>>
  BY DEF CloseReturns, SameLists, NotGuest, lists, work, sleep, Ends
<1>2. /\ Go(g, "free") /\ PcsOK' /\ ArgsOK'
      /\ \A h \in Guests : h # g => call'[h] = call[h]
  BY <1>1, EndsFacts DEF IInv
<1>3. /\ pc'[Gpu] = pc[Gpu] /\ pc'[Present] = pc[Present]
      /\ pc'[g] = "free" /\ \A h \in Guests : h # g => pc'[h] = pc[h]
  BY <1>2, PcsFacts, GuestGoes, ThreadFacts DEF Goes, GuestPcs, IInv
<1>4. failed' \notin Internal
  BY <1>1 DEF Internal
<1>5. IdsOK' /\ StatesOK' /\ QueueStaysConsistent' /\ Keeps(0)
  BY <1>1, <1>4, QuietKept DEF NotGuest
<1>6. JobsOK' /\ EopOK' /\ PacketOK'
  <2>1. SameSent
    BY <1>1, <1>2, <1>3 DEF SameSent
  <2> QED BY <1>1, <1>3, <1>5, <2>1, StagesQuiet DEF NotGuest
<1>7. PresentOK'
  BY <1>1, <1>3, SameListsFront, PresentKept DEF NotGuest, IInv
<1>8. closing /\ ~opened
  BY <1>1 DEF IInv, PortOK
<1>9. PortOK'
  BY <1>1, <1>3, <1>8, QuietPortKept DEF IInv, SameClosing, NotGuest
<1>10. StatusExact'
  BY <1>1, <1>8 DEF StatusExact
<1>11. BoundOK'
  BY <1>1, <1>2, <1>3, AskingShrinks DEF NotGuest
<1>12. FramesAccounted' /\ free' \in 0..Pool
  <2>1. HandFacts /\ HandFacts'
    BY <1>9, HandsNow, HandsNext DEF IInv
  <2>2. InHand = Stored + call[g].n
    BY <1>1, <2>1 DEF HandFacts
  <2>3. \A h \in Guests : pc'[h] # "discard"
    BY <1>1, <1>3 DEF IInv, PortOK
  <2>4. InHand' = Stored'
    BY <2>1, <2>3 DEF HandFacts
  <2>5. Stored' = Stored /\ Stored \in Nat
    BY <1>3 DEF Stored
  <2>6. call[g].n \in Nat /\ free \in Nat
    BY <1>1 DEF IInv, ArgsOK, TypeOK
  <2>7. FramesAccounted'
    BY <1>1, <2>2, <2>4, <2>5, <2>6, FramesQuiet DEF IInv
  <2>8. free' \in 0..Pool
    <3>1. IsFiniteSet(Queued) /\ Queued' = Queued
      BY <1>1, QueuedFacts DEF IInv, SameLists, Queued
    <3>2. FreeFacts'
      BY <1>5, <2>7, <3>1, FreeNext DEF FiniteQueue
    <3> QED BY <1>1, <2>4, <2>5, <2>6, <3>2 DEF FreeFacts
  <2> QED BY <2>7, <2>8
<1>13. TypeOK'
  <2>1. 0 \in 0..Capacity
    BY FlipAssumption
  <2> QED BY <1>1, <1>2, <1>12, <2>1 DEF IInv, TypeOK, PcsOK, SameLists, NotGuest
<1> QED BY <1>2, <1>5, <1>6, <1>7, <1>9, <1>10, <1>11, <1>12, <1>13 DEF IInv

LEMMA OpenKeeps ==
  ASSUME IInv, failed = "none", NEW g \in Guests, Open(g)
  PROVE  IInv'
<1>1. CASE rate # 0
  BY <1>1, FailKeeps DEF Open, OfGuest
<1>2. SUFFICES ASSUME rate = 0 PROVE IInv'
  BY <1>1
<1>3. /\ pc[g] = "free" /\ DriverFree /\ PortFree /\ ~opened /\ gen < GenMax
      /\ opened' = TRUE /\ closing' = FALSE /\ gen' = gen + 1
      /\ pending' = 0 /\ gc' = 0 /\ count' = 0 /\ SameLists
      /\ UNCHANGED <<rate, registered, processing, doneWait, slotWait, free, jobs, eop, pc, call,
                     packet, front, nextId, shown, failed>>
  BY <1>2 DEF Open, lists, sleep, work, arg, SameLists
<1>4. failed' \notin Internal
  BY <1>3 DEF Internal
<1>5. requests = <<>> /\ cpu = {}
  BY <1>3 DEF IInv, PortOK, DriverFree
<1>6. IdsOK' /\ StatesOK' /\ QueueStaysConsistent' /\ Keeps(0)
  BY <1>3, <1>4, QuietKept
<1>7. JobsOK' /\ EopOK' /\ PacketOK' /\ BoundOK' /\ ArgsOK'
  <2>1. SameSent
    BY <1>3 DEF SameSent
  <2>2. JobsOK' /\ EopOK' /\ PacketOK'
    BY <1>3, <1>6, <2>1, StagesQuiet
  <2>3. BoundOK'
    BY <1>3 DEF IInv, BoundOK, Asking
  <2>4. ArgsOK'
    BY <1>3 DEF IInv, ArgsOK, Busy, Me
  <2> QED BY <2>2, <2>3, <2>4
<1>8. PresentOK'
  BY <1>3, SameListsFront, PresentKept DEF IInv, PortFree
<1>9. PortOK'
  <2>1. Queued' = {} /\ cpu' = {} /\ requests' = <<>> /\ Total' = Total
    BY <1>3, <1>5 DEF SameLists, Queued, ToSet, Total
  <2>2. \A h \in Guests : pc'[h] \notin {"cancel", "discard"}
    BY <1>3 DEF DriverFree
  <2>3. ~(Me \in Ids(Queued))'
    BY <2>1 DEF Ids
  <2> QED BY <1>3, <2>1, <2>2, <2>3 DEF PortOK, IInv
<1>10. StatusExact'
  <2>1. Queued' = {} /\ cpu' = {} /\ requests' = <<>>
    BY <1>3, <1>5 DEF SameLists, Queued, ToSet
  <2>2. {r \in Queued' : r.source = "GpuEop"} = {} /\ Len(requests') = 0
    BY <2>1
  <2>3. Cardinality({}) = 0
    BY FS_EmptySet
  <2> QED BY <1>3, <2>1, <2>2, <2>3 DEF StatusExact, Total
<1>11. FramesAccounted'
  <2>1. InHand' = InHand /\ InHand \in Nat
    BY <1>3, <1>9, HandsQuiet DEF IInv
  <2> QED BY <1>3, <2>1, FramesQuiet DEF IInv, TypeOK
<1>12. TypeOK'
  <2>1. 0 \in 0..Capacity /\ 0 \in 0..(Cycle - 1)
    BY FlipAssumption
  <2>2. gen' \in 0..GenMax
    BY <1>3, FlipAssumption DEF IInv, TypeOK
  <2> QED BY <1>3, <2>1, <2>2 DEF IInv, TypeOK, SameLists
<1> QED BY <1>6, <1>7, <1>8, <1>9, <1>10, <1>11, <1>12 DEF IInv

LEMMA CloseKeeps ==
  ASSUME IInv, failed = "none", NEW g \in Guests, Close(g)
  PROVE  IInv'
<1>1. /\ pc[g] = "free" /\ DriverFree /\ PortFree /\ opened /\ gen < GenMax
      /\ opened' = FALSE /\ closing' = TRUE /\ gen' = gen + 1
      /\ rate' = 0 /\ registered' = FALSE /\ Go(g, "cancel") /\ SameLists
      /\ UNCHANGED <<count, pending, gc, processing, doneWait, slotWait, free, jobs, eop, call,
                     packet, front, nextId, shown, failed>>
  BY DEF Close, lists, sleep, work, arg, SameLists
<1>2. failed' \notin Internal /\ "cancel" \in GuestPcs
  BY <1>1 DEF Internal, GuestPcs
<1>3. /\ PcsOK' /\ pc'[Gpu] = pc[Gpu] /\ pc'[Present] = pc[Present]
      /\ pc'[g] = "cancel" /\ \A h \in Guests : h # g => pc'[h] = pc[h]
  BY <1>1, <1>2, PcsFacts, GuestGoes, ThreadFacts DEF Goes, IInv
<1>4. IdsOK' /\ StatesOK' /\ QueueStaysConsistent' /\ Keeps(0)
  BY <1>1, <1>2, QuietKept
<1>5. JobsOK' /\ EopOK' /\ PacketOK' /\ BoundOK'
  <2>1. SameSent
    BY <1>1, <1>3 DEF SameSent
  <2>2. BoundOK'
    BY <1>1, <1>3, AskingShrinks
  <2> QED BY <1>1, <1>3, <1>4, <2>1, <2>2, StagesQuiet
<1>6. ArgsOK'
  <2>1. \A h \in Guests : /\ pc'[h] = "got" => pc[h] = "got"
                          /\ pc'[h] = "submit" => pc[h] = "submit"
                          /\ pc'[h] = "discard" => pc[h] = "discard"
    BY <1>3
  <2>2. pc' \in [Threads -> GuestPcs \union GpuPcs \union PresentPcs]
    BY <1>3 DEF PcsOK
  <2> QED BY <1>1, <1>3, <2>1, <2>2 DEF IInv, ArgsOK, Busy, Me
<1>7. PresentOK'
  BY <1>1, <1>3, SameListsFront, PresentKept DEF IInv, PortFree
<1>8. PortOK'
  <2>1. Total' = Total
    BY <1>1 DEF SameLists, Total
  <2>2. \A h \in Guests : pc'[h] \in {"cancel", "discard"} => h = g
    BY <1>1, <1>3 DEF DriverFree
  <2> QED BY <1>1, <1>3, <2>1, <2>2 DEF PortOK, IInv
<1>9. StatusExact'
  BY <1>1 DEF StatusExact
<1>10. FramesAccounted'
  <2>1. \A h \in Guests : pc'[h] = "discard" <=> pc[h] = "discard"
    BY <1>1, <1>3
  <2>2. InHand' = InHand /\ InHand \in Nat
    BY <1>1, <1>3, <1>8, <2>1, HandsQuiet DEF IInv
  <2> QED BY <1>1, <2>2, FramesQuiet DEF IInv, TypeOK
<1>11. TypeOK'
  <2>1. gen' \in 0..GenMax /\ 0 \in 0..2
    BY <1>1, FlipAssumption DEF IInv, TypeOK
  <2> QED BY <1>1, <1>3, <2>1 DEF IInv, TypeOK, SameLists, PcsOK
<1> QED BY <1>4, <1>5, <1>6, <1>7, <1>8, <1>9, <1>10, <1>11 DEF IInv

-----------------------------------------------------------------------------
(* A request joins a list, leaves one, or is changed                       *)

EopsIn(s) == Cardinality({r \in s : r.source = "GpuEop"})

LEMMA HeldAdd ==
  ASSUME NEW s, IsFiniteSet(s), NEW r, r \notin s
  PROVE  /\ r.frame => HeldBy(s \union {r}) = HeldBy(s) + 1
         /\ ~r.frame => HeldBy(s \union {r}) = HeldBy(s)
         /\ HeldBy(s) \in Nat
<1> DEFINE h == {x \in s : x.frame}
           k == {x \in s \union {r} : x.frame}
<1>1. IsFiniteSet(h) /\ r \notin h
  BY FS_Subset
<1>2. ASSUME r.frame PROVE k = h \union {r}
  BY <1>2
<1>3. ASSUME ~r.frame PROVE k = h
  BY <1>3
<1>4. HeldBy(s) = Cardinality(h) /\ HeldBy(s \union {r}) = Cardinality(k)
  BY DEF HeldBy
<1> HIDE DEF h, k
<1>5. Cardinality(h \union {r}) = Cardinality(h) + 1 /\ Cardinality(h) \in Nat
  BY <1>1, FS_AddElement, FS_CardinalityType
<1> QED BY <1>2, <1>3, <1>4, <1>5

LEMMA EopsAdd ==
  ASSUME NEW s, IsFiniteSet(s), NEW r, r \notin s
  PROVE  /\ r.source = "GpuEop" => EopsIn(s \union {r}) = EopsIn(s) + 1
         /\ r.source # "GpuEop" => EopsIn(s \union {r}) = EopsIn(s)
         /\ EopsIn(s) \in Nat
<1> DEFINE h == {x \in s : x.source = "GpuEop"}
           k == {x \in s \union {r} : x.source = "GpuEop"}
<1>1. IsFiniteSet(h) /\ r \notin h
  BY FS_Subset
<1>2. ASSUME r.source = "GpuEop" PROVE k = h \union {r}
  BY <1>2
<1>3. ASSUME r.source # "GpuEop" PROVE k = h
  BY <1>3
<1>4. EopsIn(s) = Cardinality(h) /\ EopsIn(s \union {r}) = Cardinality(k)
  BY DEF EopsIn
<1> HIDE DEF h, k
<1>5. Cardinality(h \union {r}) = Cardinality(h) + 1 /\ Cardinality(h) \in Nat
  BY <1>1, FS_AddElement, FS_CardinalityType
<1> QED BY <1>2, <1>3, <1>4, <1>5

\* The same for a request that leaves, or gives way to another.
LEMMA CountsDrop ==
  ASSUME NEW s, IsFiniteSet(s), NEW r \in s
  PROVE  /\ IsFiniteSet(s \ {r})
         /\ r.frame => HeldBy(s) = HeldBy(s \ {r}) + 1
         /\ ~r.frame => HeldBy(s) = HeldBy(s \ {r})
         /\ r.source = "GpuEop" => EopsIn(s) = EopsIn(s \ {r}) + 1
         /\ r.source # "GpuEop" => EopsIn(s) = EopsIn(s \ {r})
         /\ HeldBy(s \ {r}) \in Nat /\ EopsIn(s \ {r}) \in Nat
<1>1. IsFiniteSet(s \ {r}) /\ r \notin s \ {r} /\ s = (s \ {r}) \union {r}
  BY FS_Subset
<1> QED BY <1>1, HeldAdd, EopsAdd

LEMMA CountsSwap ==
  ASSUME NEW s, IsFiniteSet(s), NEW r \in s, NEW n, n \notin s \ {r},
         n.source = r.source
  PROVE  /\ n.frame <=> r.frame => HeldBy((s \ {r}) \union {n}) = HeldBy(s)
         /\ n.frame /\ ~r.frame => HeldBy((s \ {r}) \union {n}) = HeldBy(s) + 1
         /\ EopsIn((s \ {r}) \union {n}) = EopsIn(s)
         /\ IsFiniteSet((s \ {r}) \union {n})
<1>1. IsFiniteSet(s \ {r}) /\ IsFiniteSet((s \ {r}) \union {n})
  BY FS_Subset, FS_AddElement
<1> DEFINE t == s \ {r}
           u == (s \ {r}) \union {n}
<1>2. /\ n.frame => HeldBy(u) = HeldBy(t) + 1
      /\ ~n.frame => HeldBy(u) = HeldBy(t)
      /\ n.source = "GpuEop" => EopsIn(u) = EopsIn(t) + 1
      /\ n.source # "GpuEop" => EopsIn(u) = EopsIn(t)
  BY <1>1, HeldAdd, EopsAdd
<1>3. /\ r.frame => HeldBy(s) = HeldBy(t) + 1
      /\ ~r.frame => HeldBy(s) = HeldBy(t)
      /\ r.source = "GpuEop" => EopsIn(s) = EopsIn(t) + 1
      /\ r.source # "GpuEop" => EopsIn(s) = EopsIn(t)
  BY CountsDrop
<1> HIDE DEF t, u
<1>4. /\ n.frame <=> r.frame => HeldBy(u) = HeldBy(s)
      /\ n.frame /\ ~r.frame => HeldBy(u) = HeldBy(s) + 1
      /\ EopsIn(u) = EopsIn(s)
  BY <1>2, <1>3
<1> QED BY <1>1, <1>4 DEF u

\* The queue holds no more flips of the GPU than it is long.
LEMMA EopsBounded ==
  ASSUME TypeOK, IdsOK
  PROVE  EopsIn(Queued) \in Nat /\ EopsIn(Queued) <= Len(requests)
<1>1. requests \in Seq(Request) /\ Len(requests) \in Nat
  BY DEF TypeOK
<1>2. requests \in Surjection(1..Len(requests), Queued)
  BY <1>1 DEF Surjection, Queued, ToSet
<1>3. IsFiniteSet(1..Len(requests)) /\ Cardinality(1..Len(requests)) = Len(requests)
  <2>1. 1 \in Int /\ Len(requests) \in Int
    BY <1>1
  <2>2. IsFiniteSet(1..Len(requests))
    BY <2>1, FS_Interval
  <2>3. Cardinality(1..Len(requests)) = IF 1 > Len(requests) THEN 0 ELSE Len(requests) - 1 + 1
    BY <2>1, FS_Interval
  <2> QED BY <1>1, <2>2, <2>3
<1>4. IsFiniteSet(Queued) /\ Cardinality(Queued) <= Len(requests)
  BY <1>2, <1>3, FS_Surjection
<1>5. EopsIn(Queued) <= Cardinality(Queued) /\ EopsIn(Queued) \in Nat /\ Cardinality(Queued) \in Nat
  <2>1. {r \in Queued : r.source = "GpuEop"} \subseteq Queued
    OBVIOUS
  <2> QED BY <1>4, <2>1, FS_Subset, FS_CardinalityType DEF EopsIn
<1> QED BY <1>1, <1>4, <1>5

\* Frames are counted anew: what leaves one place enters another.
InLists == HeldBy(Queued) + HeldBy(cpu) + HeldBy(cancelled)

LEMMA FramesMoved ==
  ASSUME FramesAccounted, IdsOK, IdsOK', FiniteQueue, FiniteQueue',
         free \in Nat, free' \in Nat, InHand \in Nat, InHand' \in Nat,
         (free' + InHand') + InLists' = (free + InHand) + InLists
  PROVE  FramesAccounted'
<1> DEFINE a == HeldBy(Queued)
           b == HeldBy(cpu)
           c == HeldBy(cancelled)
           h == InHand
           a2 == HeldBy(Queued)'
           b2 == HeldBy(cpu)'
           c2 == HeldBy(cancelled)'
           h2 == InHand'
<1>1. /\ a \in Nat /\ b \in Nat /\ c \in Nat /\ h \in Nat
      /\ a2 \in Nat /\ b2 \in Nat /\ c2 \in Nat /\ h2 \in Nat
  BY HeldNat DEF IdsOK, FiniteQueue
<1>2. free + a + b + c + h = Pool
  BY DEF FramesAccounted
<1>3. (free' + h2) + (a2 + b2 + c2) = (free + h) + (a + b + c)
  BY DEF InLists
<1> HIDE DEF a, b, c, h, a2, b2, c2, h2
<1>4. free + a + b + c + h = (free + h) + (a + b + c)
  BY <1>1
<1>5. free' + a2 + b2 + c2 + h2 = (free' + h2) + (a2 + b2 + c2)
  BY <1>1
<1>6. free' + a2 + b2 + c2 + h2 = Pool
  BY <1>2, <1>3, <1>4, <1>5
<1> QED BY <1>6 DEF FramesAccounted, a2, b2, c2, h2

NewFlip(index, source) ==
  [id |-> nextId, gen |-> gen, index |-> index, source |-> source,
   state |-> "Reserved", frame |-> FALSE]

\* What Reserve does to the lists and to what they say.
LEMMA ReserveFacts ==
  ASSUME IInv, NEW index \in Indices, NEW source \in {"Cpu", "GpuEop"},
         Reserve(index, source), opened, nextId <= ReqMax, failed' \notin Internal
  PROVE  /\ IdsOK' /\ StatesOK' /\ StatusExact' /\ QueueStaysConsistent' /\ FiniteQueue'
         /\ Keeps(0) /\ SameFront /\ (\A id : id = nextId => IsReserved(id)') /\ InLists' = InLists
         /\ requests' \in Seq(Request) /\ cpu' \subseteq Request
         /\ nextId' = nextId + 1 /\ nextId' \in 1..(ReqMax + 1)
         /\ pending' \in 0..Capacity /\ gc' \in 0..Capacity /\ Total' <= Capacity
         /\ \A r \in Queued' \union cpu' : r.gen = gen
         /\ \A id : id \in Ids(Queued') => id \in Ids(Queued) \/ id = nextId
<1> DEFINE r == NewFlip(index, source)
<1>1. /\ nextId' = nextId + 1 /\ pending' = Total + 1 /\ ~Full /\ cancelled' = cancelled
      /\ UNCHANGED <<opened, closing, gen, rate, count, registered, processing>>
      /\ \/ source = "GpuEop" /\ requests' = Append(requests, r) /\ gc' = gc + 1 /\ cpu' = cpu
         \/ source = "Cpu" /\ cpu' = cpu \union {r} /\ requests' = requests /\ gc' = gc
  BY DEF Reserve, NewFlip
<1>2. /\ r \in Request /\ r.id = nextId /\ r.gen = gen /\ r.source = source
      /\ r.state = "Reserved" /\ r.frame = FALSE
  <2>1. nextId \in 1..ReqMax /\ gen \in Nat
    BY FlipAssumption DEF IInv, TypeOK
  <2> QED BY <2>1 DEF NewFlip, Request
<1> HIDE DEF r
<1>3. r \notin Everything /\ \A x \in Everything : x.id \in Nat /\ x.id < nextId /\ x.id # nextId
  <2>1. Everything \subseteq Request
    BY QueuedFacts DEF IInv
  <2>2. \A x \in Everything : x.id \in 1..ReqMax
    BY <2>1, RequestFields
  <2>3. \A x \in Everything : x.id < nextId
    BY DEF IInv, IdsOK
  <2>4. \A x \in Everything : x.id \in Nat /\ x.id < nextId /\ x.id # nextId
    BY <2>2, <2>3 DEF IInv, TypeOK
  <2> QED BY <1>2, <2>4
<1>4. /\ requests \in Seq(Request) /\ Distinct(requests) /\ IsFiniteSet(Queued)
      /\ IsFiniteSet(cpu) /\ IsFiniteSet(cancelled) /\ Everything \subseteq Request
      /\ Len(requests) \in Nat
  BY QueuedFacts DEF IInv, IdsOK
<1>5. /\ cpu \subseteq Request /\ cancelled \subseteq Request /\ Queued \subseteq Request
      /\ Capacity \in Nat /\ ReqMax \in Nat /\ nextId \in Nat
  BY <1>4, FlipAssumption DEF IInv, TypeOK, Everything
<1>6. Total \in Nat /\ Total < Capacity /\ Len(requests) <= Total
  <2>1. Cardinality(cpu) \in Nat
    BY <1>4, FS_CardinalityType
  <2> QED BY <1>1, <1>4, <1>5, <2>1 DEF Full, Total
<1>7. ASSUME source = "GpuEop"
      PROVE  /\ IdsOK' /\ StatesOK' /\ StatusExact' /\ Keeps(0) /\ SameFront
             /\ (\A id : id = nextId => IsReserved(id)') /\ InLists' = InLists /\ IsFiniteSet(Queued')
             /\ requests' \in Seq(Request) /\ cpu' \subseteq Request
             /\ Total' = Total + 1 /\ gc' \in 0..Capacity
             /\ Queued' \union cpu' = Queued \union cpu \union {r}
             /\ Queued' \subseteq Queued \union {r}
  <2>1. requests' = Append(requests, r) /\ gc' = gc + 1 /\ cpu' = cpu
    BY <1>1, <1>7
  <2>2. /\ requests' \in Seq(Request) /\ Len(requests') = Len(requests) + 1
        /\ Queued' = Queued \union {r} /\ requests' # <<>>
        /\ requests # <<>> => Head(requests') = Head(requests)
    BY <1>2, <1>4, <2>1, AppendFacts DEF Queued
  <2>3. Everything' = Everything \union {r}
    BY <1>1, <2>1, <2>2 DEF Everything
  <2>4. (\A i, j \in DOMAIN requests : requests[i].id = requests[j].id => i = j)'
    <3>1. DOMAIN requests' = 1..(Len(requests) + 1) /\ DOMAIN requests = 1..Len(requests)
      BY <1>4, <2>2
    <3>2. \A i \in 1..Len(requests) : requests'[i] = requests[i] /\ requests[i].id < nextId
      <4>1. \A i \in 1..Len(requests) : requests'[i] = requests[i]
        BY <1>4, <1>2, <2>1
      <4>2. \A i \in 1..Len(requests) : requests[i] \in Everything
        BY <3>1 DEF Everything, Queued, ToSet
      <4> QED BY <1>3, <4>1, <4>2
    <3>3. requests'[Len(requests) + 1].id = nextId
      BY <1>4, <1>2, <2>1
    <3>4. \A i \in 1..Len(requests) : requests[i].id \in Nat
      <4>1. \A i \in 1..Len(requests) : requests[i] \in Everything
        BY <3>1 DEF Everything, Queued, ToSet
      <4> QED BY <1>3, <4>1
    <3>5. \A i, j \in 1..Len(requests) : requests[i].id = requests[j].id => i = j
      BY <3>1 DEF IInv, IdsOK
    <3>6. ASSUME NEW i \in 1..(Len(requests) + 1), NEW j \in 1..(Len(requests) + 1),
                 requests'[i].id = requests'[j].id
          PROVE  i = j
      <4>1. i \in 1..Len(requests) \/ i = Len(requests) + 1
        BY <1>4
      <4>2. j \in 1..Len(requests) \/ j = Len(requests) + 1
        BY <1>4
      <4> QED BY <1>5, <3>2, <3>3, <3>4, <3>5, <3>6, <4>1, <4>2
    <3> QED BY <3>1, <3>6
  <2>5. IdsOK'
    <3>1. (\A x, y \in Everything : x.id = y.id => x = y)'
      BY <1>2, <1>3, <2>3 DEF IInv, IdsOK
    <3>2. (Queued \intersect cpu = {} /\ Queued \intersect cancelled = {}
             /\ cpu \intersect cancelled = {})'
      BY <1>1, <1>3, <2>1, <2>2 DEF IInv, IdsOK, Everything
    <3>3. (\A x \in Everything : x.id < nextId)'
      BY <1>1, <1>2, <1>3, <1>5, <2>3
    <3>4. IsFiniteSet(cpu') /\ IsFiniteSet(cancelled')
      BY <1>1, <1>4, <2>1
    <3> QED BY <2>4, <3>1, <3>2, <3>3, <3>4 DEF IdsOK
  <2>6. StatesOK'
    BY <1>1, <1>2, <2>1, <2>2, <2>3 DEF IInv, StatesOK
  <2>7. Keeps(0) /\ SameFront /\ (\A id : id = nextId => IsReserved(id)')
    <3>1. Keeps(0)
      BY <1>2, <1>3, <2>2, <2>3 DEF Keeps
    <3>2. SameFront
      BY <1>2, <2>2 DEF SameFront
    <3>3. r \in Everything'
      BY <2>3
    <3>4. r.id = nextId /\ r.state = "Reserved"
      BY <1>2
    <3> QED BY <3>1, <3>2, <3>3, <3>4 DEF IsReserved
  <2>8. HeldBy(Queued') = HeldBy(Queued) /\ EopsIn(Queued') = EopsIn(Queued) + 1
        /\ IsFiniteSet(Queued')
    <3>1. r \notin Queued
      BY <1>3 DEF Everything
    <3>2. HeldBy(Queued \union {r}) = HeldBy(Queued)
      BY <1>2, <1>4, <3>1, HeldAdd
    <3>3. EopsIn(Queued \union {r}) = EopsIn(Queued) + 1
      BY <1>2, <1>4, <1>7, <3>1, EopsAdd
    <3> QED BY <1>4, <2>2, <3>2, <3>3, FS_AddElement
  <2>9. InLists' = InLists
    BY <1>1, <2>1, <2>8 DEF InLists
  <2>10. Total' = Total + 1
    <3>1. Cardinality(cpu) \in Nat
      BY <1>4, FS_CardinalityType
    <3> QED BY <1>4, <2>1, <2>2, <3>1 DEF Total
  <2>11. StatusExact' /\ gc' = EopsIn(Queued')
    <3>1. gc = EopsIn(Queued)
      BY DEF IInv, StatusExact, EopsIn
    <3>2. gc' = EopsIn(Queued')
      BY <2>1, <2>8, <3>1
    <3> QED BY <1>1, <2>10, <3>2 DEF StatusExact, EopsIn
  <2>12. gc' \in 0..Capacity
    <3>1. EopsIn(Queued) \in Nat /\ EopsIn(Queued) <= Len(requests)
      BY EopsBounded DEF IInv
    <3> QED BY <1>4, <1>5, <1>6, <2>8, <2>11, <3>1
  <2>13. /\ cpu' \subseteq Request /\ Queued' \subseteq Queued \union {r}
         /\ Queued' \union cpu' = Queued \union cpu \union {r}
    BY <1>5, <2>1, <2>2
  <2> QED BY <2>2, <2>5, <2>6, <2>7, <2>8, <2>9, <2>10, <2>11, <2>12, <2>13
<1>8. ASSUME source = "Cpu"
      PROVE  /\ IdsOK' /\ StatesOK' /\ StatusExact' /\ Keeps(0) /\ SameFront
             /\ (\A id : id = nextId => IsReserved(id)') /\ InLists' = InLists /\ IsFiniteSet(Queued')
             /\ requests' \in Seq(Request) /\ cpu' \subseteq Request
             /\ Total' = Total + 1 /\ gc' \in 0..Capacity
             /\ Queued' \union cpu' = Queued \union cpu \union {r}
             /\ Queued' \subseteq Queued \union {r}
  <2>1. cpu' = cpu \union {r} /\ requests' = requests /\ gc' = gc /\ Queued' = Queued
    BY <1>1, <1>8 DEF Queued
  <2>2. Everything' = Everything \union {r} /\ r \notin cpu /\ r \notin Queued /\ r \notin cancelled
    BY <1>1, <1>3, <2>1 DEF Everything
  <2>3. IdsOK'
    <3>1. (\A x, y \in Everything : x.id = y.id => x = y)'
      BY <1>2, <1>3, <2>2 DEF IInv, IdsOK
    <3>2. (Queued \intersect cpu = {} /\ Queued \intersect cancelled = {}
             /\ cpu \intersect cancelled = {})'
      BY <1>1, <2>1, <2>2 DEF IInv, IdsOK
    <3>3. (\A x \in Everything : x.id < nextId)'
      BY <1>1, <1>2, <1>3, <1>5, <2>2
    <3>4. IsFiniteSet(cpu') /\ IsFiniteSet(cancelled')
      BY <1>1, <1>4, <2>1, FS_AddElement
    <3>5. (\A i, j \in DOMAIN requests : requests[i].id = requests[j].id => i = j)'
      BY <2>1 DEF IInv, IdsOK
    <3> QED BY <3>1, <3>2, <3>3, <3>4, <3>5 DEF IdsOK
  <2>4. StatesOK'
    BY <1>1, <1>2, <1>8, <2>1, <2>2 DEF IInv, StatesOK
  <2>5. Keeps(0) /\ SameFront /\ (\A id : id = nextId => IsReserved(id)')
    <3>1. Keeps(0)
      BY <2>1, <2>2 DEF Keeps
    <3>2. SameFront
      BY <2>1 DEF SameFront
    <3>3. r \in Everything'
      BY <2>2
    <3>4. r.id = nextId /\ r.state = "Reserved"
      BY <1>2
    <3> QED BY <3>1, <3>2, <3>3, <3>4 DEF IsReserved
  <2>6. InLists' = InLists
    <3>1. HeldBy(cpu \union {r}) = HeldBy(cpu)
      BY <1>2, <1>4, <2>2, HeldAdd
    <3> QED BY <1>1, <2>1, <3>1 DEF InLists
  <2>7. Total' = Total + 1
    <3>1. Cardinality(cpu) \in Nat /\ Cardinality(cpu \union {r}) = Cardinality(cpu) + 1
      BY <1>4, <2>2, FS_AddElement, FS_CardinalityType
    <3> QED BY <1>4, <2>1, <3>1 DEF Total
  <2>8. StatusExact'
    BY <1>1, <2>1, <2>7 DEF StatusExact, IInv
  <2>9. /\ gc' \in 0..Capacity /\ cpu' \subseteq Request /\ requests' \in Seq(Request)
        /\ Queued' \union cpu' = Queued \union cpu \union {r} /\ Queued' \subseteq Queued \union {r}
    BY <1>2, <1>5, <2>1 DEF IInv, TypeOK
  <2> QED BY <1>4, <2>1, <2>3, <2>4, <2>5, <2>6, <2>7, <2>8, <2>9
<1> DEFINE Result ==
             /\ IdsOK' /\ StatesOK' /\ StatusExact' /\ Keeps(0) /\ SameFront
             /\ (\A id : id = nextId => IsReserved(id)') /\ InLists' = InLists /\ IsFiniteSet(Queued')
             /\ requests' \in Seq(Request) /\ cpu' \subseteq Request
             /\ Total' = Total + 1 /\ gc' \in 0..Capacity
             /\ Queued' \union cpu' = Queued \union cpu \union {r}
             /\ Queued' \subseteq Queued \union {r}
<1>9. Result
  BY <1>7, <1>8
<1>10. /\ nextId' \in 1..(ReqMax + 1) /\ pending' \in 0..Capacity /\ Total' <= Capacity
  BY <1>1, <1>5, <1>6, <1>9 DEF IInv, TypeOK
<1>11. \A x \in Queued' \union cpu' : x.gen = gen
  BY <1>2, <1>9 DEF IInv, PortOK
<1>12. \A id : id \in Ids(Queued') => id \in Ids(Queued) \/ id = nextId
  BY <1>2, <1>9 DEF Ids
<1>13. QueueStaysConsistent' /\ FiniteQueue'
  BY <1>9 DEF QueueStaysConsistent, FiniteQueue
<1> QED BY <1>1, <1>9, <1>10, <1>11, <1>12, <1>13

-----------------------------------------------------------------------------
(* Reserving a flip                                                        *)

\* No flip that is under way has the next number.
LEMMA NextIsNew ==
  ASSUME IInv
  PROVE  /\ \A id \in Sent \union ToSet(jobs) \union ToSet(eop) : id # nextId
         /\ Busy => Me # nextId
<1>1. \A x \in Everything : x.id # nextId
  <2>1. Everything \subseteq Request
    BY QueuedFacts DEF IInv
  <2>2. \A x \in Everything : x.id \in 1..ReqMax
    BY <2>1, RequestFields
  <2>3. \A x \in Everything : x.id < nextId
    BY DEF IInv, IdsOK
  <2> QED BY <2>2, <2>3 DEF IInv, TypeOK
<1>2. ~IsReserved(nextId) /\ ~IsRecording(nextId) /\ ~IsRecorded(nextId)
  BY <1>1 DEF IsReserved, IsRecording, IsRecorded
<1>3. \A id \in Sent \union ToSet(jobs) \union ToSet(eop) : id # nextId
  BY <1>2 DEF IInv, JobsOK, EopOK
<1>4. Busy => Me # nextId
  BY <1>2 DEF IInv, PacketOK, Busy
<1> QED BY <1>3, <1>4

LEMMA AskingFalls ==
  ASSUME IInv, NEW t \in Asking
  PROVE  /\ nextId <= ReqMax
         /\ nextId' = nextId + 1 /\ Asking' \subseteq Asking \ {t} => BoundOK'
<1>1. IsFiniteSet(Asking)
  <2>1. Asking \subseteq Guests \union {Gpu}
    BY DEF Asking
  <2>2. IsFiniteSet(Guests \union {Gpu})
    BY ThreadFacts, FS_AddElement
  <2> QED BY <2>1, <2>2, FS_Subset
<1>2. /\ IsFiniteSet(Asking \ {t}) /\ Cardinality(Asking \ {t}) = Cardinality(Asking) - 1
      /\ Cardinality(Asking) \in Nat /\ Cardinality(Asking \ {t}) \in Nat
  BY <1>1, FS_RemoveElement, FS_CardinalityType
<1>3. nextId \in Nat /\ ReqMax \in Nat
  BY FlipAssumption DEF IInv, TypeOK
<1>4. nextId + Cardinality(Asking) <= ReqMax + 1
  BY DEF IInv, BoundOK
<1>5. nextId <= ReqMax
  BY <1>2, <1>3, <1>4
<1>6. ASSUME nextId' = nextId + 1, Asking' \subseteq Asking \ {t} PROVE BoundOK'
  <2>1. Cardinality(Asking') <= Cardinality(Asking \ {t}) /\ Cardinality(Asking') \in Nat
    BY <1>2, <1>6, FS_Subset, FS_CardinalityType
  <2> QED BY <1>2, <1>3, <1>4, <1>6, <2>1 DEF BoundOK
<1> QED BY <1>5, <1>6

\* A flip that is accepted finds its port open.
LEMMA AcceptedIsOpen ==
  ASSUME PortOK, NEW index, Acceptable(index),
         pc[Gpu] = "reserve" \/ \E g \in Guests : pc[g] = "got"
  PROVE  opened
BY DEF PortOK, Acceptable

LEMMA SubmitFlipKeeps ==
  ASSUME IInv, failed = "none", NEW g \in Guests, SubmitFlip(g)
  PROVE  IInv'
<1> DEFINE index == call[g].index
<1>1. /\ pc[g] = "got" /\ call[g].op = "flip" /\ PortFree
      /\ UNCHANGED <<doneWait, slotWait, free, jobs, eop, shown, failed>>
      /\ \/ Ends(g) /\ UNCHANGED <<port, lists, nextId>>
         \/ /\ Acceptable(index) /\ Reserve(index, "Cpu") /\ Hands(g, nextId) /\ Go(g, "submit")
  BY DEF SubmitFlip, sleep, work
<1>2. CASE Ends(g) /\ UNCHANGED <<port, lists, nextId>>
  <2>1. /\ SameLists /\ NotGuest /\ UNCHANGED <<opened, closing, gen, count, pending, gc, free>>
        /\ UNCHANGED <<jobs, sleep, shown, failed>> /\ UNCHANGED <<rate, registered>>
    BY <1>1, <1>2 DEF SameLists, NotGuest, port, lists, sleep, Ends
  <2>2. rate' \in 0..2 /\ registered' \in BOOLEAN
    BY <2>1 DEF IInv, TypeOK
  <2> QED BY <1>1, <1>2, <2>1, <2>2, CallEnds
<1>3. SUFFICES ASSUME Acceptable(index), Reserve(index, "Cpu"), Hands(g, nextId), Go(g, "submit")
               PROVE  IInv'
  BY <1>1, <1>2
<1>4. g \in Asking /\ nextId <= ReqMax /\ opened /\ index \in Indices
  <2>1. g \in Asking
    BY <1>1 DEF Asking
  <2>2. call[g] \in Calls
    BY <1>1 DEF IInv, ArgsOK
  <2>3. index \in Indices
    BY <1>1, <2>2 DEF Calls
  <2> QED BY <1>1, <1>3, <2>1, <2>3, AskingFalls, AcceptedIsOpen DEF IInv
<1>5. failed' \notin Internal
  BY <1>1 DEF Internal
<1>6. /\ IdsOK' /\ StatesOK' /\ StatusExact' /\ QueueStaysConsistent' /\ FiniteQueue'
      /\ Keeps(0) /\ SameFront /\ (\A id : id = nextId => IsReserved(id)') /\ InLists' = InLists
      /\ requests' \in Seq(Request) /\ cpu' \subseteq Request
      /\ nextId' = nextId + 1 /\ nextId' \in 1..(ReqMax + 1)
      /\ pending' \in 0..Capacity /\ gc' \in 0..Capacity /\ Total' <= Capacity
      /\ \A r \in Queued' \union cpu' : r.gen = gen
      /\ \A id : id \in Ids(Queued') => id \in Ids(Queued) \/ id = nextId
  BY <1>3, <1>4, <1>5, ReserveFacts
<1>7. UNCHANGED <<opened, closing, gen, rate, count, registered, cancelled, processing>>
  BY <1>3 DEF Reserve
<1>8. /\ PcsOK' /\ pc'[Gpu] = pc[Gpu] /\ pc'[Present] = pc[Present]
      /\ pc'[g] = "submit" /\ \A h \in Guests : h # g => pc'[h] = pc[h]
  BY <1>3, PcsFacts, GuestGoes, ThreadFacts DEF Goes, GuestPcs, IInv
<1>9. /\ ArgsOK' /\ call'[g].n = nextId /\ packet' = packet /\ front' = front
      /\ \A h \in Guests : h # g => call'[h] = call[h]
  <2> DEFINE c == [call[g] EXCEPT !.n = nextId]
  <2>1. call[g] \in AnyCall /\ call \in [Guests -> AnyCall]
    BY DEF IInv, ArgsOK, AnyCall
  <2>2. nextId \in Nat /\ nextId \in 1..ReqMax
    BY <1>4, FlipAssumption DEF IInv, TypeOK
  <2>3. c \in AnyCall /\ c.n = nextId
    BY <2>1, <2>2, CallFacts
  <2>4. call' = [call EXCEPT ![g] = c] /\ packet' = packet /\ front' = front
    BY <1>3, <2>1 DEF Hands
  <2> HIDE DEF c
  <2>5. ArgsOK' /\ call'[g] = c /\ \A h \in Guests : h # g => call'[h] = call[h]
    BY <1>3, <2>2, <2>3, <2>4, GuestArgs DEF IInv, GuestPcs
  <2> QED BY <2>3, <2>4, <2>5
<1>10. Sent' = Sent \union {nextId}
  <2>1. \A h \in Guests : h # g => (pc'[h] = "submit" <=> pc[h] = "submit")
                                   /\ call'[h] = call[h]
    BY <1>8, <1>9
  <2> QED BY <1>1, <1>8, <1>9, <2>1 DEF Sent
<1>11. JobsOK'
  <2>1. \A id \in Sent \union ToSet(jobs) : IsReserved(id)' /\ id # nextId
    BY <1>6, StagesKept, ZeroIsNoFlip, NextIsNew DEF IInv, JobsOK
  <2>2. ASSUME NEW a \in Guests, NEW b \in Guests, pc'[a] = "submit", pc'[b] = "submit",
               call'[a].n = call'[b].n
        PROVE  a = b
    <3>1. \A h \in Guests : pc[h] = "submit" => call[h].n # nextId
      BY <2>1 DEF Sent
    <3> QED BY <1>1, <1>8, <1>9, <2>2, <3>1 DEF IInv, JobsOK
  <2>3. (\A i, j \in DOMAIN jobs : jobs[i] = jobs[j] => i = j)'
    BY <1>1 DEF IInv, JobsOK
  <2>4. (Sent \intersect ToSet(jobs) = {})'
    BY <1>1, <1>10, <2>1 DEF IInv, JobsOK
  <2>5. (\A id \in Sent \union ToSet(jobs) : IsReserved(id))'
    BY <1>1, <1>6, <1>10, <2>1
  <2> QED BY <2>2, <2>3, <2>4, <2>5 DEF JobsOK
<1>12. EopOK' /\ PacketOK'
  <2>1. EopOK'
    BY <1>1, <1>6, EopKept, ZeroIsNoFlip DEF IInv
  <2>2. Busy => Me \notin (Sent \union ToSet(jobs) \union ToSet(eop))'
    BY <1>1, <1>10, NextIsNew DEF IInv, PacketOK
  <2>3. PacketOK'
    BY <1>6, <1>8, <1>9, <2>2, PacketKept, ZeroIsNoFlip DEF IInv
  <2> QED BY <2>1, <2>3
<1>13. PresentOK'
  BY <1>6, <1>7, <1>8, <1>9, PresentKept DEF IInv
<1>14. PortOK'
  <2>1. SameClosing
    BY <1>1, <1>8 DEF SameClosing
  <2>2. ~(pc'[Gpu] = "cut" /\ packet'.id \in Ids(Queued'))
    <3>1. SUFFICES ASSUME pc[Gpu] = "cut", Me \in Ids(Queued') PROVE FALSE
      BY <1>8, <1>9 DEF Me
    <3>2. Me # nextId /\ Me \notin Ids(Queued)
      BY <1>4, <3>1, NextIsNew DEF Busy, IInv, PortOK
    <3> QED BY <1>6, <3>1, <3>2
  <2> QED BY <1>4, <1>6, <1>7, <2>1, <2>2, PortKept DEF IInv
<1>15. BoundOK'
  <2>1. Asking' \subseteq Asking \ {g}
    BY <1>8, <1>9, ThreadFacts DEF Asking
  <2> QED BY <1>4, <1>6, <2>1, AskingFalls
<1>16. FramesAccounted'
  <2>1. InHand' = InHand /\ InHand \in Nat
    BY <1>1, <1>8, <1>9, <1>14, HandsQuiet DEF IInv
  <2>2. FiniteQueue /\ free \in Nat
    BY QueuedFacts DEF IInv, FiniteQueue, TypeOK
  <2> QED BY <1>1, <1>6, <2>1, <2>2, FramesMoved DEF IInv
<1>17. TypeOK'
  BY <1>1, <1>6, <1>7, <1>8 DEF IInv, TypeOK, PcsOK
<1> QED BY <1>6, <1>9, <1>11, <1>12, <1>13, <1>14, <1>15, <1>16, <1>17 DEF IInv

LEMMA SubmitFlipPreparationKeeps ==
  ASSUME IInv, failed = "none", NEW g \in Guests, SubmitFlipPreparation(g)
  PROVE  IInv'
<1> DEFINE id == call[g].n
<1>1. /\ pc[g] = "submit" /\ jobs' = Append(jobs, id) /\ Ends(g)
      /\ SameLists /\ NotGuest /\ UNCHANGED <<opened, closing, gen, pending, gc, free>>
      /\ UNCHANGED <<rate, count, registered, shown, failed, doneWait, slotWait>>
  BY DEF SubmitFlipPreparation, SameLists, NotGuest, lists, sleep, port, Ends
<1>2. /\ Go(g, "free") /\ PcsOK' /\ ArgsOK'
      /\ \A h \in Guests : h # g => call'[h] = call[h]
  BY <1>1, EndsFacts DEF IInv
<1>3. /\ pc'[Gpu] = pc[Gpu] /\ pc'[Present] = pc[Present]
      /\ pc'[g] = "free" /\ \A h \in Guests : h # g => pc'[h] = pc[h]
  BY <1>2, PcsFacts, GuestGoes, ThreadFacts DEF Goes, GuestPcs, IInv
<1>4. failed' \notin Internal
  BY <1>1 DEF Internal
<1>5. IdsOK' /\ StatesOK' /\ QueueStaysConsistent' /\ Keeps(0)
  BY <1>1, <1>4, QuietKept DEF NotGuest
<1>6. id \in 1..ReqMax /\ id \in Sent /\ id \notin ToSet(jobs) /\ jobs \in Seq(1..ReqMax)
  BY <1>1 DEF IInv, ArgsOK, Sent, JobsOK, TypeOK
<1> HIDE DEF id
<1>7. /\ jobs' \in Seq(1..ReqMax) /\ ToSet(jobs') = ToSet(jobs) \union {id}
      /\ (\A i, j \in DOMAIN jobs : jobs[i] = jobs[j] => i = j)'
  <2>1. Distinct(jobs)
    BY DEF IInv, JobsOK, Distinct
  <2>2. jobs' \in Seq(1..ReqMax) /\ ToSet(jobs') = ToSet(jobs) \union {id} /\ Distinct(jobs')
    <3> DEFINE S == 1..ReqMax
    <3>1. jobs \in Seq(S) /\ id \in S /\ id \notin ToSet(jobs) /\ jobs' = Append(jobs, id)
      BY <1>1, <1>6
    <3> HIDE DEF S
    <3>2. jobs' \in Seq(S) /\ ToSet(jobs') = ToSet(jobs) \union {id} /\ Distinct(jobs')
      BY <2>1, <3>1, AppendFacts
    <3> QED BY <3>2 DEF S
  <2> QED BY <2>2 DEF Distinct
<1>8. Sent' = Sent \ {id}
  <2>1. \A h \in Guests : h # g => (pc'[h] = "submit" <=> pc[h] = "submit")
                                   /\ call'[h] = call[h]
    BY <1>2, <1>3
  <2>2. \A h \in Guests : h # g /\ pc[h] = "submit" => call[h].n # id
    BY <1>1 DEF IInv, JobsOK, id
  <2> QED BY <1>3, <2>1, <2>2 DEF Sent, id
<1>9. JobsOK'
  <2>1. \A a, b \in Guests :
          pc'[a] = "submit" /\ pc'[b] = "submit" /\ call'[a].n = call'[b].n => a = b
    BY <1>2, <1>3 DEF IInv, JobsOK
  <2>2. \A x \in Sent \union ToSet(jobs) : IsReserved(x)'
    BY <1>5, StagesKept, ZeroIsNoFlip DEF IInv, JobsOK
  <2>3. (\A x \in Sent \union ToSet(jobs) : IsReserved(x))'
    BY <1>6, <1>7, <1>8, <2>2
  <2>4. (Sent \intersect ToSet(jobs) = {})'
    BY <1>7, <1>8 DEF IInv, JobsOK
  <2> QED BY <1>7, <2>1, <2>3, <2>4 DEF JobsOK
<1>10. EopOK' /\ PacketOK'
  <2>1. EopOK'
    BY <1>1, <1>5, EopKept, ZeroIsNoFlip DEF IInv, NotGuest
  <2>2. Busy => Me \notin (Sent \union ToSet(jobs) \union ToSet(eop))'
    BY <1>1, <1>6, <1>7, <1>8 DEF IInv, PacketOK, NotGuest
  <2>3. PacketOK'
    BY <1>1, <1>3, <1>5, <2>2, PacketKept, ZeroIsNoFlip DEF IInv, NotGuest
  <2> QED BY <2>1, <2>3
<1>11. PresentOK'
  BY <1>1, <1>3, SameListsFront, PresentKept DEF NotGuest, IInv
<1>12. PortOK'
  BY <1>1, <1>3, QuietPortKept DEF IInv, SameClosing, NotGuest
<1>13. StatusExact'
  BY <1>1, StatusQuiet DEF IInv
<1>14. BoundOK'
  BY <1>1, <1>2, <1>3, AskingShrinks DEF NotGuest
<1>15. FramesAccounted'
  <2>1. InHand' = InHand /\ InHand \in Nat
    BY <1>1, <1>2, <1>3, <1>12, HandsQuiet DEF IInv
  <2> QED BY <1>1, <2>1, FramesQuiet DEF IInv, TypeOK
<1>16. TypeOK'
  BY <1>1, <1>2, <1>7 DEF IInv, TypeOK, PcsOK, SameLists, NotGuest
<1> QED BY <1>2, <1>5, <1>9, <1>10, <1>11, <1>12, <1>13, <1>14, <1>15, <1>16 DEF IInv

-----------------------------------------------------------------------------
(* Cancel                                                                  *)

LEMMA HeldUnion ==
  ASSUME NEW s, NEW t, IsFiniteSet(s), IsFiniteSet(t), s \intersect t = {}
  PROVE  /\ HeldBy(s \union t) = HeldBy(s) + HeldBy(t) /\ IsFiniteSet(s \union t)
         /\ HeldBy(s) \in Nat /\ HeldBy(t) \in Nat
<1> DEFINE a == {r \in s : r.frame}
           b == {r \in t : r.frame}
           c == {r \in s \union t : r.frame}
<1>1. IsFiniteSet(a) /\ IsFiniteSet(b) /\ a \intersect b = {} /\ c = a \union b
  BY FS_Subset
<1>2. HeldBy(s) = Cardinality(a) /\ HeldBy(t) = Cardinality(b) /\ HeldBy(s \union t) = Cardinality(c)
  BY DEF HeldBy
<1> HIDE DEF a, b, c
<1>3. Cardinality(a \union b) = Cardinality(a) + Cardinality(b) - Cardinality(a \intersect b)
  BY <1>1, FS_Union
<1>4. Cardinality(a \intersect b) = 0 /\ Cardinality(a) \in Nat /\ Cardinality(b) \in Nat
  BY <1>1, FS_EmptySet, FS_CardinalityType
<1>5. IsFiniteSet(s \union t)
  BY FS_Union
<1> QED BY <1>1, <1>2, <1>3, <1>4, <1>5

LEMMA CancelKeeps ==
  ASSUME IInv, failed = "none", NEW g \in Guests, Cancel(g)
  PROVE  IInv'
<1> DEFINE ready == {r \in Queued : r.state = "Ready"}
           kept  == Unfinished(Queued)
<1>1. pc[g] = "cancel" /\ ~(processing /\ requests # <<>>)
  BY DEF Cancel
<1>2. pc[Present] \notin {"due", "show", "pop"} /\ \A r \in Queued : r.state # "Presenting"
  BY <1>1 DEF IInv, PresentOK, IsFront
<1>3. /\ requests' = <<>> /\ cpu' = {}
      /\ cancelled' = cancelled \union Unfinished(Queued) \union Unfinished(cpu)
      /\ Hands(g, HeldBy(ready)) /\ doneWait' = {} /\ slotWait' = {} /\ Go(g, "discard")
      /\ UNCHANGED <<opened, closing, gen, rate, count, registered, pending, gc,
                     processing, free, jobs, eop, nextId, shown, failed>>
  BY <1>2 DEF Cancel, port, work
<1>4. /\ IsFiniteSet(Queued) /\ IsFiniteSet(cpu) /\ IsFiniteSet(cancelled)
      /\ Queued \subseteq Request /\ cpu \subseteq Request /\ cancelled \subseteq Request
      /\ Everything \subseteq Request
  BY QueuedFacts DEF IInv, IdsOK, TypeOK
<1>5. Unfinished(cpu) = cpu /\ ready \union kept = Queued /\ ready \intersect kept = {}
      /\ kept \subseteq Queued
  <2>1. \A r \in Queued : r.state \in {"Reserved", "Recording", "Ready"}
    <3>1. ASSUME NEW r \in Queued PROVE r.state \in {"Reserved", "Recording", "Ready"}
      <4>1. r \in Request /\ r.state # "Presenting"
        BY <1>2, <1>4
      <4> QED BY <4>1 DEF Request
    <3> QED BY <3>1
  <2>2. Unfinished(cpu) = cpu
    BY DEF IInv, StatesOK, Unfinished
  <2> QED BY <2>1, <2>2 DEF Unfinished
<1>6. cancelled' = cancelled \union kept \union cpu /\ Queued' = {}
      /\ Everything' = cancelled'
  BY <1>3, <1>5 DEF Queued, ToSet, Everything
<1>7. HeldBy(ready) \in Nat /\ IsFiniteSet(ready) /\ IsFiniteSet(kept)
  <2>1. IsFiniteSet(ready) /\ IsFiniteSet(kept)
    BY <1>4, <1>5, FS_Subset
  <2> QED BY <2>1, HeldNat
<1> HIDE DEF ready, kept
<1>8. failed' \notin Internal
  BY <1>3 DEF Internal
<1>9. /\ PcsOK' /\ pc'[Gpu] = pc[Gpu] /\ pc'[Present] = pc[Present]
      /\ pc'[g] = "discard" /\ \A h \in Guests : h # g => pc'[h] = pc[h]
  BY <1>3, PcsFacts, GuestGoes, ThreadFacts DEF Goes, GuestPcs, IInv
<1>10. /\ ArgsOK' /\ call'[g].n = HeldBy(ready) /\ packet' = packet /\ front' = front
       /\ \A h \in Guests : h # g => call'[h] = call[h]
  <2> DEFINE c == [call[g] EXCEPT !.n = HeldBy(ready)]
  <2>1. call[g] \in AnyCall /\ call \in [Guests -> AnyCall]
    BY DEF IInv, ArgsOK, AnyCall
  <2>2. c \in AnyCall /\ c.n = HeldBy(ready)
    BY <1>7, <2>1, CallFacts
  <2>3. call' = [call EXCEPT ![g] = c] /\ packet' = packet /\ front' = front
    BY <1>3, <2>1 DEF Hands
  <2> HIDE DEF c
  <2>4. ArgsOK' /\ call'[g] = c /\ \A h \in Guests : h # g => call'[h] = call[h]
    BY <1>3, <2>2, <2>3, GuestArgs DEF IInv, GuestPcs
  <2> QED BY <2>2, <2>3, <2>4
<1>11. Everything' \subseteq Everything
  BY <1>5, <1>6 DEF Everything
<1>12. IdsOK'
  <2>1. IsFiniteSet(cpu') /\ IsFiniteSet(cancelled')
    <3>1. IsFiniteSet(cancelled \union kept)
      BY <1>4, <1>7, FS_Union
    <3>2. IsFiniteSet((cancelled \union kept) \union cpu)
      BY <1>4, <3>1, FS_Union
    <3> QED BY <1>3, <1>6, <3>2, FS_EmptySet
  <2>2. (\A i, j \in DOMAIN requests : requests[i].id = requests[j].id => i = j)'
    BY <1>3
  <2>3. (\A r, s \in Everything : r.id = s.id => r = s)' /\ (\A r \in Everything : r.id < nextId)'
    BY <1>3, <1>11 DEF IInv, IdsOK
  <2> QED BY <1>3, <1>6, <2>1, <2>2, <2>3 DEF IdsOK
<1>13. StatesOK'
  <2>1. \A r \in kept : r.state \in {"Reserved", "Recording"}
    BY DEF kept, Unfinished
  <2>2. \A r \in cancelled' : r.state \in {"Reserved", "Recording"}
    BY <1>6, <2>1 DEF IInv, StatesOK
  <2>3. \A r \in Everything' : r.state = "Reserved" => ~r.frame
    BY <1>11 DEF IInv, StatesOK
  <2> QED BY <1>3, <1>6, <2>2, <2>3 DEF StatesOK
<1>14. Keeps(0)
  <2>1. \A r \in Queued : r.state \in {"Reserved", "Recording"} => r \in kept
    BY DEF kept, Unfinished
  <2> QED BY <1>6, <2>1 DEF Keeps, Everything
<1>15. JobsOK' /\ EopOK' /\ PacketOK'
  <2>1. SameSent
    BY <1>1, <1>9, <1>10 DEF SameSent
  <2> QED BY <1>3, <1>9, <1>10, <1>14, <2>1, StagesQuiet
<1>16. PresentOK'
  <2>1. processing' = processing
    BY <1>3
  <2> QED BY <1>2, <1>6, <1>9, <2>1 DEF IInv, PresentOK
<1>17. ~opened /\ closing
  BY <1>1 DEF IInv, PortOK
<1>18. PortOK'
  <2>1. \A h \in Guests : pc'[h] \in {"cancel", "discard"} => h = g
    BY <1>1, <1>9 DEF IInv, PortOK
  <2>2. (Total <= Capacity)'
    <3>1. Total' = 0
      <4>1. Len(requests') = 0 /\ Cardinality(cpu') = 0
        BY <1>3, FS_EmptySet
      <4> QED BY <4>1 DEF Total
    <3> QED BY <3>1, FlipAssumption
  <2> QED BY <1>3, <1>17, <2>1, <2>2 DEF PortOK
<1>19. StatusExact' /\ QueueStaysConsistent' /\ FiniteQueue'
  BY <1>3, <1>6, <1>8, <1>17, FS_EmptySet DEF StatusExact, QueueStaysConsistent, FiniteQueue
<1>20. BoundOK'
  BY <1>3, <1>9, <1>10, AskingShrinks
<1>21. FramesAccounted'
  <2>1. HandFacts /\ HandFacts'
    BY <1>18, HandsNow, HandsNext DEF IInv
  <2>2. InHand = Stored
    <3>1. \A h \in Guests : pc[h] # "discard"
      BY <1>1 DEF IInv, PortOK
    <3> QED BY <2>1, <3>1 DEF HandFacts
  <2>3. InHand' = Stored' + call'[g].n
    BY <1>9, <2>1 DEF HandFacts
  <2>4. Stored' = Stored /\ Stored \in Nat
    BY <1>9 DEF Stored
  <2>5. HeldBy(Queued) = HeldBy(ready) + HeldBy(kept)
    BY <1>5, <1>7, HeldUnion
  <2>6. HeldBy(cancelled') = HeldBy(cancelled) + HeldBy(kept) + HeldBy(cpu)
    <3>1. cancelled \intersect kept = {} /\ (cancelled \union kept) \intersect cpu = {}
      BY <1>5 DEF IInv, IdsOK
    <3>2. HeldBy(cancelled \union kept) = HeldBy(cancelled) + HeldBy(kept)
          /\ IsFiniteSet(cancelled \union kept)
      BY <1>4, <1>7, <3>1, HeldUnion
    <3>3. HeldBy((cancelled \union kept) \union cpu) = HeldBy(cancelled \union kept) + HeldBy(cpu)
      BY <1>4, <3>1, <3>2, HeldUnion
    <3> QED BY <1>6, <3>2, <3>3
  <2>7. HeldBy(Queued') = 0 /\ HeldBy(cpu') = 0
    BY <1>3, <1>6, FS_EmptySet DEF HeldBy
  <2>8. HeldBy(kept) \in Nat /\ HeldBy(cpu) \in Nat /\ HeldBy(cancelled) \in Nat /\ free \in Nat
    BY <1>4, <1>7, HeldNat DEF IInv, TypeOK
  <2>9. (free' + InHand') + InLists' = (free + InHand) + InLists
    <3> DEFINE a == HeldBy(ready)
               b == HeldBy(kept)
               c == HeldBy(cpu)
               d == HeldBy(cancelled)
               s == Stored
    <3>1. InLists = (a + b) + c + d /\ InLists' = 0 + 0 + (d + b + c)
      BY <1>6, <2>5, <2>6, <2>7 DEF InLists
    <3>2. free' = free /\ InHand = s /\ InHand' = s + a
      BY <1>3, <1>10, <2>2, <2>3, <2>4
    <3>3. a \in Nat /\ b \in Nat /\ c \in Nat /\ d \in Nat /\ s \in Nat /\ free \in Nat
      BY <1>7, <2>4, <2>8
    <3> HIDE DEF a, b, c, d, s
    <3>4. (free + (s + a)) + (0 + 0 + (d + b + c)) = (free + s) + ((a + b) + c + d)
      BY <3>3
    <3> QED BY <3>1, <3>2, <3>4
  <2>10. FiniteQueue /\ free' \in Nat /\ InHand \in Nat /\ InHand' \in Nat
    BY <1>3, <1>4, <1>7, <1>10, <2>2, <2>3, <2>4, <2>8 DEF FiniteQueue
  <2> QED BY <1>12, <1>19, <2>8, <2>9, <2>10, FramesMoved DEF IInv
<1>22. TypeOK'
  <2>1. cancelled' \subseteq Request
    BY <1>4, <1>5, <1>6
  <2>2. requests' \in Seq(Request)
    BY <1>3
  <2> QED BY <1>3, <1>9, <2>1, <2>2 DEF IInv, TypeOK, PcsOK
<1> QED BY <1>10, <1>12, <1>13, <1>15, <1>16, <1>18, <1>19, <1>20, <1>21, <1>22 DEF IInv

-----------------------------------------------------------------------------
(* Steps of the GPU thread that leave the lists alone                      *)

\* The parts of the state that the GPU thread's quiet steps leave alone.
NotGpu == UNCHANGED <<opened, closing, gen, pending, gc, processing, front, call, nextId>>

LEMMA GpuQuiet ==
  ASSUME IInv, TypeOK', ArgsOK', NEW where \in GpuPcs, Go(Gpu, where), SameLists, NotGpu,
         failed' \notin Internal, JobsOK', EopOK', PacketOK',
         where \notin {"idle", "get", "getwait"} => opened \/ closing,
         where = "cut" => ~(Me' \in Ids(Queued)) \/ ~opened,
         where \in {"get", "reserve", "slot"} => pc[Gpu] \in {"get", "reserve", "slot"}
                                                   \/ MoreFlips,
         free' + Stored' = free + Stored
  PROVE  IInv'
<1>1. /\ pc'[Gpu] = where /\ pc'[Present] = pc[Present] /\ \A g \in Guests : pc'[g] = pc[g]
  BY PcsFacts, GpuGoes DEF IInv, Goes
<1>2. IdsOK' /\ StatesOK' /\ QueueStaysConsistent' /\ Keeps(0)
  BY QuietKept DEF NotGpu
<1>3. PresentOK'
  BY <1>1, SameListsFront, PresentKept DEF IInv, NotGpu
<1>4. PortOK'
  <2>1. Queued' = Queued /\ Total' = Total /\ packet'.id = Me'
    BY DEF SameLists, Queued, Total, Me
  <2>2. SameClosing
    BY <1>1 DEF SameClosing
  <2>3. opened \/ closing \/ /\ nextId' = nextId /\ \A g \in Guests : pc'[g] = "free"
                             /\ pc'[Gpu] \in {"idle", "get", "getwait"}
    BY <1>1 DEF NotGpu, IInv, PortOK
  <2>4. opened => \A r \in Queued' \union cpu' : r.gen = gen
    BY <2>1 DEF IInv, PortOK, SameLists
  <2> QED BY <1>1, <2>1, <2>2, <2>3, <2>4, PortKept DEF NotGpu, IInv, PortOK, SameLists
<1>5. StatusExact'
  BY StatusQuiet DEF IInv, NotGpu
<1>6. BoundOK'
  <2>1. CASE Asking' \subseteq Asking
    BY <2>1, BoundKept DEF IInv, NotGpu
  <2>2. CASE MoreFlips
    <3>1. Asking' \subseteq Asking \union {Gpu}
      BY <1>1 DEF Asking, NotGpu
    <3> QED BY <2>2, <3>1, AskingGrows DEF NotGpu
  <2>3. Asking' \subseteq Asking \/ MoreFlips
    BY <1>1 DEF Asking, NotGpu
  <2> QED BY <2>1, <2>2, <2>3
<1>7. FramesAccounted'
  <2>1. HandFacts /\ HandFacts'
    BY <1>4, HandsNow, HandsNext DEF IInv
  <2>2. Stored \in Nat /\ Stored' \in Nat /\ free \in Nat /\ free' \in Nat
    BY DEF Stored, IInv, TypeOK
  <2>3. free' + InHand' = free + InHand /\ InHand \in Nat /\ InHand' \in Nat
    <3>1. CASE \E g \in Guests : pc[g] = "discard"
      <4>1. PICK g \in Guests : pc[g] = "discard"
        BY <3>1
      <4>2. InHand = Stored + call[g].n /\ InHand' = Stored' + call'[g].n
        BY <1>1, <2>1, <4>1 DEF HandFacts
      <4>3. call[g].n \in Nat /\ call'[g] = call[g]
        BY <4>1 DEF ArgsOK, IInv, NotGpu
      <4> DEFINE n == call[g].n
                 a == Stored
                 b == Stored'
                 u == InHand
                 v == InHand'
      <4>4. u = a + n /\ v = b + n /\ n \in Nat /\ a \in Nat /\ b \in Nat
            /\ free' + b = free + a /\ free \in Nat /\ free' \in Nat
        BY <2>2, <4>2, <4>3
      <4> HIDE DEF n, a, b, u, v
      <4>5. free' + v = (free' + b) + n /\ free + u = (free + a) + n /\ u \in Nat /\ v \in Nat
        BY <4>4
      <4> QED BY <4>4, <4>5 DEF u, v
    <3>2. CASE \A g \in Guests : pc[g] # "discard"
      <4>1. InHand = Stored /\ InHand' = Stored'
        BY <1>1, <2>1, <3>2 DEF HandFacts
      <4> QED BY <2>2, <4>1
    <3> QED BY <3>1, <3>2
  <2> QED BY <2>2, <2>3, FramesQuiet DEF IInv
<1> QED BY <1>2, <1>3, <1>4, <1>5, <1>6, <1>7 DEF IInv

\* Busy or not, the port has been opened, if the GPU thread has got anywhere.
LEMMA GpuInPort ==
  ASSUME PortOK, pc[Gpu] \notin {"idle", "get", "getwait"}
  PROVE  opened \/ closing
BY DEF PortOK

LEMMA GpuArgs ==
  ASSUME TypeOK, ArgsOK, NEW where \in GpuPcs, Go(Gpu, where), call' = call,
         packet' \in [index : Indices \union {"none"}, id : Nat,
                      source : {"none", "Cpu", "GpuEop"}],
         where \in {"get", "reserve", "slot"} => packet'.index \in Indices,
         where \in {"prepare", "check", "cut", "frame", "store", "done"} =>
           packet'.id \in 1..ReqMax
  PROVE  ArgsOK'
<1>1. /\ PcsOK' /\ pc'[Gpu] = where /\ \A g \in Guests : pc'[g] = pc[g]
  BY PcsFacts, GpuGoes DEF Goes
<1>2. Busy' => Me' \in 1..ReqMax
  BY <1>1 DEF Busy, Me
<1> QED BY <1>1, <1>2 DEF ArgsOK, PcsOK

PacketSet == [index : Indices \union {"none"}, id : Nat, source : {"none", "Cpu", "GpuEop"}]

CpuPacket(n)    == [NoPacket EXCEPT !.id = n, !.source = "Cpu"]
EopPacket(p, n) == [p EXCEPT !.id = n, !.source = "GpuEop"]

LEMMA PacketFacts ==
  /\ NoPacket \in PacketSet
  /\ \A i \in Indices : [NoPacket EXCEPT !.index = i] \in PacketSet
                        /\ [NoPacket EXCEPT !.index = i].index = i
  /\ \A n \in Nat : CpuPacket(n) \in PacketSet /\ CpuPacket(n).id = n
  /\ \A p \in PacketSet, n \in Nat :
       EopPacket(p, n) \in PacketSet /\ EopPacket(p, n).id = n
BY DEF NoPacket, PacketSet, CpuPacket, EopPacket

\* The GPU thread moves on without a flip in work, or with the one it had.
LEMMA GpuMoves ==
  ASSUME IInv, failed = "none", NEW where \in GpuPcs, GpuStep(where), SameLists,
         UNCHANGED <<processing, front, call, sleep>>, packet' \in PacketSet,
         pc[Gpu] # "store",
         where \in {"get", "reserve", "slot"} =>
           /\ packet'.index \in Indices
           /\ pc[Gpu] \in {"get", "reserve", "slot"} \/ MoreFlips,
         where \notin {"idle", "get", "getwait"} => opened \/ closing,
         where \in {"idle", "get", "reserve", "slot", "getwait", "flipwait"}
           \/ /\ packet' = packet /\ pc[Gpu] = "check" /\ where \in {"cut", "frame"}
              /\ where = "cut" => ~(Me \in Ids(Queued)) \/ ~opened
  PROVE  IInv'
<1>1. /\ Go(Gpu, where) /\ NotGpu /\ UNCHANGED <<rate, count, registered, free, jobs, eop>>
      /\ UNCHANGED <<shown, failed, doneWait, slotWait>>
  BY DEF GpuStep, NotGpu, port, work, sleep
<1>2. PcsOK' /\ pc'[Gpu] = where /\ \A g \in Guests : pc'[g] = pc[g]
  BY <1>1, PcsFacts, GpuGoes DEF IInv, Goes
<1>3. failed' \notin Internal
  BY <1>1 DEF Internal
<1>4. TypeOK'
  BY <1>1, <1>2 DEF IInv, TypeOK, PcsOK, SameLists, NotGpu
<1>5. ArgsOK'
  <2>1. where \in {"prepare", "check", "cut", "frame", "store", "done"} => packet'.id \in 1..ReqMax
    BY DEF IInv, ArgsOK, Busy, Me
  <2> QED BY <1>1, <2>1, GpuArgs DEF IInv, PacketSet
<1>6. Keeps(0) /\ SameSent
  <2>1. Keeps(0)
    BY <1>1, <1>3, QuietKept DEF NotGpu
  <2> QED BY <1>1, <1>2, <2>1 DEF SameSent, NotGpu
<1>7. JobsOK' /\ EopOK' /\ Sent' = Sent
  BY <1>1, <1>6, StagesQuiet
<1>8. PacketOK'
  <2>1. CASE where \in {"idle", "get", "reserve", "slot", "getwait", "flipwait"}
    BY <1>2, <2>1 DEF PacketOK, Busy
  <2>2. CASE packet' = packet /\ pc[Gpu] = "check" /\ where \in {"cut", "frame"}
    <3>1. Busy /\ Me' = Me /\ IsRecording(Me) /\ Me # 0
      BY <2>2, ZeroIsNoFlip DEF Busy, Me, IInv, PacketOK
    <3>2. \A id : id = Me => (IsRecording(id) => IsRecording(id)')
      BY <1>6, <3>1, StagesKept
    <3>3. IsRecording(Me)'
      BY <3>1, <3>2
    <3>4. (Me \notin Sent \union ToSet(jobs) \union ToSet(eop))'
      BY <1>1, <1>7, <3>1 DEF IInv, PacketOK
    <3> QED BY <1>2, <2>2, <3>3, <3>4 DEF PacketOK
  <2> QED BY <2>1, <2>2
<1>9. Stored' = Stored /\ free' = free
  BY <1>1, <1>2 DEF Stored
<1>10. where = "cut" => ~(Me' \in Ids(Queued)) \/ ~opened
  BY DEF Me
<1> QED BY <1>1, <1>3, <1>4, <1>5, <1>7, <1>8, <1>9, <1>10, GpuQuiet

LEMMA StartPacketKeeps ==
  ASSUME IInv, failed = "none", NEW i \in Indices, NEW where \in {"get", "getwait"},
         StartPacket(i, where)
  PROVE  IInv'
<1>1. /\ pc[Gpu] = "idle" /\ (where = "get" => MoreFlips) /\ GpuStep(where) /\ SameLists
      /\ UNCHANGED <<processing, front, call, sleep>>
      /\ packet' \in PacketSet /\ packet'.index = i
  BY PacketFacts DEF StartPacket, Works, lists, SameLists
<1>2. where \in GpuPcs
  BY DEF GpuPcs
<1> QED BY <1>1, <1>2, GpuMoves

LEMMA GpuGetsKeeps ==
  ASSUME IInv, failed = "none", GpuGets
  PROVE  IInv'
<1>1. CASE ~opened
  <2>1. "submission" \in OfGuest /\ "waitdone" \in OfGuest
    BY DEF OfGuest
  <2>2. Fail("submission") \/ Fail("waitdone")
    BY <1>1 DEF GpuGets
  <2> QED BY <2>1, <2>2, FailKeeps
<1>2. CASE opened
  <2> DEFINE where == IF pc[Gpu] = "get" THEN "reserve" ELSE "flipwait"
  <2>1. /\ pc[Gpu] \in {"get", "getwait"} /\ GpuStep(where) /\ SameLists
        /\ UNCHANGED <<processing, front, call, sleep, packet>>
    BY <1>2 DEF GpuGets, lists, SameLists, arg
  <2>2. /\ where \in GpuPcs /\ packet' \in PacketSet /\ packet' = packet
        /\ where = "reserve" => pc[Gpu] = "get" /\ packet'.index \in Indices
    BY <2>1 DEF GpuPcs, IInv, ArgsOK, PacketSet
  <2>3. where \in {"reserve", "flipwait"}
    OBVIOUS
  <2> HIDE DEF where
  <2> QED BY <1>2, <2>1, <2>2, <2>3, GpuMoves
<1> QED BY <1>1, <1>2

LEMMA WaitForSubmitSlotKeeps ==
  ASSUME IInv, failed = "none", WaitForSubmitSlot
  PROVE  IInv'
<1>1. CASE Fail("saturated")
  BY <1>1, FailKeeps DEF OfGuest
<1>2. CASE GpuStep("get") /\ UNCHANGED <<lists, sleep, arg>>
  <2>1. /\ pc[Gpu] = "slot" /\ GpuStep("get") /\ SameLists
        /\ UNCHANGED <<processing, front, call, sleep, packet>>
    BY <1>2 DEF WaitForSubmitSlot, lists, SameLists, arg
  <2>2. "get" \in GpuPcs /\ packet' \in PacketSet /\ packet'.index \in Indices
    BY <2>1 DEF GpuPcs, IInv, ArgsOK, PacketSet
  <2> QED BY <2>1, <2>2, GpuMoves
<1>3. CASE slotWait' = {Gpu}
           /\ UNCHANGED <<port, lists, doneWait, free, work, pc, arg, nextId, shown, failed>>
  BY <1>3, OnlySleep DEF IInv, TypeOK
<1> QED BY <1>1, <1>2, <1>3 DEF WaitForSubmitSlot

LEMMA WaitFlipDoneKeeps ==
  ASSUME IInv, failed = "none", WaitFlipDone
  PROVE  IInv'
<1>1. CASE \E r \in Queued \union cpu : r.index = packet.index
  <2>1. /\ doneWait' = doneWait \union {Gpu}
        /\ UNCHANGED <<port, lists, slotWait, free, work, pc, arg, nextId, shown, failed>>
    BY <1>1 DEF WaitFlipDone
  <2> QED BY <2>1, OnlySleep, ThreadFacts DEF IInv, TypeOK
<1>2. CASE ~\E r \in Queued \union cpu : r.index = packet.index
  <2>1. /\ pc[Gpu] = "flipwait" /\ GpuStep("idle") /\ Works(NoPacket) /\ SameLists
        /\ UNCHANGED <<processing, sleep>>
    BY <1>2 DEF WaitFlipDone, lists, SameLists
  <2>2. "idle" \in GpuPcs /\ packet' \in PacketSet /\ UNCHANGED <<call, front>>
    BY <2>1, PacketFacts DEF GpuPcs, Works
  <2> QED BY <2>1, <2>2, GpuMoves
<1> QED BY <1>1, <1>2

LEMMA PrepareChecksKeeps ==
  ASSUME IInv, failed = "none", PrepareChecks
  PROVE  IInv'
<1> DEFINE r == IF Me \in Ids(Queued) THEN Of(Queued, Me) ELSE Of(cancelled, Me)
<1>1. CASE Fail("unregistered")
  BY <1>1, FailKeeps DEF OfGuest
<1>2. SUFFICES ASSUME NEW where \in {"cut", "frame"}, GpuStep(where),
                      where = "cut" => ~Current(r), UNCHANGED <<lists, sleep, arg>>
               PROVE  IInv'
  BY <1>1 DEF PrepareChecks
<1>3. pc[Gpu] = "check"
  BY DEF PrepareChecks
<1>4. SameLists /\ UNCHANGED <<processing, front, call, sleep, packet>>
  BY <1>2 DEF lists, SameLists, arg
<1>5. where = "cut" => ~(Me \in Ids(Queued)) \/ ~opened
  <2>1. SUFFICES ASSUME where = "cut", Me \in Ids(Queued), opened PROVE FALSE
    OBVIOUS
  <2>2. Of(Queued, Me) \in Queued
    BY <2>1, OfFacts DEF IInv, Everything
  <2>3. ~closing /\ Of(Queued, Me).gen = gen
    BY <2>1, <2>2 DEF IInv, PortOK
  <2> QED BY <1>2, <2>1, <2>3 DEF Current
<1>6. opened \/ closing
  BY <1>3, GpuInPort DEF IInv
<1>7. where \in GpuPcs /\ packet' \in PacketSet
  BY <1>4 DEF GpuPcs, IInv, ArgsOK, PacketSet
<1> QED BY <1>2, <1>3, <1>4, <1>5, <1>6, <1>7, GpuMoves

\* A flip that is under way has one stage at a time.
LEMMA OneStage ==
  ASSUME IdsOK, NEW id, IsReserved(id)
  PROVE  ~IsRecorded(id) /\ ~IsRecording(id)
BY DEF IdsOK, IsReserved, IsRecorded, IsRecording

LEMMA TakeJobKeeps ==
  ASSUME IInv, failed = "none", TakeJob
  PROVE  IInv'
<1> DEFINE id == Head(jobs)
<1>1. /\ pc[Gpu] = "idle" /\ jobs # <<>> /\ jobs' = Tail(jobs) /\ Go(Gpu, "prepare")
      /\ packet' = CpuPacket(id)
      /\ SameLists /\ NotGpu /\ UNCHANGED <<rate, count, registered, free, eop>>
      /\ UNCHANGED <<shown, failed, doneWait, slotWait>>
  BY DEF TakeJob, Works, CpuPacket, NotGpu, port, lists, sleep, SameLists
<1>2. /\ jobs' \in Seq(1..ReqMax) /\ id \in 1..ReqMax /\ id \in ToSet(jobs)
      /\ ToSet(jobs') = ToSet(jobs) \ {id} /\ Distinct(jobs')
  <2>1. Distinct(jobs) /\ jobs \in Seq(1..ReqMax)
    BY DEF IInv, JobsOK, Distinct, TypeOK
  <2> QED BY <1>1, <2>1, TailFacts
<1> HIDE DEF id
<1>3. packet' \in PacketSet /\ packet'.id = id
  BY <1>1, <1>2, PacketFacts
<1>4. /\ PcsOK' /\ pc'[Gpu] = "prepare" /\ \A g \in Guests : pc'[g] = pc[g]
      /\ "prepare" \in GpuPcs
  BY <1>1, PcsFacts, GpuGoes DEF IInv, Goes, GpuPcs
<1>5. failed' \notin Internal
  BY <1>1 DEF Internal
<1>6. Keeps(0) /\ Sent' = Sent
  <2>1. Keeps(0)
    BY <1>1, <1>5, QuietKept DEF NotGpu
  <2>2. Sent' = Sent
    BY <1>1, <1>4 DEF Sent, NotGpu
  <2> QED BY <2>1, <2>2
<1>7. id # 0 /\ \A x \in Sent \union ToSet(jobs) \union ToSet(eop) : x # 0
  BY <1>2, ZeroIsNoFlip
<1>8. \A x \in Sent \union ToSet(jobs) : IsReserved(x)'
  BY <1>6, <1>7, StagesKept DEF IInv, JobsOK
<1>9. JobsOK'
  <2>1. (\A i, j \in DOMAIN jobs : jobs[i] = jobs[j] => i = j)'
    BY <1>2 DEF Distinct
  <2>2. (Sent \intersect ToSet(jobs) = {})' /\ (\A x \in Sent \union ToSet(jobs) : IsReserved(x))'
    BY <1>2, <1>6, <1>8 DEF IInv, JobsOK
  <2>3. \A g, h \in Guests :
          pc'[g] = "submit" /\ pc'[h] = "submit" /\ call'[g].n = call'[h].n => g = h
    BY <1>1, <1>4 DEF IInv, JobsOK, NotGpu
  <2> QED BY <2>1, <2>2, <2>3 DEF JobsOK
<1>10. EopOK'
  BY <1>1, <1>6, <1>7, EopKept DEF IInv
<1>11. PacketOK'
  <2>1. id \notin Sent /\ id \notin ToSet(jobs')
    BY <1>2 DEF IInv, JobsOK
  <2>2. id \notin ToSet(eop)
    BY <1>2, OneStage DEF IInv, JobsOK, EopOK
  <2>3. Me' = id
    BY <1>3 DEF Me
  <2>4. IsReserved(Me)'
    BY <1>2, <1>8, <2>3
  <2> QED BY <1>1, <1>4, <1>6, <2>1, <2>2, <2>3, <2>4 DEF PacketOK
<1>12. opened \/ closing
  <2>1. IsReserved(id)
    BY <1>2 DEF IInv, JobsOK
  <2>2. nextId # 1
    <3>1. PICK r \in Everything : r.id = id
      BY <2>1 DEF IsReserved
    <3>2. id < nextId
      BY <3>1 DEF IInv, IdsOK
    <3> QED BY <1>2, <3>2
  <2> QED BY <2>2 DEF IInv, PortOK
<1>13. TypeOK' /\ ArgsOK'
  <2>1. TypeOK'
    BY <1>1, <1>2, <1>4 DEF IInv, TypeOK, PcsOK, SameLists, NotGpu
  <2>2. ArgsOK'
    BY <1>1, <1>2, <1>3, <1>4, GpuArgs DEF IInv, PacketSet, NotGpu
  <2> QED BY <2>1, <2>2
<1>14. free' + Stored' = free + Stored
  BY <1>1, <1>4 DEF Stored
<1> QED BY <1>1, <1>4, <1>5, <1>9, <1>10, <1>11, <1>12, <1>13, <1>14, GpuQuiet

LEMMA PrepareFrameKeeps ==
  ASSUME IInv, failed = "none", PrepareFrame
  PROVE  IInv'
<1>1. /\ pc[Gpu] = "frame" /\ free > 0 /\ free' = free - 1 /\ Go(Gpu, "store")
      /\ SameLists /\ NotGpu /\ UNCHANGED <<rate, count, registered, jobs, eop, packet>>
      /\ UNCHANGED <<shown, failed, doneWait, slotWait>>
  BY DEF PrepareFrame, NotGpu, port, lists, sleep, work, arg, SameLists
<1>2. /\ PcsOK' /\ pc'[Gpu] = "store" /\ \A g \in Guests : pc'[g] = pc[g]
      /\ "store" \in GpuPcs
  BY <1>1, PcsFacts, GpuGoes DEF IInv, Goes, GpuPcs
<1>3. failed' \notin Internal
  BY <1>1 DEF Internal
<1>4. Keeps(0) /\ SameSent
  <2>1. Keeps(0)
    BY <1>1, <1>3, QuietKept DEF NotGpu
  <2> QED BY <1>1, <1>2, <2>1 DEF SameSent, NotGpu
<1>5. JobsOK' /\ EopOK' /\ Sent' = Sent
  BY <1>1, <1>4, StagesQuiet
<1>6. PacketOK'
  <2>1. Busy /\ Me' = Me /\ IsRecording(Me) /\ Me # 0
    BY <1>1, ZeroIsNoFlip DEF Busy, Me, IInv, PacketOK
  <2>2. \A id : id = Me => (IsRecording(id) => IsRecording(id)')
    BY <1>4, <2>1, StagesKept
  <2>3. IsRecording(Me)'
    BY <2>1, <2>2
  <2>4. (Me \notin Sent \union ToSet(jobs) \union ToSet(eop))'
    BY <1>1, <1>5, <2>1 DEF IInv, PacketOK
  <2> QED BY <1>2, <2>3, <2>4 DEF PacketOK
<1>7. TypeOK' /\ ArgsOK'
  <2>1. free' \in 0..Pool
    BY <1>1, FlipAssumption DEF IInv, TypeOK
  <2>2. TypeOK'
    BY <1>1, <1>2, <2>1 DEF IInv, TypeOK, PcsOK, SameLists, NotGpu
  <2>3. packet' \in PacketSet /\ packet'.id \in 1..ReqMax /\ call' = call
    BY <1>1 DEF IInv, ArgsOK, Busy, Me, PacketSet, NotGpu
  <2>4. ArgsOK'
    BY <1>1, <1>2, <2>3, GpuArgs DEF IInv, PacketSet
  <2> QED BY <2>2, <2>4
<1>8. opened \/ closing
  BY <1>1, GpuInPort DEF IInv
<1>9. free' + Stored' = free + Stored
  <2>1. free \in Nat
    BY DEF IInv, TypeOK
  <2> QED BY <1>1, <1>2, <2>1 DEF Stored
<1> QED BY <1>1, <1>2, <1>3, <1>5, <1>6, <1>7, <1>8, <1>9, GpuQuiet

LEMMA GpuReservesKeeps ==
  ASSUME IInv, failed = "none", GpuReserves
  PROVE  IInv'
<1> DEFINE index == packet.index
<1>1. pc[Gpu] = "reserve" /\ PortFree /\ index \in Indices
  BY DEF GpuReserves, IInv, ArgsOK
<1>2. CASE Fail("submission")
  BY <1>2, FailKeeps DEF OfGuest
<1>3. CASE GpuStep("slot") /\ UNCHANGED <<lists, sleep, arg>>
  <2>1. SameLists /\ UNCHANGED <<processing, front, call, sleep, packet>>
    BY <1>3 DEF lists, SameLists, arg
  <2>2. "slot" \in GpuPcs /\ packet' \in PacketSet /\ packet'.index \in Indices
    BY <1>1, <2>1 DEF GpuPcs, IInv, ArgsOK, PacketSet
  <2>3. opened \/ closing
    BY <1>1, GpuInPort DEF IInv
  <2> QED BY <1>1, <1>3, <2>1, <2>2, <2>3, GpuMoves
<1>4. SUFFICES ASSUME Acceptable(index), Reserve(index, "GpuEop"), Go(Gpu, "prepare"),
                      packet' = EopPacket(packet, nextId), UNCHANGED <<call, front>>,
                      UNCHANGED <<sleep, free, work, shown, failed>>
               PROVE  IInv'
  BY <1>2, <1>3 DEF GpuReserves, Works, EopPacket
<1>5. Gpu \in Asking /\ nextId <= ReqMax /\ opened
  <2>1. Gpu \in Asking
    BY <1>1 DEF Asking
  <2> QED BY <1>1, <1>4, <2>1, AskingFalls, AcceptedIsOpen DEF IInv
<1>6. failed' \notin Internal
  BY <1>4 DEF Internal
<1>7. /\ IdsOK' /\ StatesOK' /\ StatusExact' /\ QueueStaysConsistent' /\ FiniteQueue'
      /\ Keeps(0) /\ SameFront /\ (\A id : id = nextId => IsReserved(id)') /\ InLists' = InLists
      /\ requests' \in Seq(Request) /\ cpu' \subseteq Request
      /\ nextId' = nextId + 1 /\ nextId' \in 1..(ReqMax + 1)
      /\ pending' \in 0..Capacity /\ gc' \in 0..Capacity /\ Total' <= Capacity
      /\ \A r \in Queued' \union cpu' : r.gen = gen
  BY <1>1, <1>4, <1>5, <1>6, ReserveFacts
<1>8. /\ UNCHANGED <<opened, closing, gen, rate, count, registered, cancelled, processing>>
      /\ UNCHANGED <<doneWait, slotWait, jobs, eop>>
  BY <1>4 DEF Reserve, sleep, work
<1>9. /\ PcsOK' /\ pc'[Gpu] = "prepare" /\ pc'[Present] = pc[Present]
      /\ \A g \in Guests : pc'[g] = pc[g]
  BY <1>4, PcsFacts, GpuGoes DEF IInv, Goes, GpuPcs
<1>10. nextId \in 1..ReqMax /\ nextId \in Nat /\ nextId # 0
  BY <1>5, FlipAssumption DEF IInv, TypeOK
<1>11. packet' \in PacketSet /\ packet'.id = nextId
  <2>1. packet \in PacketSet
    BY DEF IInv, ArgsOK, PacketSet
  <2> QED BY <1>4, <1>10, <2>1, PacketFacts
<1>12. ArgsOK'
  <2>1. "prepare" \in GpuPcs /\ call' = call
    BY <1>4 DEF GpuPcs
  <2> QED BY <1>4, <1>10, <1>11, <2>1, GpuArgs DEF IInv, PacketSet
<1>13. JobsOK' /\ EopOK' /\ Sent' = Sent
  <2>1. SameSent
    BY <1>4, <1>9 DEF SameSent
  <2> QED BY <1>7, <1>8, <2>1, StagesQuiet
<1>14. PacketOK'
  <2>1. Me' = nextId
    BY <1>11 DEF Me
  <2>2. IsReserved(Me)'
    BY <1>7, <2>1
  <2>3. (Me \notin Sent \union ToSet(jobs) \union ToSet(eop))'
    BY <1>8, <1>13, <2>1, NextIsNew
  <2> QED BY <1>9, <2>2, <2>3 DEF PacketOK
<1>15. PresentOK'
  BY <1>4, <1>7, <1>8, <1>9, PresentKept DEF IInv
<1>16. PortOK'
  <2>1. SameClosing
    BY <1>9 DEF SameClosing
  <2> QED BY <1>5, <1>7, <1>8, <1>9, <2>1, PortKept DEF IInv
<1>17. BoundOK'
  <2>1. Asking' \subseteq Asking \ {Gpu}
    BY <1>4, <1>9, ThreadFacts DEF Asking
  <2> QED BY <1>5, <1>7, <2>1, AskingFalls
<1>18. FramesAccounted'
  <2>1. InHand' = InHand /\ InHand \in Nat
    BY <1>1, <1>4, <1>9, <1>16, HandsQuiet DEF IInv
  <2>2. FiniteQueue /\ free \in Nat
    BY QueuedFacts DEF IInv, FiniteQueue, TypeOK
  <2> QED BY <1>4, <1>7, <2>1, <2>2, FramesMoved DEF IInv
<1>19. TypeOK'
  BY <1>4, <1>7, <1>8, <1>9 DEF IInv, TypeOK, PcsOK
<1> QED BY <1>7, <1>12, <1>13, <1>14, <1>15, <1>16, <1>17, <1>18, <1>19 DEF IInv

\* A prepared flip packet: its completion waits for the end of the pipe.
LEMMA DefersKeeps ==
  ASSUME IInv, failed = "none", Prepared, packet.source # "Cpu"
  PROVE  IInv'
<1> DEFINE id == Me
<1>1. /\ pc[Gpu] = "done" /\ eop' = Append(eop, id) /\ Go(Gpu, "idle") /\ packet' = NoPacket
      /\ SameLists /\ NotGpu /\ UNCHANGED <<rate, count, registered, free, jobs>>
      /\ UNCHANGED <<shown, failed, doneWait, slotWait>>
  BY DEF Prepared, Works, NotGpu, port, lists, sleep, SameLists
<1>2. /\ id \in 1..ReqMax /\ eop \in Seq(1..ReqMax) /\ id \notin ToSet(eop) /\ Distinct(eop)
      /\ IsRecorded(id) /\ id # 0
  <2>1. Busy
    BY <1>1 DEF Busy
  <2> QED BY <1>1, <2>1, ZeroIsNoFlip DEF IInv, ArgsOK, TypeOK, PacketOK, EopOK, Distinct
<1> HIDE DEF id
<1>3. eop' \in Seq(1..ReqMax) /\ ToSet(eop') = ToSet(eop) \union {id} /\ Distinct(eop')
  <2> DEFINE S == 1..ReqMax
  <2>1. eop \in Seq(S) /\ id \in S /\ id \notin ToSet(eop) /\ eop' = Append(eop, id)
    BY <1>1, <1>2
  <2> HIDE DEF S
  <2>2. eop' \in Seq(S) /\ ToSet(eop') = ToSet(eop) \union {id} /\ Distinct(eop')
    BY <1>2, <2>1, AppendFacts
  <2> QED BY <2>2 DEF S
<1>4. /\ PcsOK' /\ pc'[Gpu] = "idle" /\ \A g \in Guests : pc'[g] = pc[g]
      /\ "idle" \in GpuPcs
  BY <1>1, PcsFacts, GpuGoes DEF IInv, Goes, GpuPcs
<1>5. failed' \notin Internal
  BY <1>1 DEF Internal
<1>6. Keeps(0) /\ SameSent
  <2>1. Keeps(0)
    BY <1>1, <1>5, QuietKept DEF NotGpu
  <2> QED BY <1>1, <1>4, <2>1 DEF SameSent, NotGpu
<1>7. JobsOK'
  BY <1>1, <1>6, StagesQuiet
<1>8. EopOK'
  <2>1. \A x \in ToSet(eop) \union {id} : IsRecorded(x)'
    BY <1>2, <1>6, StagesKept, ZeroIsNoFlip DEF IInv, EopOK
  <2> QED BY <1>3, <2>1 DEF EopOK, Distinct
<1>9. PacketOK'
  BY <1>4 DEF PacketOK, Busy
<1>10. TypeOK' /\ ArgsOK'
  <2>1. TypeOK'
    BY <1>1, <1>3, <1>4 DEF IInv, TypeOK, PcsOK, SameLists, NotGpu
  <2>2. ArgsOK'
    BY <1>1, <1>4, GpuArgs, PacketFacts DEF IInv, PacketSet, NotGpu
  <2> QED BY <2>1, <2>2
<1>11. free' + Stored' = free + Stored
  BY <1>1, <1>4 DEF Stored
<1> QED BY <1>1, <1>4, <1>5, <1>7, <1>8, <1>9, <1>10, <1>11, GpuQuiet

-----------------------------------------------------------------------------
(* A request is changed in its place, or moves from one list to another    *)

\* What the lists say after a step, whatever it does to a flip.
ListsOK ==
  /\ IdsOK /\ StatesOK /\ FiniteQueue
  /\ requests \in Seq(Request) /\ cpu \subseteq Request /\ cancelled \subseteq Request
  /\ opened => \A r \in Queued \union cpu : r.gen = gen
  /\ Total <= Capacity

NothingAppears == requests = <<>> /\ cpu = {} => requests' = <<>> /\ cpu' = {}

LEMMA ListsNow ==
  ASSUME IInv
  PROVE  /\ ListsOK /\ Everything \subseteq Request /\ Queued \subseteq Request
         /\ IsFiniteSet(Queued) /\ IsFiniteSet(cpu) /\ IsFiniteSet(cancelled)
         /\ Total \in Nat /\ Len(requests) \in Nat /\ Cardinality(cpu) \in Nat
         /\ HeldBy(Queued) \in Nat /\ HeldBy(cpu) \in Nat /\ HeldBy(cancelled) \in Nat
         /\ InLists \in Nat /\ Capacity \in Nat /\ nextId \in Nat
<1>1. /\ requests \in Seq(Request) /\ Len(requests) \in Nat /\ IsFiniteSet(Queued)
      /\ Everything \subseteq Request /\ Queued \subseteq Request
      /\ IsFiniteSet(cpu) /\ IsFiniteSet(cancelled)
  BY QueuedFacts DEF IInv, IdsOK
<1>2. /\ Cardinality(cpu) \in Nat /\ HeldBy(Queued) \in Nat /\ HeldBy(cpu) \in Nat
      /\ HeldBy(cancelled) \in Nat
  BY <1>1, HeldNat, FS_CardinalityType
<1>3. Total \in Nat
  BY <1>1, <1>2 DEF Total
<1>4. ListsOK
  BY <1>1 DEF IInv, ListsOK, TypeOK, PortOK, FiniteQueue
<1>5. InLists \in Nat
  BY <1>2 DEF InLists
<1> QED BY <1>1, <1>2, <1>3, <1>4, <1>5, FlipAssumption DEF IInv, TypeOK

LEMMA InPlace ==
  ASSUME IInv, NEW old \in Queued, NEW new \in Request, requests' = Put(new),
         new.id = old.id, new.gen = old.gen, new.source = old.source,
         new.state \in {"Ready", "Presenting"} => new.frame,
         new.state = "Reserved" => ~new.frame,
         UNCHANGED <<cpu, cancelled, opened, gen, pending, gc, nextId>>
  PROVE  /\ ListsOK' /\ StatusExact' /\ NothingAppears /\ Keeps(old.id)
         /\ new \in Queued' /\ Queued' = (Queued \ {old}) \union {new}
         /\ requests' # <<>>
         /\ Head(requests') = IF Head(requests) = old THEN new ELSE Head(requests)
         /\ new.frame <=> old.frame => InLists' = InLists
         /\ new.frame /\ ~old.frame => InLists' = InLists + 1
<1>1. /\ requests' \in Seq(Request) /\ Len(requests') = Len(requests)
      /\ Queued' = (Queued \ {old}) \union {new}
      /\ UniqueIds(requests') /\ requests # <<>> /\ requests' # <<>>
      /\ Head(requests') = IF Head(requests) = old THEN new ELSE Head(requests)
  BY PutFacts DEF IInv, Queued
<1>2. /\ old \in Request /\ old \in Everything /\ IsFiniteSet(Queued)
      /\ HeldBy(Queued) \in Nat /\ HeldBy(cpu) \in Nat /\ HeldBy(cancelled) \in Nat
  BY ListsNow DEF Everything
<1>3. \A r \in Everything : r # old => r.id # new.id
  BY <1>2 DEF IInv, IdsOK
<1>4. new \notin Queued \ {old} /\ new \notin cpu /\ new \notin cancelled
  BY <1>3 DEF Everything, IInv, IdsOK
<1>5. Everything' = (Everything \ {old}) \union {new}
  BY <1>1 DEF Everything, IInv, IdsOK
<1>6. /\ IsFiniteSet(Queued') /\ EopsIn(Queued') = EopsIn(Queued)
      /\ new.frame <=> old.frame => HeldBy(Queued') = HeldBy(Queued)
      /\ new.frame /\ ~old.frame => HeldBy(Queued') = HeldBy(Queued) + 1
  BY <1>1, <1>2, <1>4, CountsSwap
<1>7. IdsOK'
  <2>1. (\A i, j \in DOMAIN requests : requests[i].id = requests[j].id => i = j)'
    BY <1>1 DEF UniqueIds
  <2>2. (\A r, s \in Everything : r.id = s.id => r = s)'
    BY <1>3, <1>5 DEF IInv, IdsOK
  <2>3. (\A r \in Everything : r.id < nextId)'
    BY <1>2, <1>5 DEF IInv, IdsOK
  <2>4. (Queued \intersect cpu = {} /\ Queued \intersect cancelled = {}
           /\ cpu \intersect cancelled = {})'
    BY <1>1, <1>4 DEF IInv, IdsOK
  <2> QED BY <2>1, <2>2, <2>3, <2>4 DEF IInv, IdsOK
<1>8. StatesOK'
  BY <1>1, <1>5 DEF IInv, StatesOK
<1>9. Total' = Total
  BY <1>1 DEF Total
<1>10. (opened => \A r \in Queued \union cpu : r.gen = gen)'
  BY <1>1, <1>2 DEF IInv, PortOK
<1>11. StatusExact'
  <2>1. EopsIn(Queued)' = EopsIn(Queued)
    BY <1>6
  <2> QED BY <1>9, <2>1 DEF IInv, StatusExact, EopsIn
<1>12. ListsOK'
  BY <1>1, <1>6, <1>7, <1>8, <1>9, <1>10 DEF ListsOK, IInv, TypeOK, PortOK, FiniteQueue
<1>13. Keeps(old.id)
  BY <1>1, <1>4, <1>5 DEF Keeps, Everything
<1>14. /\ new.frame <=> old.frame => InLists' = InLists
       /\ new.frame /\ ~old.frame => InLists' = InLists + 1
  <2> DEFINE a == HeldBy(Queued)
             b == HeldBy(cpu)
             c == HeldBy(cancelled)
             d == HeldBy(Queued')
  <2>1. InLists = a + b + c /\ InLists' = d + b + c
    BY DEF InLists
  <2>2. a \in Nat /\ b \in Nat /\ c \in Nat
    BY <1>2
  <2>3. /\ new.frame <=> old.frame => d = a
        /\ new.frame /\ ~old.frame => d = a + 1
    BY <1>6
  <2> HIDE DEF a, b, c, d
  <2> QED BY <2>1, <2>2, <2>3
<1>15. NothingAppears
  BY <1>1 DEF NothingAppears
<1> QED BY <1>1, <1>11, <1>12, <1>13, <1>14, <1>15

\* The same in m_cancelled_requests.
LEMMA InCancelled ==
  ASSUME IInv, NEW old \in cancelled, NEW new \in Request, cancelled' = Swap(cancelled, new),
         new.id = old.id, new.state = "Recording",
         UNCHANGED <<requests, cpu, opened, gen, pending, gc, nextId>>
  PROVE  /\ ListsOK' /\ StatusExact' /\ NothingAppears /\ Keeps(old.id) /\ SameFront
         /\ new \in cancelled' /\ new \notin Queued'
         /\ new.frame <=> old.frame => InLists' = InLists
         /\ new.frame /\ ~old.frame => InLists' = InLists + 1
<1>1. /\ old \in Everything /\ IsFiniteSet(cancelled) /\ IsFiniteSet(Queued)
      /\ HeldBy(Queued) \in Nat /\ HeldBy(cpu) \in Nat /\ HeldBy(cancelled) \in Nat
  BY ListsNow DEF Everything
<1>2. \A r \in Everything : r # old => r.id # new.id
  BY <1>1 DEF IInv, IdsOK
<1>3. cancelled' = (cancelled \ {old}) \union {new} /\ Queued' = Queued /\ Total' = Total
  BY <1>2 DEF Swap, Drop, Everything, Queued, Total
<1>4. new \notin cancelled \ {old} /\ new \notin cpu /\ new \notin Queued
  BY <1>2 DEF Everything, IInv, IdsOK
<1>5. Everything' = (Everything \ {old}) \union {new}
  BY <1>3 DEF Everything, IInv, IdsOK
<1>6. IsFiniteSet(cancelled')
  BY <1>1, <1>3, FS_Subset, FS_AddElement
<1>7. /\ new.frame <=> old.frame => HeldBy(cancelled') = HeldBy(cancelled)
      /\ new.frame /\ ~old.frame => HeldBy(cancelled') = HeldBy(cancelled) + 1
  <2> DEFINE t == cancelled \ {old}
  <2>1. IsFiniteSet(t) /\ new \notin t /\ old \notin t /\ cancelled = t \union {old}
        /\ cancelled' = t \union {new}
    BY <1>1, <1>3, <1>4, FS_Subset
  <2> HIDE DEF t
  <2>2. /\ new.frame => HeldBy(cancelled') = HeldBy(t) + 1
        /\ ~new.frame => HeldBy(cancelled') = HeldBy(t)
        /\ old.frame => HeldBy(cancelled) = HeldBy(t) + 1
        /\ ~old.frame => HeldBy(cancelled) = HeldBy(t)
        /\ HeldBy(t) \in Nat
    BY <2>1, HeldAdd
  <2> QED BY <2>2
<1>8. IdsOK'
  <2>1. (\A r, s \in Everything : r.id = s.id => r = s)'
    BY <1>2, <1>5 DEF IInv, IdsOK
  <2>2. (\A r \in Everything : r.id < nextId)'
    BY <1>1, <1>5 DEF IInv, IdsOK
  <2>3. (Queued \intersect cpu = {} /\ Queued \intersect cancelled = {}
           /\ cpu \intersect cancelled = {})'
    BY <1>3, <1>4 DEF IInv, IdsOK
  <2> QED BY <1>6, <2>1, <2>2, <2>3 DEF IInv, IdsOK
<1>9. StatesOK'
  BY <1>3, <1>5 DEF IInv, StatesOK
<1>10. ListsOK'
  <2>1. cancelled' \subseteq Request
    BY <1>3 DEF IInv, TypeOK
  <2> QED BY <1>1, <1>3, <1>8, <1>9, <2>1 DEF ListsOK, IInv, TypeOK, PortOK, FiniteQueue
<1>11. StatusExact' /\ NothingAppears /\ SameFront
  BY <1>3 DEF IInv, StatusExact, NothingAppears, SameFront
<1>12. Keeps(old.id)
  BY <1>3, <1>5 DEF Keeps
<1>13. /\ new.frame <=> old.frame => InLists' = InLists
       /\ new.frame /\ ~old.frame => InLists' = InLists + 1
  <2> DEFINE a == HeldBy(Queued)
             b == HeldBy(cpu)
             c == HeldBy(cancelled)
             d == HeldBy(cancelled')
  <2>1. InLists = a + b + c /\ InLists' = a + b + d
    BY <1>3 DEF InLists
  <2>2. a \in Nat /\ b \in Nat /\ c \in Nat
    BY <1>1
  <2>3. /\ new.frame <=> old.frame => d = c
        /\ new.frame /\ ~old.frame => d = c + 1
    BY <1>7
  <2> HIDE DEF a, b, c, d
  <2> QED BY <2>1, <2>2, <2>3
<1> QED BY <1>3, <1>4, <1>10, <1>11, <1>12, <1>13

\* A flip of the processor takes its place at the end of the queue.
LEMMA Placed ==
  ASSUME IInv, NEW old \in cpu, requests' = Append(requests, Recording(old)),
         cpu' = cpu \ {old},
         UNCHANGED <<cancelled, opened, gen, pending, gc, nextId>>
  PROVE  /\ ListsOK' /\ StatusExact' /\ NothingAppears /\ Keeps(old.id) /\ SameFront
         /\ Recording(old) \in Queued' /\ InLists' = InLists
<1> DEFINE new == Recording(old)
<1>1. /\ old \in Request /\ old \in Everything /\ requests \in Seq(Request)
      /\ IsFiniteSet(Queued) /\ IsFiniteSet(cpu) /\ Len(requests) \in Nat /\ Cardinality(cpu) \in Nat
      /\ HeldBy(Queued) \in Nat /\ HeldBy(cpu) \in Nat /\ HeldBy(cancelled) \in Nat
      /\ Total \in Nat /\ cpu \subseteq Request
  BY ListsNow DEF Everything, IInv, TypeOK
<1>2. old.state = "Reserved" /\ ~old.frame /\ old.source = "Cpu"
  BY <1>1 DEF IInv, StatesOK
<1>3. /\ new \in Request /\ new.id = old.id /\ new.gen = old.gen /\ new.source = "Cpu"
      /\ new.state = "Recording" /\ ~new.frame
  BY <1>1, <1>2, RequestFields
<1> HIDE DEF new
<1>4. \A r \in Everything : r # old => r.id # new.id
  BY <1>1, <1>3 DEF IInv, IdsOK
<1>5. new \notin Everything
  BY <1>1, <1>2, <1>3, <1>4
<1>6. /\ requests' \in Seq(Request) /\ Len(requests') = Len(requests) + 1
      /\ Queued' = Queued \union {new}
      /\ requests # <<>> => Head(requests') = Head(requests)
      /\ requests' # <<>>
  BY <1>1, <1>3, AppendFacts DEF Queued, new
<1>7. Everything' = (Everything \ {old}) \union {new} /\ old \notin Queued /\ old \notin cancelled
  BY <1>6 DEF Everything, IInv, IdsOK
<1>8. /\ IsFiniteSet(cpu') /\ Cardinality(cpu') = Cardinality(cpu) - 1
      /\ HeldBy(cpu') = HeldBy(cpu) /\ IsFiniteSet(Queued')
      /\ HeldBy(Queued') = HeldBy(Queued) /\ EopsIn(Queued') = EopsIn(Queued)
  <2>1. HeldBy(cpu) = HeldBy(cpu \ {old})
    BY <1>1, <1>2, CountsDrop
  <2>2. new \notin Queued
    BY <1>5 DEF Everything
  <2>3. HeldBy(Queued \union {new}) = HeldBy(Queued)
    BY <1>1, <1>3, <2>2, HeldAdd
  <2>4. EopsIn(Queued \union {new}) = EopsIn(Queued)
    BY <1>1, <1>3, <2>2, EopsAdd
  <2>5. IsFiniteSet(cpu') /\ Cardinality(cpu') = Cardinality(cpu) - 1 /\ IsFiniteSet(Queued')
    BY <1>1, <1>6, FS_RemoveElement, FS_AddElement
  <2> QED BY <1>6, <2>1, <2>3, <2>4, <2>5
<1>9. Total' = Total
  BY <1>1, <1>6, <1>8 DEF Total
<1>10. IdsOK'
  <2>1. (\A i, j \in DOMAIN requests : requests[i].id = requests[j].id => i = j)'
    <3>1. DOMAIN requests' = 1..(Len(requests) + 1) /\ DOMAIN requests = 1..Len(requests)
      BY <1>1, <1>6
    <3>2. \A i \in 1..Len(requests) : requests'[i] = requests[i]
      BY <1>1, <1>3 DEF new
    <3>3. requests'[Len(requests) + 1] = new
      BY <1>1, <1>3 DEF new
    <3>4. \A i \in 1..Len(requests) : requests[i].id # new.id
      <4>1. \A i \in 1..Len(requests) : requests[i] \in Queued
        BY <3>1 DEF Queued, ToSet
      <4> QED BY <1>4, <1>7, <4>1 DEF Everything
    <3>5. \A i, j \in 1..Len(requests) : requests[i].id = requests[j].id => i = j
      BY <3>1 DEF IInv, IdsOK
    <3>6. ASSUME NEW i \in 1..(Len(requests) + 1), NEW j \in 1..(Len(requests) + 1),
                 requests'[i].id = requests'[j].id
          PROVE  i = j
      <4>1. i \in 1..Len(requests) \/ i = Len(requests) + 1
        BY <1>1
      <4>2. j \in 1..Len(requests) \/ j = Len(requests) + 1
        BY <1>1
      <4> QED BY <3>2, <3>3, <3>4, <3>5, <3>6, <4>1, <4>2
    <3> QED BY <3>1, <3>6
  <2>2. (\A r, s \in Everything : r.id = s.id => r = s)'
    BY <1>4, <1>7 DEF IInv, IdsOK
  <2>3. (\A r \in Everything : r.id < nextId)'
    BY <1>1, <1>3, <1>7 DEF IInv, IdsOK
  <2>4. (Queued \intersect cpu = {} /\ Queued \intersect cancelled = {}
           /\ cpu \intersect cancelled = {})'
    BY <1>5, <1>6 DEF IInv, IdsOK, Everything
  <2> QED BY <1>8, <2>1, <2>2, <2>3, <2>4 DEF IInv, IdsOK
<1>11. StatesOK'
  BY <1>3, <1>6, <1>7 DEF IInv, StatesOK
<1>12. ListsOK'
  <2>1. cpu' \subseteq Request
    BY <1>1
  <2> QED BY <1>1, <1>3, <1>6, <1>8, <1>9, <1>10, <1>11, <2>1
          DEF ListsOK, IInv, TypeOK, PortOK, FiniteQueue
<1>13. StatusExact'
  <2>1. EopsIn(Queued)' = EopsIn(Queued)
    BY <1>8
  <2> QED BY <1>9, <2>1 DEF IInv, StatusExact, EopsIn
<1>14. NothingAppears /\ SameFront
  BY <1>1, <1>3, <1>6 DEF NothingAppears, SameFront
<1>15. Keeps(old.id)
  BY <1>3, <1>4, <1>5, <1>6, <1>7 DEF Keeps, Everything
<1>16. InLists' = InLists
  BY <1>8 DEF InLists
<1> QED BY <1>6, <1>12, <1>13, <1>14, <1>15, <1>16 DEF new

\* A flip leaves the queue of a closed port and is cancelled.
LEMMA CutOff ==
  ASSUME IInv, NEW old \in Queued, requests' = Without(old.id),
         cancelled' = cancelled \union {old}, old.state = "Recording", ~opened,
         UNCHANGED <<cpu, opened, gen, pending, gc, nextId>>
  PROVE  /\ ListsOK' /\ StatusExact' /\ NothingAppears /\ Keeps(old.id) /\ SameFront
         /\ old \in cancelled' /\ old \notin Queued' /\ InLists' = InLists
<1>1. /\ old \in Request /\ old \in Everything
      /\ IsFiniteSet(Queued) /\ IsFiniteSet(cancelled)
      /\ Len(requests) \in Nat /\ Cardinality(cpu) \in Nat
      /\ HeldBy(Queued) \in Nat /\ HeldBy(cpu) \in Nat /\ HeldBy(cancelled) \in Nat
      /\ Total \in Nat /\ Capacity \in Nat
  BY ListsNow DEF Everything
<1>2. /\ requests' \in Seq(Request) /\ Len(requests') = Len(requests) - 1
      /\ Queued' = Queued \ {old} /\ UniqueIds(requests')
      /\ requests # <<>> /\ Head(requests) # old =>
           requests' # <<>> /\ Head(requests') = Head(requests)
  BY WithoutFacts DEF IInv, Queued
<1>3. old \notin cpu /\ old \notin cancelled
  BY DEF IInv, IdsOK
<1>4. Everything' = Everything
  BY <1>1, <1>2 DEF Everything
<1>5. IsFiniteSet(cancelled') /\ IsFiniteSet(Queued')
  BY <1>1, <1>2, FS_AddElement, FS_Subset
<1>6. IdsOK'
  <2>1. (\A i, j \in DOMAIN requests : requests[i].id = requests[j].id => i = j)'
    BY <1>2 DEF UniqueIds
  <2>2. (Queued \intersect cpu = {} /\ Queued \intersect cancelled = {}
           /\ cpu \intersect cancelled = {})'
    BY <1>2, <1>3 DEF IInv, IdsOK
  <2> QED BY <1>4, <1>5, <2>1, <2>2 DEF IInv, IdsOK
<1>7. StatesOK'
  BY <1>2, <1>4 DEF IInv, StatesOK
<1>8. Total' <= Capacity
  <2>1. Total' + 1 = Total
    BY <1>1, <1>2 DEF Total
  <2>2. Total' \in Int
    BY <1>1, <1>2 DEF Total
  <2>3. Total <= Capacity
    BY DEF IInv, PortOK
  <2> DEFINE t == Total
             u == Total'
  <2>4. u + 1 = t /\ u \in Int /\ t <= Capacity /\ t \in Nat /\ Capacity \in Nat
    BY <1>1, <2>1, <2>2, <2>3
  <2> HIDE DEF t, u
  <2>5. u <= Capacity
    BY <2>4
  <2> QED BY <2>5 DEF u
<1>9. ListsOK'
  <2>1. cancelled' \subseteq Request
    BY <1>1 DEF IInv, TypeOK
  <2> QED BY <1>2, <1>5, <1>6, <1>7, <1>8, <2>1 DEF ListsOK, IInv, TypeOK, FiniteQueue
<1>10. StatusExact'
  BY DEF StatusExact
<1>11. NothingAppears
  BY <1>1 DEF NothingAppears, Queued, ToSet
<1>12. SameFront
  BY <1>2 DEF SameFront
<1>13. Keeps(old.id)
  BY <1>2, <1>4 DEF Keeps
<1>14. InLists' = InLists
  <2> DEFINE a == HeldBy(Queued)
             b == HeldBy(cpu)
             c == HeldBy(cancelled)
             d == HeldBy(Queued')
             e == HeldBy(cancelled')
  <2>1. InLists = a + b + c /\ InLists' = d + b + e
    BY DEF InLists
  <2>2. /\ old.frame => a = d + 1 /\ e = c + 1
        /\ ~old.frame => a = d /\ e = c
        /\ a \in Nat /\ b \in Nat /\ c \in Nat /\ d \in Nat
    <3>1. /\ old.frame => a = d + 1
          /\ ~old.frame => a = d
          /\ d \in Nat
      BY <1>1, <1>2, CountsDrop
    <3>2. /\ old.frame => e = c + 1
          /\ ~old.frame => e = c
      BY <1>1, <1>3, HeldAdd
    <3> QED BY <1>1, <3>1, <3>2
  <2> HIDE DEF a, b, c, d, e
  <2> QED BY <2>1, <2>2
<1> QED BY <1>2, <1>9, <1>10, <1>11, <1>12, <1>13, <1>14

\* A cancelled flip is finished.
LEMMA Finished ==
  ASSUME IInv, NEW old \in cancelled, cancelled' = cancelled \ {old},
         UNCHANGED <<requests, cpu, opened, gen, pending, gc, nextId>>
  PROVE  /\ ListsOK' /\ StatusExact' /\ NothingAppears /\ Keeps(old.id) /\ SameFront
         /\ old.frame => InLists = InLists' + 1
         /\ ~old.frame => InLists' = InLists
         /\ InLists' \in Nat
<1>1. /\ IsFiniteSet(Queued) /\ IsFiniteSet(cancelled) /\ IsFiniteSet(cpu)
      /\ HeldBy(Queued) \in Nat /\ HeldBy(cpu) \in Nat /\ HeldBy(cancelled) \in Nat
  BY ListsNow
<1>2. Queued' = Queued /\ Total' = Total /\ Everything' \subseteq Everything
      /\ \A r \in Everything : r # old => r \in Everything'
  BY DEF Queued, Total, Everything
<1>3. /\ IsFiniteSet(cancelled') /\ HeldBy(cancelled') \in Nat
      /\ old.frame => HeldBy(cancelled) = HeldBy(cancelled') + 1
      /\ ~old.frame => HeldBy(cancelled) = HeldBy(cancelled')
  BY <1>1, CountsDrop
<1>4. IdsOK'
  BY <1>2, <1>3 DEF IInv, IdsOK
<1>5. StatesOK'
  BY <1>2 DEF IInv, StatesOK
<1>6. ListsOK'
  BY <1>1, <1>2, <1>4, <1>5 DEF ListsOK, IInv, TypeOK, PortOK, FiniteQueue
<1>7. StatusExact' /\ NothingAppears /\ SameFront /\ Keeps(old.id)
  BY <1>2 DEF IInv, StatusExact, NothingAppears, SameFront, Keeps
<1>8. /\ old.frame => InLists = InLists' + 1
      /\ ~old.frame => InLists' = InLists
      /\ InLists' \in Nat
  <2> DEFINE a == HeldBy(Queued)
             b == HeldBy(cpu)
             c == HeldBy(cancelled)
             d == HeldBy(cancelled')
  <2>1. InLists = a + b + c /\ InLists' = a + b + d
    BY <1>2 DEF InLists
  <2>2. a \in Nat /\ b \in Nat /\ c \in Nat /\ d \in Nat
    BY <1>1, <1>3
  <2>3. /\ old.frame => c = d + 1
        /\ ~old.frame => c = d
    BY <1>3
  <2> HIDE DEF a, b, c, d
  <2> QED BY <2>1, <2>2, <2>3
<1> QED BY <1>6, <1>7, <1>8

-----------------------------------------------------------------------------
(* Steps of the GPU thread that change the lists                           *)

\* The GPU thread's share of the frames in hand.
LEMMA GpuHands ==
  ASSUME PortOK, PortOK', ArgsOK, \A g \in Guests : pc'[g] = pc[g] /\ call'[g] = call[g]
  PROVE  \E k \in Nat : InHand = Stored + k /\ InHand' = Stored' + k
<1>1. HandFacts /\ HandFacts' /\ Stored \in Nat /\ Stored' \in Nat
  BY HandsNow, HandsNext DEF Stored
<1>2. CASE \E g \in Guests : pc[g] = "discard"
  <2>1. PICK g \in Guests : pc[g] = "discard"
    BY <1>2
  <2> DEFINE k == call[g].n
  <2>2. InHand = Stored + k /\ InHand' = Stored' + k /\ k \in Nat
    BY <1>1, <2>1 DEF HandFacts, ArgsOK
  <2> QED BY <2>2
<1>3. CASE \A g \in Guests : pc[g] # "discard"
  <2>1. InHand = Stored /\ InHand' = Stored'
    BY <1>1, <1>3 DEF HandFacts
  <2> DEFINE a == Stored
             b == Stored'
  <2>2. InHand = a /\ InHand' = b /\ a \in Nat /\ b \in Nat
    BY <1>1, <2>1
  <2> HIDE DEF a, b
  <2>3. InHand = a + 0 /\ InHand' = b + 0 /\ 0 \in Nat
    BY <2>2
  <2> QED BY <2>3 DEF a, b
<1> QED BY <1>2, <1>3

\* A step of the GPU thread, or of the end of the pipe, that changes lists.
LEMMA FramesFollow ==
  ASSUME IInv, ListsOK', PortOK', free' \in Nat,
         \A g \in Guests : pc'[g] = pc[g] /\ call'[g] = call[g],
         (free' + Stored') + InLists' = (free + Stored) + InLists
  PROVE  FramesAccounted'
<1>1. PICK k \in Nat : InHand = Stored + k /\ InHand' = Stored' + k
  BY GpuHands DEF IInv
<1>2. free \in Nat /\ Stored \in Nat /\ Stored' \in Nat /\ InLists \in Nat /\ InLists' \in Nat
  <2>1. InLists \in Nat
    BY ListsNow
  <2>2. InLists' \in Nat
    BY HeldNat DEF ListsOK, IdsOK, FiniteQueue, InLists
  <2> QED BY <2>1, <2>2 DEF IInv, TypeOK, Stored
<1>3. (free' + InHand') + InLists' = (free + InHand) + InLists
  <2> DEFINE a == Stored
             b == Stored'
             c == InLists
             d == InLists'
             u == InHand
             v == InHand'
  <2>1. /\ a \in Nat /\ b \in Nat /\ c \in Nat /\ d \in Nat /\ k \in Nat
        /\ u = a + k /\ v = b + k /\ (free' + b) + d = (free + a) + c
        /\ free \in Nat /\ free' \in Nat
    BY <1>1, <1>2
  <2> HIDE DEF a, b, c, d, u, v
  <2>2. (free' + (b + k)) + d = ((free' + b) + d) + k
    BY <2>1
  <2>3. (free + (a + k)) + c = ((free + a) + c) + k
    BY <2>1
  <2>4. (free' + v) + d = (free + u) + c
    BY <2>1, <2>2, <2>3
  <2> QED BY <2>4 DEF c, d, u, v
<1>4. InHand \in Nat /\ InHand' \in Nat
  <2> DEFINE a == Stored
             b == Stored'
             u == InHand
             v == InHand'
  <2>1. u = a + k /\ v = b + k /\ a \in Nat /\ b \in Nat
    BY <1>1, <1>2
  <2> HIDE DEF a, b, u, v
  <2>2. u \in Nat /\ v \in Nat
    BY <2>1
  <2> QED BY <2>2 DEF u, v
<1>5. IdsOK' /\ FiniteQueue' /\ IdsOK /\ FiniteQueue
  BY ListsNow DEF ListsOK
<1> QED BY <1>2, <1>3, <1>4, <1>5, FramesMoved DEF IInv

LEMMA GpuChanges ==
  ASSUME IInv, failed = "none", Busy, NEW where \in {"check", "done"}, GpuStep(where),
         UNCHANGED <<processing, sleep, arg>>,
         ListsOK', StatusExact', NothingAppears, Keeps(Me), SameFront,
         where = "check" => IsRecording(Me)', where = "done" => IsRecorded(Me)',
         InLists' = Stored + InLists
  PROVE  IInv'
<1>1. /\ Go(Gpu, where) /\ NotGpu /\ UNCHANGED <<rate, count, registered, free, jobs, eop>>
      /\ UNCHANGED <<shown, failed, doneWait, slotWait, packet>>
  BY DEF GpuStep, NotGpu, port, work, sleep, arg
<1>2. /\ PcsOK' /\ pc'[Gpu] = where /\ pc'[Present] = pc[Present] /\ where \in GpuPcs
      /\ \A g \in Guests : pc'[g] = pc[g]
  BY <1>1, PcsFacts, GpuGoes DEF IInv, Goes, GpuPcs
<1>3. Me \notin Sent \union ToSet(jobs) \union ToSet(eop) /\ Me \in 1..ReqMax
  BY DEF IInv, PacketOK, ArgsOK
<1>4. opened \/ closing
  <2>1. pc[Gpu] \notin {"idle", "get", "getwait"}
    BY DEF Busy
  <2> QED BY <2>1, GpuInPort DEF IInv
<1>5. JobsOK' /\ Sent' = Sent
  <2>1. SameSent
    BY <1>1, <1>2 DEF SameSent, NotGpu
  <2> QED BY <1>1, <1>3, <2>1, JobsKept DEF IInv
<1>6. EopOK'
  BY <1>1, <1>3, EopKept DEF IInv
<1>7. PacketOK'
  <2>1. (Me \notin Sent \union ToSet(jobs) \union ToSet(eop))'
    BY <1>1, <1>3, <1>5 DEF Me
  <2>2. CASE where = "check"
    BY <1>2, <2>1, <2>2 DEF PacketOK
  <2>3. CASE where = "done"
    BY <1>2, <2>1, <2>3 DEF PacketOK
  <2> QED BY <2>2, <2>3
<1>8. PresentOK'
  BY <1>1, <1>2, PresentKept DEF IInv, NotGpu
<1>9. PortOK'
  <2>1. SameClosing
    BY <1>2 DEF SameClosing
  <2>2. opened => \A r \in Queued' \union cpu' : r.gen = gen
    BY <1>1 DEF ListsOK, NotGpu
  <2>3. Total' <= Capacity
    BY DEF ListsOK
  <2> QED BY <1>1, <1>2, <1>4, <2>1, <2>2, <2>3, PortKept DEF IInv, NotGpu, NothingAppears
<1>10. BoundOK'
  <2>1. Asking' \subseteq Asking
    BY <1>1, <1>2 DEF Asking, NotGpu
  <2> QED BY <1>1, <2>1, BoundKept DEF IInv, NotGpu
<1>11. FramesAccounted'
  <2>1. Stored' = 0 /\ free' = free /\ free \in Nat /\ Stored \in Nat /\ InLists \in Nat
    <3>1. InLists \in Nat
      BY ListsNow
    <3> QED BY <1>1, <1>2, <3>1 DEF Stored, IInv, TypeOK
  <2>2. (free' + Stored') + InLists' = (free + Stored) + InLists
    <3> DEFINE a == Stored
               b == Stored'
               c == InLists
               d == InLists'
    <3>1. a \in Nat /\ b = 0 /\ c \in Nat /\ d = a + c /\ free' = free /\ free \in Nat
      BY <2>1
    <3> HIDE DEF a, b, c, d
    <3>2. (free' + b) + d = (free + a) + c
      BY <3>1
    <3> QED BY <3>2 DEF a, b, c, d
  <2> QED BY <1>1, <1>2, <1>9, <2>1, <2>2, FramesFollow DEF NotGpu
<1>12. TypeOK' /\ ArgsOK'
  <2>1. TypeOK'
    BY <1>1, <1>2 DEF IInv, TypeOK, PcsOK, ListsOK, NotGpu
  <2>2. packet' \in PacketSet /\ packet'.id \in 1..ReqMax /\ call' = call
    BY <1>1, <1>3 DEF IInv, ArgsOK, Me, PacketSet, NotGpu
  <2>3. ArgsOK'
    BY <1>1, <1>2, <2>2, GpuArgs DEF IInv, PacketSet
  <2> QED BY <2>1, <2>3
<1>13. QueueStaysConsistent'
  BY <1>1 DEF QueueStaysConsistent, Internal
<1> QED BY <1>5, <1>6, <1>7, <1>8, <1>9, <1>10, <1>11, <1>12, <1>13 DEF IInv, ListsOK

LEMMA StoredFacts ==
  ASSUME TypeOK
  PROVE  /\ pc[Gpu] = "store" => Stored = 1
         /\ pc[Gpu] # "store" => Stored = 0
BY DEF Stored

\* A flip in work is found where the model looks for it.
LEMMA Found ==
  ASSUME IInv, NEW r \in Everything, NEW id, r.id = id
  PROVE  /\ r \in Queued => id \in Ids(Queued) /\ Of(Queued, id) = r
         /\ r \in cpu => id \in Ids(cpu) /\ Of(cpu, id) = r
         /\ r \in cancelled => id \in Ids(cancelled) /\ Of(cancelled, id) = r
         /\ r \notin Queued => id \notin Ids(Queued)
         /\ r \notin cancelled => id \notin Ids(cancelled)
<1>1. Queued \subseteq Everything /\ cpu \subseteq Everything /\ cancelled \subseteq Everything
  BY DEF Everything
<1>2. /\ r \in Queued => id \in Ids(Queued) /\ Of(Queued, id) = r
      /\ r \in cpu => id \in Ids(cpu) /\ Of(cpu, id) = r
      /\ r \in cancelled => id \in Ids(cancelled) /\ Of(cancelled, id) = r
  BY <1>1, OfFacts DEF IInv
<1>3. \A s \in Everything : s.id = id => s = r
  BY DEF IInv, IdsOK
<1> QED BY <1>1, <1>2, <1>3 DEF Ids

LEMMA PrepareStartsKeeps ==
  ASSUME IInv, failed = "none", PrepareStarts
  PROVE  IInv'
<1>1. pc[Gpu] = "prepare" /\ Busy /\ IsReserved(Me) /\ Stored = 0
  BY StoredFacts DEF PrepareStarts, Busy, IInv, PacketOK
<1>2. PICK r \in Everything : r.id = Me /\ r.state = "Reserved"
  BY <1>1 DEF IsReserved
<1>3. ~r.frame /\ r \in Request
  BY <1>2, ListsNow DEF IInv, StatesOK
<1>4. /\ Recording(r) \in Request /\ Recording(r).id = Me /\ Recording(r).gen = r.gen
      /\ Recording(r).source = r.source /\ Recording(r).state = "Recording"
      /\ ~Recording(r).frame
  BY <1>2, <1>3, RequestFields
<1>5. InLists \in Nat
  BY ListsNow
<1>6. CASE r \in Queued
  <2>1. Me \in Ids(Queued) /\ Of(Queued, Me) = r /\ Me \notin Ids(cpu) /\ Me \notin Ids(cancelled)
    <3>1. \A s \in Everything : s.id = Me => s = r
      BY <1>2 DEF IInv, IdsOK
    <3>2. r \notin cpu /\ r \notin cancelled
      BY <1>6 DEF IInv, IdsOK
    <3> QED BY <1>2, <1>6, <3>1, <3>2, Found DEF Ids, Everything
  <2>2. /\ requests' = Put(Recording(r)) /\ GpuStep("check")
        /\ UNCHANGED <<cpu, cancelled, processing, sleep, arg>>
    BY <1>2, <2>1, Zenon DEF PrepareStarts
  <2>3. UNCHANGED <<opened, gen, pending, gc, nextId>> /\ packet' = packet
    BY <2>2 DEF GpuStep, port, arg
  <2>4. /\ ListsOK' /\ StatusExact' /\ NothingAppears /\ Keeps(r.id)
        /\ Recording(r) \in Queued' /\ Queued' = (Queued \ {r}) \union {Recording(r)}
        /\ requests' # <<>>
        /\ Head(requests') = IF Head(requests) = r THEN Recording(r) ELSE Head(requests)
        /\ InLists' = InLists
    <3>1. Recording(r).frame <=> r.frame
      BY <1>3, <1>4
    <3> QED BY <1>2, <1>4, <1>6, <2>2, <2>3, <3>1, InPlace
  <2>5. SameFront
    BY <1>2, <1>4, <2>4 DEF SameFront
  <2>6. IsRecording(Me)'
    <3>1. Me' = Me /\ Recording(r) \in Everything'
      BY <2>3, <2>4 DEF Me, Everything
    <3> QED BY <1>4, <3>1 DEF IsRecording
  <2>7. InLists' = Stored + InLists
    BY <1>1, <1>5, <2>4
  <2> QED BY <1>1, <1>2, <2>2, <2>4, <2>5, <2>6, <2>7, GpuChanges
<1>7. CASE r \in cpu
  <2>1. Me \in Ids(cpu) /\ Of(cpu, Me) = r /\ Me \notin Ids(Queued) /\ Me \notin Ids(cancelled)
    <3>1. r \notin Queued /\ r \notin cancelled
      BY <1>7 DEF IInv, IdsOK
    <3> QED BY <1>2, <1>7, <3>1, Found
  <2>2. /\ requests' = Append(requests, Recording(r)) /\ cpu' = Drop(cpu, Me)
        /\ GpuStep("check") /\ UNCHANGED <<cancelled, processing, sleep, arg>>
    BY <1>2, <2>1, Zenon DEF PrepareStarts
  <2>3. UNCHANGED <<opened, gen, pending, gc, nextId>> /\ packet' = packet
    BY <2>2 DEF GpuStep, port, arg
  <2>4. cpu' = cpu \ {r}
    BY <1>2, <2>2 DEF Drop, IInv, IdsOK, Everything
  <2>5. /\ ListsOK' /\ StatusExact' /\ NothingAppears /\ Keeps(r.id) /\ SameFront
        /\ Recording(r) \in Queued' /\ InLists' = InLists
    BY <1>7, <2>2, <2>3, <2>4, Placed
  <2>6. IsRecording(Me)'
    <3>1. Me' = Me /\ Recording(r) \in Everything'
      BY <2>3, <2>5 DEF Me, Everything
    <3> QED BY <1>4, <3>1 DEF IsRecording
  <2>7. InLists' = Stored + InLists
    BY <1>1, <1>5, <2>5
  <2> QED BY <1>1, <1>2, <2>2, <2>5, <2>6, <2>7, GpuChanges
<1>8. CASE r \in cancelled
  <2>1. Me \in Ids(cancelled) /\ Of(cancelled, Me) = r /\ Me \notin Ids(Queued) /\ Me \notin Ids(cpu)
    <3>1. \A s \in Everything : s.id = Me => s = r
      BY <1>2 DEF IInv, IdsOK
    <3>2. r \notin cpu /\ r \notin Queued
      BY <1>8 DEF IInv, IdsOK
    <3> QED BY <1>2, <1>8, <3>1, <3>2, Found DEF Ids, Everything
  <2>2. /\ cancelled' = Swap(cancelled, Recording(r)) /\ GpuStep("done")
        /\ UNCHANGED <<requests, cpu, processing, sleep, arg>>
    BY <1>2, <2>1, Zenon DEF PrepareStarts
  <2>3. UNCHANGED <<opened, gen, pending, gc, nextId>> /\ packet' = packet
    BY <2>2 DEF GpuStep, port, arg
  <2>4. /\ ListsOK' /\ StatusExact' /\ NothingAppears /\ Keeps(r.id) /\ SameFront
        /\ Recording(r) \in cancelled' /\ Recording(r) \notin Queued' /\ InLists' = InLists
    <3>1. Recording(r).frame <=> r.frame
      BY <1>3, <1>4
    <3> QED BY <1>2, <1>4, <1>8, <2>2, <2>3, <3>1, InCancelled
  <2>5. IsRecorded(Me)'
    <3>1. Me' = Me /\ Recording(r) \in Everything'
      BY <2>3, <2>4 DEF Me, Everything
    <3> QED BY <1>4, <2>4, <3>1 DEF IsRecorded
  <2>6. InLists' = Stored + InLists
    BY <1>1, <1>5, <2>4
  <2> QED BY <1>1, <1>2, <2>2, <2>4, <2>5, <2>6, GpuChanges
<1> QED BY <1>6, <1>7, <1>8 DEF Everything

LEMMA PrepareCutsKeeps ==
  ASSUME IInv, failed = "none", PrepareCuts
  PROVE  IInv'
<1>1. pc[Gpu] = "cut" /\ Busy /\ IsRecording(Me) /\ Stored = 0 /\ Me # 0
  BY StoredFacts, ZeroIsNoFlip DEF PrepareCuts, Busy, IInv, PacketOK
<1>2. PICK r \in Everything : r.id = Me /\ r.state = "Recording" /\ ~r.frame
  BY <1>1 DEF IsRecording
<1>3. /\ GpuStep("done") /\ UNCHANGED <<cpu, processing, sleep, arg>>
      /\ UNCHANGED <<opened, gen, pending, gc, nextId, packet>>
  BY DEF PrepareCuts, GpuStep, port, arg
<1>4. InLists \in Nat
  BY ListsNow
<1>5. CASE r \in Queued
  <2>1. Me \in Ids(Queued) /\ Of(Queued, Me) = r /\ ~opened
    BY <1>1, <1>2, <1>5, Found DEF IInv, PortOK
  <2>2. requests' = Without(r.id) /\ cancelled' = cancelled \union {r}
    BY <1>2, <2>1 DEF PrepareCuts
  <2>3. /\ ListsOK' /\ StatusExact' /\ NothingAppears /\ Keeps(r.id) /\ SameFront
        /\ r \in cancelled' /\ r \notin Queued' /\ InLists' = InLists
    BY <1>2, <1>3, <1>5, <2>1, <2>2, CutOff
  <2>4. IsRecorded(Me)'
    <3>1. Me' = Me /\ r \in Everything'
      BY <1>3, <2>3 DEF Me, Everything
    <3> QED BY <1>2, <2>3, <3>1 DEF IsRecorded
  <2>5. InLists' = Stored + InLists
    BY <1>1, <1>4, <2>3
  <2> QED BY <1>1, <1>2, <1>3, <2>3, <2>4, <2>5, GpuChanges
<1>6. CASE r \notin Queued
  <2>1. Me \notin Ids(Queued)
    BY <1>2, <1>6, Found
  <2>2. SameLists
    BY <1>3, <2>1 DEF PrepareCuts, SameLists
  <2>3. IdsOK' /\ StatesOK' /\ Keeps(Me) /\ Queued' = Queued /\ Total' = Total
        /\ Everything' = Everything
    BY <1>3, <2>2, ListsKept DEF IInv
  <2>4. ListsOK' /\ StatusExact' /\ NothingAppears /\ SameFront
    <3>1. ListsOK
      BY ListsNow
    <3>2. ListsOK'
      BY <1>3, <2>2, <2>3, <3>1 DEF ListsOK, SameLists, FiniteQueue
    <3>3. StatusExact' /\ NothingAppears /\ SameFront
      BY <1>3, <2>2, StatusQuiet, SameListsFront DEF IInv, NothingAppears, SameLists
    <3> QED BY <3>2, <3>3
  <2>5. IsRecorded(Me)'
    <3>1. Me' = Me /\ r \in Everything' /\ r \notin Queued'
      BY <1>3, <1>6, <2>3 DEF Me
    <3> QED BY <1>2, <3>1 DEF IsRecorded
  <2>6. InLists' = Stored + InLists
    <3>1. InLists' = InLists
      BY <2>2, <2>3 DEF InLists, SameLists
    <3> QED BY <1>1, <1>4, <3>1
  <2> QED BY <1>1, <1>3, <2>3, <2>4, <2>5, <2>6, GpuChanges
<1> QED BY <1>5, <1>6

LEMMA PrepareStoresKeeps ==
  ASSUME IInv, failed = "none", PrepareStores
  PROVE  IInv'
<1>1. pc[Gpu] = "store" /\ Busy /\ IsRecording(Me) /\ Stored = 1
  BY StoredFacts DEF PrepareStores, Busy, IInv, PacketOK
<1>2. PICK r \in Everything : r.id = Me /\ r.state = "Recording" /\ ~r.frame
  BY <1>1 DEF IsRecording
<1>3. r \in Request /\ InLists \in Nat
  BY ListsNow
<1>4. /\ Framed(r) \in Request /\ Framed(r).id = Me /\ Framed(r).gen = r.gen
      /\ Framed(r).source = r.source /\ Framed(r).state = "Recording" /\ Framed(r).frame
  BY <1>2, <1>3, RequestFields
<1>5. r \notin cpu
  BY <1>2 DEF IInv, StatesOK
<1>6. CASE r \in Queued
  <2>1. Me \in Ids(Queued) /\ Of(Queued, Me) = r
    BY <1>2, <1>6, Found
  <2>2. /\ requests' = Put(Framed(r)) /\ GpuStep("done")
        /\ UNCHANGED <<cpu, cancelled, processing, sleep, arg>>
    BY <1>2, <2>1, Zenon DEF PrepareStores, Unframed, Framed
  <2>3. UNCHANGED <<opened, gen, pending, gc, nextId>> /\ packet' = packet
    BY <2>2 DEF GpuStep, port, arg
  <2>4. /\ ListsOK' /\ StatusExact' /\ NothingAppears /\ Keeps(r.id)
        /\ Framed(r) \in Queued' /\ Queued' = (Queued \ {r}) \union {Framed(r)}
        /\ requests' # <<>>
        /\ Head(requests') = IF Head(requests) = r THEN Framed(r) ELSE Head(requests)
        /\ InLists' = InLists + 1
    BY <1>2, <1>4, <1>6, <2>2, <2>3, InPlace
  <2>5. SameFront
    BY <1>2, <1>4, <2>4 DEF SameFront
  <2>6. IsRecorded(Me)'
    <3>1. Me' = Me /\ Framed(r) \in Everything'
      BY <2>3, <2>4 DEF Me, Everything
    <3> QED BY <1>4, <3>1 DEF IsRecorded
  <2>7. InLists' = Stored + InLists
    BY <1>1, <1>3, <2>4
  <2> QED BY <1>1, <1>2, <2>2, <2>4, <2>5, <2>6, <2>7, GpuChanges
<1>7. CASE r \in cancelled
  <2>1. /\ Me \in Ids(cancelled) /\ Of(cancelled, Me) = r /\ Me \notin Ids(Queued)
        /\ r \notin Queued
    <3>1. r \notin Queued
      BY <1>7 DEF IInv, IdsOK
    <3> QED BY <1>2, <1>7, <3>1, Found
  <2>2. /\ cancelled' = Swap(cancelled, Framed(r)) /\ GpuStep("done")
        /\ UNCHANGED <<requests, cpu, processing, sleep, arg>>
    BY <1>2, <2>1, Zenon DEF PrepareStores, Unframed, Framed
  <2>3. UNCHANGED <<opened, gen, pending, gc, nextId>> /\ packet' = packet
    BY <2>2 DEF GpuStep, port, arg
  <2>4. /\ ListsOK' /\ StatusExact' /\ NothingAppears /\ Keeps(r.id) /\ SameFront
        /\ Framed(r) \in cancelled' /\ Framed(r) \notin Queued' /\ InLists' = InLists + 1
    BY <1>2, <1>4, <1>7, <2>2, <2>3, InCancelled
  <2>5. IsRecorded(Me)'
    <3>1. Me' = Me /\ Framed(r) \in Everything'
      BY <2>3, <2>4 DEF Me, Everything
    <3> QED BY <1>4, <2>4, <3>1 DEF IsRecorded
  <2>6. InLists' = Stored + InLists
    BY <1>1, <1>3, <2>4
  <2> QED BY <1>1, <1>2, <2>2, <2>4, <2>5, <2>6, GpuChanges
<1> QED BY <1>5, <1>6, <1>7 DEF Everything

-----------------------------------------------------------------------------
(* Complete                                                                *)

LEMMA CompletesFacts ==
  ASSUME IInv, failed = "none", NEW id, IsRecorded(id), Completes(id),
         UNCHANGED <<opened, gen, pending, gc, nextId>>
  PROVE  /\ failed' = "none" /\ ListsOK' /\ StatusExact' /\ NothingAppears /\ Keeps(id) /\ SameFront
         /\ doneWait' \subseteq Threads /\ slotWait' = slotWait /\ processing' = processing
         /\ free' \in Nat /\ InLists' \in Nat /\ free' + InLists' = free + InLists
         /\ Ids(Queued') \subseteq Ids(Queued)
<1>1. PICK r \in Everything : r.id = id /\ r.state = "Recording" /\ (r \in Queued => r.frame)
  BY DEF IsRecorded
<1>2. r \in Request /\ InLists \in Nat /\ free \in Nat /\ doneWait \subseteq Threads
  <2>1. r \in Request
    BY <1>1, ListsNow DEF Everything
  <2>2. InLists \in Nat
    BY ListsNow
  <2>3. free \in Nat /\ doneWait \subseteq Threads
    BY DEF IInv, TypeOK
  <2> QED BY <2>1, <2>2, <2>3
<1>3. r \notin cpu
  BY <1>1 DEF IInv, StatesOK
<1>4. CASE r \in Queued
  <2>1. id \in Ids(Queued) /\ Of(Queued, id) = r
    BY <1>1, <1>4, Found
  <2>2. requests' = Put(Readied(r)) /\ UNCHANGED <<cpu, cancelled, processing, sleep, free, failed>>
    BY <1>1, <1>4, <2>1, Zenon DEF Completes, Readied
  <2>3. /\ Readied(r) \in Request /\ Readied(r).id = r.id /\ Readied(r).gen = r.gen
        /\ Readied(r).source = r.source /\ Readied(r).state = "Ready"
        /\ Readied(r).frame <=> r.frame
    BY <1>2, RequestFields
  <2>4. /\ ListsOK' /\ StatusExact' /\ NothingAppears /\ Keeps(r.id)
        /\ Queued' = (Queued \ {r}) \union {Readied(r)} /\ requests' # <<>>
        /\ Head(requests') = IF Head(requests) = r THEN Readied(r) ELSE Head(requests)
        /\ InLists' = InLists
    BY <1>1, <1>4, <2>2, <2>3, InPlace
  <2>5. SameFront
    BY <1>1, <2>3, <2>4 DEF SameFront
  <2>6. Ids(Queued') \subseteq Ids(Queued)
    BY <1>4, <2>3, <2>4 DEF Ids
  <2> QED BY <1>1, <1>2, <2>2, <2>4, <2>5, <2>6 DEF sleep
<1>5. CASE r \in cancelled
  <2>1. id \in Ids(cancelled) /\ Of(cancelled, id) = r /\ id \notin Ids(Queued)
    <3>1. r \notin Queued
      BY <1>5 DEF IInv, IdsOK
    <3> QED BY <1>1, <1>5, <3>1, Found
  <2>2. /\ cancelled' = Drop(cancelled, id)
        /\ free' = IF r.frame THEN free + 1 ELSE free
        /\ doneWait' = {}
        /\ UNCHANGED <<requests, cpu, processing, slotWait, failed>>
    BY <1>1, <2>1, Zenon DEF Completes
  <2>3. cancelled' = cancelled \ {r}
    BY <1>1, <1>5, <2>2 DEF Drop, IInv, IdsOK, Everything
  <2>4. /\ ListsOK' /\ StatusExact' /\ NothingAppears /\ Keeps(r.id) /\ SameFront
        /\ r.frame => InLists = InLists' + 1
        /\ ~r.frame => InLists' = InLists
        /\ InLists' \in Nat
    BY <1>5, <2>2, <2>3, Finished
  <2>5. free' \in Nat /\ free' + InLists' = free + InLists
    <3> DEFINE a == InLists
               b == InLists'
    <3>1. CASE r.frame
      <4>1. a = b + 1 /\ b \in Nat /\ free' = free + 1 /\ free \in Nat
        BY <1>2, <2>2, <2>4, <3>1
      <4> HIDE DEF a, b
      <4>2. free' \in Nat /\ free' + b = free + a
        BY <4>1
      <4> QED BY <4>2 DEF a, b
    <3>2. CASE ~r.frame
      BY <1>2, <2>2, <2>4, <3>2
    <3> QED BY <3>1, <3>2
  <2>6. Queued' = Queued
    BY <2>2 DEF Queued
  <2> QED BY <1>1, <2>2, <2>4, <2>5, <2>6
<1> QED BY <1>3, <1>4, <1>5 DEF Everything

\* What is left when a flip has been completed.
LEMMA AfterComplete ==
  ASSUME IInv, failed = "none", NEW id, Keeps(id), ListsOK', StatusExact', NothingAppears, SameFront,
         failed' = "none", processing' = processing,
         doneWait' \subseteq Threads, slotWait' = slotWait,
         free' \in Nat, InLists' \in Nat, free' + InLists' = free + InLists,
         UNCHANGED <<port, jobs, nextId, shown, call, front>>,
         id \notin Sent \union ToSet(jobs), Ids(Queued') \subseteq Ids(Queued),
         \/ pc' = pc /\ packet' = packet
         \/ pc[Gpu] = "done" /\ Go(Gpu, "idle") /\ packet' = NoPacket,
         EopOK', eop' \in Seq(1..ReqMax), PacketOK'
  PROVE  IInv'
<1>1. UNCHANGED <<opened, closing, gen, rate, count, registered, pending, gc>>
  BY DEF port
<1>2. /\ PcsOK' /\ pc'[Present] = pc[Present] /\ \A g \in Guests : pc'[g] = pc[g]
      /\ pc'[Gpu] = pc[Gpu] \/ (pc[Gpu] = "done" /\ pc'[Gpu] = "idle")
  <2>1. PcsOK
    BY PcsFacts DEF IInv
  <2>2. CASE pc' = pc
    <3>1. PcsOK'
      BY <2>1, <2>2 DEF PcsOK
    <3> QED BY <2>2, <3>1
  <2>3. CASE pc[Gpu] = "done" /\ Go(Gpu, "idle")
    <3>1. "idle" \in GpuPcs
      BY DEF GpuPcs
    <3> QED BY <2>1, <2>3, <3>1, GpuGoes DEF Goes
  <2> QED BY <2>2, <2>3
<1>3. JobsOK'
  <2>1. SameSent
    BY <1>2 DEF SameSent
  <2> QED BY <2>1, JobsKept DEF IInv
<1>4. PresentOK'
  BY <1>1, <1>2, PresentKept DEF IInv
<1>5. PortOK'
  <2>1. SameClosing
    BY <1>2 DEF SameClosing
  <2>2. opened => \A r \in Queued' \union cpu' : r.gen = gen
    BY <1>1 DEF ListsOK
  <2>3. Total' <= Capacity
    BY DEF ListsOK
  <2>4. opened \/ closing \/ /\ nextId' = nextId /\ \A g \in Guests : pc'[g] = "free"
                             /\ pc'[Gpu] \in {"idle", "get", "getwait"}
    BY <1>2 DEF IInv, PortOK
  <2>5. pc'[Gpu] = "cut" /\ packet'.id \in Ids(Queued') => ~opened
    BY <1>2 DEF IInv, PortOK, Me
  <2> QED BY <1>1, <2>1, <2>2, <2>3, <2>4, <2>5, PortKept DEF IInv, NothingAppears
<1>6. BoundOK'
  <2>1. Asking' \subseteq Asking
    BY <1>2 DEF Asking
  <2> QED BY <2>1, BoundKept DEF IInv
<1>7. FramesAccounted' /\ free' \in 0..Pool
  <2>1. Stored' = Stored /\ Stored \in Nat /\ InLists \in Nat /\ free \in Nat
    <3>1. InLists \in Nat
      BY ListsNow
    <3> QED BY <1>2, <3>1 DEF Stored, IInv, TypeOK
  <2>2. (free' + Stored') + InLists' = (free + Stored) + InLists
    <3> DEFINE a == Stored
               b == Stored'
               c == InLists
               d == InLists'
    <3>1. a \in Nat /\ b = a /\ c \in Nat /\ d \in Nat /\ free' + d = free + c
          /\ free' \in Nat /\ free \in Nat
      BY <2>1
    <3> HIDE DEF a, b, c, d
    <3>2. (free' + b) + d = (free' + d) + b
      BY <3>1
    <3>3. (free + a) + c = (free + c) + a
      BY <3>1
    <3>4. (free' + b) + d = (free + a) + c
      BY <3>1, <3>2, <3>3
    <3> QED BY <3>4 DEF a, b, c, d
  <2>3. FramesAccounted'
    BY <1>2, <1>5, <2>2, FramesFollow
  <2>4. InHand' \in Nat
    <3>1. PICK k \in Nat : InHand = Stored + k /\ InHand' = Stored' + k
      BY <1>2, <1>5, GpuHands DEF IInv
    <3> DEFINE a == Stored
               v == InHand'
    <3>2. a \in Nat /\ v = a + k
      BY <2>1, <3>1
    <3> HIDE DEF a, v
    <3>3. v \in Nat
      BY <3>2
    <3> QED BY <3>3 DEF v
  <2>5. FreeFacts'
    BY <2>3, FreeNext DEF ListsOK
  <2> QED BY <2>3, <2>4, <2>5 DEF FreeFacts
<1>8. TypeOK'
  BY <1>1, <1>2, <1>7 DEF IInv, TypeOK, PcsOK, ListsOK
<1>9. ArgsOK'
  <2>1. CASE pc' = pc /\ packet' = packet
    BY <2>1 DEF IInv, ArgsOK, Busy, Me
  <2>2. CASE Go(Gpu, "idle") /\ packet' = NoPacket
    <3>1. "idle" \in GpuPcs /\ call' = call
      BY DEF GpuPcs
    <3> QED BY <2>2, <3>1, GpuArgs, PacketFacts DEF IInv, PacketSet
  <2> QED BY <2>1, <2>2
<1>10. QueueStaysConsistent'
  BY DEF QueueStaysConsistent, Internal
<1> QED BY <1>3, <1>4, <1>5, <1>6, <1>7, <1>8, <1>9, <1>10 DEF IInv, ListsOK

\* A flip of the processor is completed by the GPU thread itself.
LEMMA CpuCompletesKeeps ==
  ASSUME IInv, failed = "none", Prepared, packet.source = "Cpu"
  PROVE  IInv'
<1> DEFINE id == Me
<1>1. /\ pc[Gpu] = "done" /\ Completes(id) /\ eop' = eop /\ Go(Gpu, "idle")
      /\ packet' = NoPacket /\ UNCHANGED <<call, front, port, jobs, nextId, shown>>
      /\ UNCHANGED <<opened, gen, pending, gc>>
  BY DEF Prepared, Works, port
<1>2. /\ IsRecorded(id) /\ id \notin Sent \union ToSet(jobs) /\ id \notin ToSet(eop)
  <2>1. Busy
    BY <1>1 DEF Busy
  <2> QED BY <1>1, <2>1 DEF IInv, PacketOK
<1> HIDE DEF id
<1>3. /\ failed' = "none" /\ ListsOK' /\ StatusExact' /\ NothingAppears /\ Keeps(id) /\ SameFront
      /\ doneWait' \subseteq Threads /\ slotWait' = slotWait /\ processing' = processing
      /\ free' \in Nat /\ InLists' \in Nat /\ free' + InLists' = free + InLists
      /\ Ids(Queued') \subseteq Ids(Queued)
  BY <1>1, <1>2, CompletesFacts
<1>4. EopOK' /\ eop' \in Seq(1..ReqMax)
  BY <1>1, <1>2, <1>3, EopKept DEF IInv, TypeOK
<1>5. PacketOK'
  <2>1. pc'[Gpu] = "idle"
    <3>1. "idle" \in GpuPcs
      BY DEF GpuPcs
    <3> QED BY <1>1, <3>1, PcsFacts, GpuGoes DEF IInv, Goes
  <2> QED BY <2>1 DEF PacketOK, Busy
<1> QED BY <1>1, <1>2, <1>3, <1>4, <1>5, AfterComplete

LEMMA EndOfPipeKeeps ==
  ASSUME IInv, failed = "none", EndOfPipe
  PROVE  IInv'
<1> DEFINE id == Head(eop)
<1>1. /\ eop # <<>> /\ Completes(id) /\ eop' = Tail(eop)
      /\ UNCHANGED <<port, jobs, pc, nextId, shown, call, packet, front>>
      /\ UNCHANGED <<opened, gen, pending, gc>>
  BY DEF EndOfPipe, arg, port
<1>2. /\ eop' \in Seq(1..ReqMax) /\ id \in ToSet(eop)
      /\ ToSet(eop') = ToSet(eop) \ {id} /\ Distinct(eop')
  <2>1. Distinct(eop) /\ eop \in Seq(1..ReqMax)
    BY DEF IInv, EopOK, Distinct, TypeOK
  <2> QED BY <1>1, <2>1, TailFacts
<1> HIDE DEF id
<1>3. IsRecorded(id) /\ id \notin Sent \union ToSet(jobs) /\ (Busy => Me # id)
  <2>1. IsRecorded(id)
    BY <1>2 DEF IInv, EopOK
  <2>2. id \notin Sent \union ToSet(jobs)
    BY <2>1, OneStage DEF IInv, JobsOK
  <2>3. Busy => Me # id
    BY <1>2 DEF IInv, PacketOK
  <2> QED BY <2>1, <2>2, <2>3
<1>4. /\ failed' = "none" /\ ListsOK' /\ StatusExact' /\ NothingAppears /\ Keeps(id) /\ SameFront
      /\ doneWait' \subseteq Threads /\ slotWait' = slotWait /\ processing' = processing
      /\ free' \in Nat /\ InLists' \in Nat /\ free' + InLists' = free + InLists
      /\ Ids(Queued') \subseteq Ids(Queued)
  BY <1>1, <1>3, CompletesFacts
<1>5. EopOK'
  <2>1. \A x \in ToSet(eop') : IsRecorded(x)'
    BY <1>2, <1>4, StagesKept DEF IInv, EopOK
  <2> QED BY <1>2, <2>1 DEF EopOK, Distinct
<1>6. PacketOK'
  <2>1. Sent' = Sent
    BY <1>1 DEF Sent
  <2>2. Busy => Me \notin (Sent \union ToSet(jobs) \union ToSet(eop))'
    BY <1>1, <1>2, <2>1 DEF IInv, PacketOK
  <2> QED BY <1>1, <1>3, <1>4, <2>2, PacketKept DEF IInv
<1>7. /\ pc' = pc /\ packet' = packet
      /\ UNCHANGED <<port, jobs, nextId, shown, call, front>>
  BY <1>1
<1>8. eop' \in Seq(1..ReqMax) /\ id \notin Sent \union ToSet(jobs)
  BY <1>2, <1>3
<1> QED BY <1>4, <1>5, <1>6, <1>7, <1>8, AfterComplete

-----------------------------------------------------------------------------
(* Steps of the present thread                                             *)

\* The parts of the state that the present thread never touches.
NotPresent ==
  UNCHANGED <<opened, closing, gen, rate, registered, jobs, eop, call, packet, nextId, failed>>

LEMMA PresentMoves ==
  ASSUME IInv, failed = "none", NEW where \in PresentPcs, Go(Present, where), NotPresent,
         PresentOK', ListsOK', StatusExact', NothingAppears, Keeps(0),
         Ids(Queued') \subseteq Ids(Queued),
         free' \in Nat, free' + InLists' = free + InLists, count' \in 0..(Cycle - 1),
         pending' \in 0..Capacity, gc' \in 0..Capacity, processing' \in BOOLEAN,
         doneWait' \subseteq Threads, slotWait' \subseteq {Gpu}, shown' \in Seq(1..ReqMax)
  PROVE  IInv'
<1>1. /\ PcsOK' /\ pc'[Present] = where /\ pc'[Gpu] = pc[Gpu]
      /\ \A g \in Guests : pc'[g] = pc[g]
  BY PcsFacts, PresentThreadGoes DEF IInv, Goes
<1>2. UNCHANGED <<opened, closing, gen, nextId, jobs, eop, call, packet, failed>>
  BY DEF NotPresent
<1>3. JobsOK' /\ EopOK' /\ PacketOK'
  <2>1. SameSent
    BY <1>1, <1>2 DEF SameSent
  <2> QED BY <1>1, <1>2, <2>1, StagesQuiet
<1>4. PortOK'
  <2>1. SameClosing
    BY <1>1 DEF SameClosing
  <2>2. opened \/ closing \/ /\ nextId' = nextId /\ \A g \in Guests : pc'[g] = "free"
                             /\ pc'[Gpu] \in {"idle", "get", "getwait"}
    BY <1>1, <1>2 DEF IInv, PortOK
  <2>3. opened => \A r \in Queued' \union cpu' : r.gen = gen
    BY <1>2 DEF ListsOK
  <2>4. Total' <= Capacity
    BY DEF ListsOK
  <2>5. pc'[Gpu] = "cut" /\ packet'.id \in Ids(Queued') => ~opened
    BY <1>1, <1>2 DEF IInv, PortOK, Me
  <2> QED BY <1>2, <2>1, <2>2, <2>3, <2>4, <2>5, PortKept DEF IInv, NothingAppears
<1>5. BoundOK'
  BY <1>1, <1>2, AskingShrinks
<1>6. Stored' = Stored /\ Stored \in Nat /\ InLists \in Nat /\ InLists' \in Nat /\ free \in Nat
  <2>1. InLists \in Nat
    BY ListsNow
  <2>2. InLists' \in Nat
    BY HeldNat DEF ListsOK, IdsOK, FiniteQueue, InLists
  <2> QED BY <1>1, <2>1, <2>2 DEF Stored, IInv, TypeOK
<1>7. FramesAccounted'
  <2>1. (free' + Stored') + InLists' = (free + Stored) + InLists
    <3> DEFINE a == Stored
               b == Stored'
               c == InLists
               d == InLists'
    <3>1. a \in Nat /\ b = a /\ c \in Nat /\ d \in Nat /\ free' + d = free + c
          /\ free' \in Nat /\ free \in Nat
      BY <1>6
    <3> HIDE DEF a, b, c, d
    <3>2. (free' + b) + d = (free' + d) + b
      BY <3>1
    <3>3. (free + a) + c = (free + c) + a
      BY <3>1
    <3>4. (free' + b) + d = (free + a) + c
      BY <3>1, <3>2, <3>3
    <3> QED BY <3>4 DEF a, b, c, d
  <2> QED BY <1>1, <1>2, <1>4, <2>1, FramesFollow
<1>8. free' \in 0..Pool
  <2>1. InHand' \in Nat
    <3>1. PICK k \in Nat : InHand = Stored + k /\ InHand' = Stored' + k
      BY <1>1, <1>2, <1>4, GpuHands DEF IInv
    <3> DEFINE a == Stored
               v == InHand'
    <3>2. a \in Nat /\ v = a + k
      BY <1>6, <3>1
    <3> HIDE DEF a, v
    <3>3. v \in Nat
      BY <3>2
    <3> QED BY <3>3 DEF v
  <2>2. FreeFacts'
    BY <1>7, FreeNext DEF ListsOK
  <2> QED BY <2>1, <2>2 DEF FreeFacts
<1>9. TypeOK'
  BY <1>1, <1>8 DEF IInv, TypeOK, PcsOK, ListsOK, NotPresent
<1>10. ArgsOK'
  BY <1>1, <1>2 DEF IInv, ArgsOK, PcsOK, Busy, Me
<1>11. QueueStaysConsistent'
  BY <1>2 DEF IInv, QueueStaysConsistent
<1> QED BY <1>3, <1>4, <1>5, <1>7, <1>9, <1>10, <1>11 DEF IInv, ListsOK

\* The lists, the pool and the status are left alone as well.
LEMMA PresentQuiet ==
  ASSUME IInv, failed = "none", NEW where \in PresentPcs, Go(Present, where), NotPresent,
         PresentOK', SameLists, UNCHANGED <<free, pending, gc, slotWait, shown>>,
         count' \in 0..(Cycle - 1), processing' \in BOOLEAN, doneWait' \subseteq Threads
  PROVE  IInv'
<1>1. /\ IdsOK' /\ StatesOK' /\ Keeps(0) /\ Queued' = Queued /\ Total' = Total
  BY ListsKept DEF IInv, NotPresent
<1>2. ListsOK' /\ NothingAppears
  BY <1>1, ListsNow DEF ListsOK, FiniteQueue, SameLists, NotPresent, NothingAppears
<1>3. StatusExact'
  BY StatusQuiet DEF IInv, NotPresent
<1>4. InLists' = InLists
  BY <1>1 DEF InLists, SameLists
<1>5. free \in Nat /\ Ids(Queued') \subseteq Ids(Queued)
  BY <1>1 DEF IInv, TypeOK
<1>6. /\ pending' \in 0..Capacity /\ gc' \in 0..Capacity /\ slotWait' \subseteq {Gpu}
      /\ shown' \in Seq(1..ReqMax)
  BY DEF IInv, TypeOK
<1>7. free' \in Nat /\ free' + InLists' = free + InLists
  BY <1>4, <1>5
<1> QED BY <1>1, <1>2, <1>3, <1>5, <1>6, <1>7, PresentMoves

LEMMA FlipLooksKeeps ==
  ASSUME IInv, failed = "none", FlipLooks
  PROVE  IInv'
<1>1. pc[Present] = "flip" /\ ~processing /\ PcsOK
      /\ (\A r \in Queued : r.state # "Presenting")
  BY PcsFacts DEF FlipLooks, IInv, PresentOK
<1>2. ASSUME PresentGoes("late"), UNCHANGED <<processing, sleep>> PROVE IInv'
  <2>1. /\ Go(Present, "late") /\ NotPresent /\ SameLists /\ "late" \in PresentPcs
        /\ UNCHANGED <<free, pending, gc, slotWait, shown, count, processing, doneWait>>
    BY <1>2 DEF PresentGoes, NotPresent, SameLists, PresentPcs, port, work, arg, sleep
  <2>2. pc'[Present] = "late" /\ Queued' = Queued
    BY <1>1, <2>1, PresentThreadGoes DEF Goes, SameLists, Queued
  <2>3. PresentOK'
    BY <1>1, <2>1, <2>2 DEF PresentOK
  <2>4. count' \in 0..(Cycle - 1) /\ processing' \in BOOLEAN /\ doneWait' \subseteq Threads
    BY <2>1 DEF IInv, TypeOK
  <2> QED BY <2>1, <2>3, <2>4, PresentQuiet
<1>3. ASSUME requests # <<>>, Head(requests).state = "Ready", processing' = TRUE,
             front' = [id |-> Head(requests).id, gen |-> Head(requests).gen],
             Go(Present, "due"),
             UNCHANGED <<port, requests, cpu, cancelled, sleep, free, work, call, packet,
                         nextId, shown, failed>>
      PROVE  IInv'
  <2>1. /\ NotPresent /\ SameLists /\ "due" \in PresentPcs
        /\ UNCHANGED <<free, pending, gc, slotWait, shown, count, doneWait>>
    BY <1>3 DEF NotPresent, SameLists, PresentPcs, port, work, sleep
  <2>2. pc'[Present] = "due" /\ Queued' = Queued
    BY <1>1, <1>3, <2>1, PresentThreadGoes DEF Goes, SameLists, Queued
  <2>3. IsFront("Ready")'
    BY <1>3 DEF IsFront
  <2>4. PresentOK'
    BY <1>1, <1>3, <2>2, <2>3 DEF PresentOK
  <2>5. count' \in 0..(Cycle - 1) /\ processing' \in BOOLEAN /\ doneWait' \subseteq Threads
    BY <1>3, <2>1 DEF IInv, TypeOK
  <2> QED BY <1>3, <2>1, <2>4, <2>5, PresentQuiet
<1> QED BY <1>1, <1>2, <1>3 DEF FlipLooks

LEMMA FlipTestsKeeps ==
  ASSUME IInv, failed = "none", FlipTests
  PROVE  IInv'
<1> DEFINE where == IF IsFlipDue(front) THEN "show" ELSE "undo"
<1>1. /\ pc[Present] = "due" /\ Go(Present, where) /\ NotPresent /\ SameLists
      /\ UNCHANGED <<free, pending, gc, slotWait, shown, count, processing, doneWait, front>>
  BY DEF FlipTests, PresentGoes, NotPresent, SameLists, port, work, arg, sleep
<1>2. where \in {"show", "undo"} /\ where \in PresentPcs /\ (where = "show" => opened)
  BY DEF IsFlipDue, Current, PresentPcs
<1> HIDE DEF where
<1>3. pc'[Present] = where /\ Queued' = Queued
  BY <1>1, <1>2, PcsFacts, PresentThreadGoes DEF IInv, Goes, SameLists, Queued
<1>4. PresentOK'
  <2>1. processing /\ IsFront("Ready") /\ \A r \in Queued : r.state # "Presenting"
    BY <1>1 DEF IInv, PresentOK
  <2>2. IsFront("Ready")'
    BY <1>1, <2>1 DEF IsFront, SameLists
  <2>3. processing' /\ opened' = opened
    BY <1>1, <2>1 DEF NotPresent
  <2> QED BY <1>2, <1>3, <2>1, <2>2, <2>3 DEF PresentOK
<1>5. count' \in 0..(Cycle - 1) /\ processing' \in BOOLEAN /\ doneWait' \subseteq Threads
  BY <1>1 DEF IInv, TypeOK
<1> QED BY <1>1, <1>2, <1>4, <1>5, PresentQuiet

LEMMA FlipUndoesKeeps ==
  ASSUME IInv, failed = "none", FlipUndoes
  PROVE  IInv'
<1>1. /\ pc[Present] = "undo" /\ Go(Present, "late") /\ NotPresent /\ SameLists
      /\ UNCHANGED <<free, pending, gc, slotWait, shown, count>>
      /\ processing' = FALSE /\ doneWait' = {} /\ "late" \in PresentPcs
  BY DEF FlipUndoes, PresentGoes, NotPresent, SameLists, port, work, arg, PresentPcs
<1>2. pc'[Present] = "late" /\ Queued' = Queued
  BY <1>1, PcsFacts, PresentThreadGoes DEF IInv, Goes, SameLists, Queued
<1>3. PresentOK'
  <2>1. \A r \in Queued : r.state # "Presenting"
    BY <1>1 DEF IInv, PresentOK
  <2> QED BY <1>1, <1>2, <2>1 DEF PresentOK
<1>4. count' \in 0..(Cycle - 1) /\ processing' \in BOOLEAN /\ doneWait' \subseteq Threads
  BY <1>1 DEF IInv, TypeOK
<1> QED BY <1>1, <1>3, <1>4, PresentQuiet

\* Flip is not about to show anything, before or afterwards.
LEMMA NothingShown ==
  ASSUME IInv, failed = "none", pc[Present] \in {"late", "blank", "vblank"},
         NEW where \in {"blank", "vblank", "flip"}, Go(Present, where), NotPresent, SameLists,
         UNCHANGED <<free, pending, gc, slotWait, shown, processing, doneWait>>,
         count' \in 0..(Cycle - 1)
  PROVE  IInv'
<1>1. where \in PresentPcs
  BY DEF PresentPcs
<1>2. pc'[Present] = where /\ Queued' = Queued
  BY <1>1, PcsFacts, PresentThreadGoes DEF IInv, Goes, SameLists, Queued
<1>3. PresentOK'
  <2>1. ~processing /\ \A r \in Queued : r.state # "Presenting"
    BY DEF IInv, PresentOK
  <2> QED BY <1>2, <2>1 DEF PresentOK
<1>4. processing' \in BOOLEAN /\ doneWait' \subseteq Threads
  BY DEF IInv, TypeOK
<1> QED BY <1>1, <1>3, <1>4, PresentQuiet

LEMMA PresentLateKeeps ==
  ASSUME IInv, failed = "none", PresentLate
  PROVE  IInv'
<1>1. /\ pc[Present] = "late" /\ Go(Present, "blank") /\ NotPresent /\ SameLists
      /\ UNCHANGED <<free, pending, gc, slotWait, shown, processing, doneWait, count>>
  BY DEF PresentLate, PresentGoes, NotPresent, SameLists, port, work, arg, sleep
<1>2. count' \in 0..(Cycle - 1)
  BY <1>1 DEF IInv, TypeOK
<1> QED BY <1>1, <1>2, NothingShown

LEMMA PresentBlankKeeps ==
  ASSUME IInv, failed = "none", PresentBlank
  PROVE  IInv'
<1>1. /\ pc[Present] = "blank" /\ Go(Present, "vblank") /\ NotPresent /\ SameLists
      /\ UNCHANGED <<free, pending, gc, slotWait, shown, processing, doneWait, count>>
  BY DEF PresentBlank, PresentGoes, NotPresent, SameLists, port, work, arg, sleep
<1>2. count' \in 0..(Cycle - 1)
  BY <1>1 DEF IInv, TypeOK
<1> QED BY <1>1, <1>2, NothingShown

LEMMA VblankKeeps ==
  ASSUME IInv, failed = "none", Vblank
  PROVE  IInv'
<1>1. /\ pc[Present] \in {"late", "vblank"} /\ Go(Present, "flip") /\ NotPresent /\ SameLists
      /\ UNCHANGED <<free, pending, gc, slotWait, shown, processing, doneWait>>
      /\ count' = IF opened THEN (count + 1) % Cycle ELSE count
  BY DEF Vblank, NotPresent, SameLists, lists, work, sleep
<1>2. count' \in 0..(Cycle - 1)
  <2>1. count \in 0..(Cycle - 1) /\ Cycle \in Nat \ {0}
    BY FlipAssumption DEF IInv, TypeOK
  <2>2. (count + 1) % Cycle \in 0..(Cycle - 1)
    BY <2>1
  <2> QED BY <1>1, <2>1, <2>2
<1> QED BY <1>1, <1>2, NothingShown

\* The flip that is due is put on the screen.
LEMMA FlipShowsKeeps ==
  ASSUME IInv, failed = "none", FlipShows
  PROVE  IInv'
<1> DEFINE old == Head(requests)
           new == OnScreen(old)
<1>1. pc[Present] = "show" /\ processing /\ IsFront("Ready") /\ opened
  BY DEF FlipShows, IInv, PresentOK
<1>2. /\ requests' = Put(new) /\ Go(Present, "pop") /\ NotPresent
      /\ UNCHANGED <<cpu, cancelled, free, pending, gc, slotWait, shown, count, processing,
                     doneWait, front>>
  BY <1>1, Zenon DEF FlipShows, NotPresent, port, work, arg, sleep, OnScreen
<1>3. requests # <<>> /\ old.id = front.id /\ old.state = "Ready" /\ old \in Queued
  BY <1>1, QueuedFacts DEF IsFront, IInv
<1>4. old \in Request /\ old.frame /\ old \in Everything
  BY <1>3, ListsNow DEF IInv, StatesOK, Everything
<1>5. /\ new \in Request /\ new.id = old.id /\ new.gen = old.gen /\ new.source = old.source
      /\ new.state = "Presenting" /\ new.frame = old.frame
  BY <1>4, RequestFields
<1> HIDE DEF old, new
<1>6. /\ ListsOK' /\ StatusExact' /\ NothingAppears /\ Keeps(old.id)
      /\ Queued' = (Queued \ {old}) \union {new} /\ requests' # <<>>
      /\ Head(requests') = IF Head(requests) = old THEN new ELSE Head(requests)
      /\ InLists' = InLists
  <2>1. UNCHANGED <<cpu, cancelled, opened, gen, pending, gc, nextId>>
    BY <1>2 DEF NotPresent
  <2>2. /\ new.state \in {"Ready", "Presenting"} => new.frame
        /\ new.state = "Reserved" => ~new.frame
        /\ new.frame <=> old.frame
    BY <1>4, <1>5
  <2> QED BY <1>2, <1>3, <1>5, <2>1, <2>2, InPlace
<1>7. Keeps(0)
  BY <1>3, <1>4, <1>6 DEF Keeps, IInv, IdsOK
<1>8. Head(requests') = new
  BY <1>6 DEF old
<1>9. "pop" \in PresentPcs /\ pc'[Present] = "pop"
  <2>1. "pop" \in PresentPcs
    BY DEF PresentPcs
  <2> QED BY <1>2, <2>1, PcsFacts, PresentThreadGoes DEF IInv, Goes
<1>10. PresentOK'
  <2>1. \A r \in Queued : r.state # "Presenting"
    BY <1>1 DEF IInv, PresentOK
  <2>2. IsFront("Presenting")'
    BY <1>2, <1>3, <1>5, <1>6, <1>8 DEF IsFront
  <2>3. processing' /\ opened'
    BY <1>1, <1>2 DEF NotPresent
  <2> QED BY <1>6, <1>8, <1>9, <2>1, <2>2, <2>3 DEF PresentOK
<1>11. Ids(Queued') \subseteq Ids(Queued)
  BY <1>3, <1>5, <1>6 DEF Ids
<1>12. free' \in Nat /\ free' + InLists' = free + InLists
  BY <1>2, <1>6 DEF IInv, TypeOK
<1>13. /\ pending' \in 0..Capacity /\ gc' \in 0..Capacity /\ slotWait' \subseteq {Gpu}
       /\ shown' \in Seq(1..ReqMax) /\ count' \in 0..(Cycle - 1) /\ processing' \in BOOLEAN
       /\ doneWait' \subseteq Threads
  BY <1>2 DEF IInv, TypeOK
<1> QED BY <1>2, <1>6, <1>7, <1>9, <1>10, <1>11, <1>12, <1>13, PresentMoves

\* The flip shown leaves the queue, and its frame goes back.
LEMMA FlipPopsKeeps ==
  ASSUME IInv, failed = "none", FlipPops
  PROVE  IInv'
<1> DEFINE old == Head(requests)
<1>1. pc[Present] = "pop" /\ IsFront("Presenting") /\ opened
  BY DEF FlipPops, IInv, PresentOK
<1>2. /\ requests' = Tail(requests) /\ shown' = Append(shown, old.id)
      /\ pending' = Total - 1
      /\ gc' = (IF old.source = "GpuEop" /\ gc > 0 THEN gc - 1 ELSE gc)
      /\ free' = free + 1 /\ processing' = FALSE /\ doneWait' = {} /\ slotWait' = {}
      /\ Go(Present, "vblank") /\ NotPresent /\ UNCHANGED <<cpu, cancelled, count>>
  BY <1>1 DEF FlipPops, NotPresent, work, arg
<1>3. requests # <<>> /\ old.state = "Presenting"
  BY <1>1 DEF IsFront
<1>4. /\ requests' \in Seq(Request) /\ Len(requests') = Len(requests) - 1
      /\ old \in Queued /\ old \in Request /\ Queued' = Queued \ {old} /\ Distinct(requests')
      /\ Len(requests') \in Nat
  <2>1. requests \in Seq(Request) /\ Distinct(requests)
    BY QueuedFacts DEF IInv
  <2>2. /\ Tail(requests) \in Seq(Request) /\ Len(Tail(requests)) = Len(requests) - 1
        /\ old \in Request /\ old \in ToSet(requests)
        /\ ToSet(Tail(requests)) = ToSet(requests) \ {old} /\ Distinct(Tail(requests))
    BY <1>3, <2>1, TailFacts
  <2>3. Len(Tail(requests)) \in Nat
    BY <2>2
  <2> QED BY <1>2, <2>2, <2>3 DEF Queued
<1>5. old.frame
  BY <1>3, <1>4 DEF IInv, StatesOK
<1>6. /\ Everything' \subseteq Everything
      /\ \A r \in Everything : r # old => r \in Everything'
  BY <1>2, <1>4 DEF Everything
<1>7. /\ IsFiniteSet(Queued) /\ IsFiniteSet(Queued')
      /\ HeldBy(Queued) = HeldBy(Queued') + 1 /\ HeldBy(Queued') \in Nat
      /\ HeldBy(cpu) \in Nat /\ HeldBy(cancelled) \in Nat
      /\ old.source = "GpuEop" => EopsIn(Queued) = EopsIn(Queued') + 1
      /\ old.source # "GpuEop" => EopsIn(Queued) = EopsIn(Queued')
      /\ EopsIn(Queued') \in Nat
  BY <1>4, <1>5, ListsNow, CountsDrop
<1> HIDE DEF old
<1>8. IdsOK'
  <2>1. (\A i, j \in DOMAIN requests : requests[i].id = requests[j].id => i = j)'
    <3> DEFINE w == requests'
    <3>1. \A i \in DOMAIN w : w[i] \in Everything
      BY <1>4 DEF ToSet, Queued, Everything
    <3>2. \A i, j \in DOMAIN w : w[i].id = w[j].id => w[i] = w[j]
      BY <3>1 DEF IInv, IdsOK
    <3> QED BY <1>4, <3>2 DEF Distinct
  <2>2. (\A r, s \in Everything : r.id = s.id => r = s)' /\ (\A r \in Everything : r.id < nextId)'
    BY <1>2, <1>6 DEF IInv, IdsOK, NotPresent
  <2>3. (Queued \intersect cpu = {} /\ Queued \intersect cancelled = {}
           /\ cpu \intersect cancelled = {})'
    BY <1>2, <1>4 DEF IInv, IdsOK
  <2> QED BY <1>2, <2>1, <2>2, <2>3 DEF IInv, IdsOK
<1>9. StatesOK'
  BY <1>2, <1>4, <1>6 DEF IInv, StatesOK
<1>10. Total' = Total - 1 /\ Total' \in Nat /\ Total' <= Capacity /\ Capacity \in Nat
  <2>1. /\ Len(requests) \in Nat /\ Cardinality(cpu) \in Nat /\ Capacity \in Nat
        /\ Total <= Capacity
    BY ListsNow DEF ListsOK
  <2>2. /\ Total = Len(requests) + Cardinality(cpu)
        /\ Total' = Len(requests') + Cardinality(cpu)
    BY <1>2 DEF Total
  <2> DEFINE t == Total
             u == Total'
             a == Len(requests)
             b == Len(requests')
             c == Cardinality(cpu)
  <2>3. /\ t = a + c /\ u = b + c /\ b = a - 1 /\ b \in Nat /\ a \in Nat /\ c \in Nat
        /\ t <= Capacity /\ Capacity \in Nat
    BY <1>4, <2>1, <2>2
  <2> HIDE DEF t, u, a, b, c
  <2>4. u = t - 1 /\ u \in Nat /\ u <= Capacity
    BY <2>3
  <2> QED BY <2>1, <2>4 DEF t, u
<1>11. ListsOK'
  <2>1. cpu' \subseteq Request /\ cancelled' \subseteq Request
    BY <1>2 DEF IInv, TypeOK
  <2>2. (opened => \A r \in Queued \union cpu : r.gen = gen)'
    BY <1>2, <1>4 DEF IInv, PortOK, NotPresent
  <2> QED BY <1>4, <1>7, <1>8, <1>9, <1>10, <2>1, <2>2 DEF ListsOK, FiniteQueue
<1>12. gc' = EopsIn(Queued') /\ gc' \in 0..Capacity
  <2>1. gc = EopsIn(Queued) /\ gc \in 0..Capacity
    BY <1>1 DEF IInv, TypeOK, StatusExact, EopsIn
  <2> DEFINE e == EopsIn(Queued')
  <2>2. /\ old.source = "GpuEop" => gc = e + 1
        /\ old.source # "GpuEop" => gc = e
        /\ e \in Nat
    BY <1>7, <2>1
  <2> HIDE DEF e
  <2>3. gc' = e
    BY <1>2, <2>1, <2>2 DEF old
  <2>4. e \in 0..Capacity
    BY <1>10, <2>1, <2>2
  <2> QED BY <2>3, <2>4 DEF e
<1>13. StatusExact'
  BY <1>2, <1>10, <1>12 DEF StatusExact, EopsIn
<1>14. NothingAppears /\ Keeps(0) /\ Ids(Queued') \subseteq Ids(Queued)
  <2>1. NothingAppears
    BY <1>3 DEF NothingAppears
  <2>2. Keeps(0)
    BY <1>3, <1>4, <1>6 DEF Keeps, old
  <2>3. Ids(Queued') \subseteq Ids(Queued)
    BY <1>4 DEF Ids
  <2> QED BY <2>1, <2>2, <2>3
<1>15. free' \in Nat /\ free' + InLists' = free + InLists
  <2> DEFINE a == HeldBy(Queued)
             b == HeldBy(cpu)
             c == HeldBy(cancelled)
             d == HeldBy(Queued')
             u == InLists
             v == InLists'
  <2>1. u = a + b + c /\ v = d + b + c
    BY <1>2 DEF InLists
  <2>2. a = d + 1 /\ d \in Nat /\ b \in Nat /\ c \in Nat /\ free \in Nat /\ free' = free + 1
    BY <1>2, <1>7 DEF IInv, TypeOK
  <2> HIDE DEF a, b, c, d, u, v
  <2>3. free' \in Nat /\ free' + v = free + u
    BY <2>1, <2>2
  <2> QED BY <2>3 DEF u, v
<1>16. "vblank" \in PresentPcs /\ pc'[Present] = "vblank"
  <2>1. "vblank" \in PresentPcs
    BY DEF PresentPcs
  <2> QED BY <1>2, <2>1, PcsFacts, PresentThreadGoes DEF IInv, Goes
<1>17. PresentOK'
  <2>1. \A r \in Queued : r.state = "Presenting" => r = old
    BY DEF IInv, PresentOK, old
  <2> QED BY <1>2, <1>4, <1>16, <2>1 DEF PresentOK
<1>18. shown' \in Seq(1..ReqMax)
  <2>1. shown \in Seq(1..ReqMax) /\ old.id \in 1..ReqMax
    BY <1>4, RequestFields DEF IInv, TypeOK
  <2> DEFINE S == 1..ReqMax
  <2> HIDE DEF S
  <2>2. shown \in Seq(S) /\ old.id \in S
    BY <2>1 DEF S
  <2>3. Append(shown, old.id) \in Seq(S)
    BY <2>2
  <2> QED BY <1>2, <2>3 DEF S, old
<1>19. pending' \in 0..Capacity
  BY <1>2, <1>10
<1>20. /\ count' \in 0..(Cycle - 1) /\ processing' \in BOOLEAN /\ doneWait' \subseteq Threads
       /\ slotWait' \subseteq {Gpu}
  BY <1>2 DEF IInv, TypeOK
<1> QED BY <1>2, <1>11, <1>12, <1>13, <1>14, <1>15, <1>16, <1>17, <1>18, <1>19, <1>20, PresentMoves

-----------------------------------------------------------------------------
(* The invariant                                                           *)

LEMMA InitEstablishes == Init => IInv
<1> SUFFICES ASSUME Init PROVE IInv
  OBVIOUS
<1>1. /\ opened = FALSE /\ closing = FALSE /\ gen = 0 /\ rate = 0 /\ count = 0
      /\ registered = FALSE /\ pending = 0 /\ gc = 0
      /\ requests = <<>> /\ cpu = {} /\ cancelled = {} /\ processing = FALSE
      /\ doneWait = {} /\ slotWait = {} /\ free = Pool /\ jobs = <<>> /\ eop = <<>>
      /\ call = [g \in Guests |-> NoCall] /\ packet = NoPacket
      /\ nextId = 1 /\ shown = <<>> /\ failed = "none"
  BY DEF Init
<1>2. pc = [t \in Threads |-> IF t = Gpu THEN "idle" ELSE IF t = Present THEN "flip" ELSE "free"]
  BY DEF Init
<1>3. pc[Gpu] = "idle" /\ pc[Present] = "flip" /\ \A g \in Guests : pc[g] = "free"
  BY <1>2, ThreadFacts
<1>4. PcsOK
  <2>1. {"idle", "flip", "free"} \subseteq GuestPcs \union GpuPcs \union PresentPcs
        /\ "idle" \in GpuPcs /\ "flip" \in PresentPcs /\ "free" \in GuestPcs
    BY DEF GuestPcs, GpuPcs, PresentPcs
  <2> QED BY <1>2, <1>3, <2>1 DEF PcsOK
<1>5. Queued = {} /\ Everything = {} /\ Total = 0 /\ ToSet(jobs) = {} /\ ToSet(eop) = {}
  <2>1. Len(requests) = 0 /\ Cardinality(cpu) = 0
    BY <1>1, FS_EmptySet
  <2>2. ToSet(<<>>) = {}
    BY DEF ToSet
  <2> QED BY <1>1, <2>1, <2>2 DEF Queued, Everything, Total
<1>6. Sent = {} /\ ~Busy /\ Asking = {}
  BY <1>3 DEF Sent, Busy, Asking
<1>7. TypeOK
  <2>1. /\ 0 \in 0..GenMax /\ 0 \in 0..2 /\ 0 \in 0..(Cycle - 1) /\ 0 \in 0..Capacity
        /\ Pool \in 0..Pool /\ 1 \in 1..(ReqMax + 1)
    BY FlipAssumption
  <2>2. /\ requests \in Seq(Request) /\ jobs \in Seq(1..ReqMax) /\ eop \in Seq(1..ReqMax)
        /\ shown \in Seq(1..ReqMax)
    BY <1>1
  <2>3. /\ opened \in BOOLEAN /\ closing \in BOOLEAN /\ registered \in BOOLEAN
        /\ processing \in BOOLEAN /\ failed \in {"none"} \union Internal \union OfGuest
    BY <1>1
  <2>4. /\ gen \in 0..GenMax /\ rate \in 0..2 /\ count \in 0..(Cycle - 1)
        /\ pending \in 0..Capacity /\ gc \in 0..Capacity /\ free \in 0..Pool
        /\ nextId \in 1..(ReqMax + 1)
    BY <1>1, <2>1
  <2>5. /\ cpu \subseteq Request /\ cancelled \subseteq Request
        /\ doneWait \subseteq Threads /\ slotWait \subseteq {Gpu}
    BY <1>1
  <2> QED BY <1>4, <2>2, <2>3, <2>4, <2>5 DEF TypeOK, PcsOK
<1>8. ArgsOK
  <2>1. /\ call \in [Guests -> AnyCall] /\ packet \in PacketSet
    BY <1>1, CallFacts, PacketFacts
  <2> QED BY <1>3, <1>4, <1>6, <2>1 DEF ArgsOK, AnyCall, PacketSet, PcsOK
<1>9. IdsOK /\ StatesOK
  BY <1>1, <1>5, FS_EmptySet DEF IdsOK, StatesOK
<1>10. JobsOK /\ PacketOK /\ EopOK
  BY <1>1, <1>3, <1>5, <1>6 DEF JobsOK, PacketOK, EopOK
<1>11. PresentOK
  BY <1>1, <1>3, <1>5 DEF PresentOK
<1>12. PortOK
  BY <1>1, <1>3, <1>5, FlipAssumption DEF PortOK
<1>13. BoundOK
  BY <1>1, <1>6, FS_EmptySet, FlipAssumption DEF BoundOK
<1>14. QueueStaysConsistent /\ StatusExact
  BY <1>1 DEF QueueStaysConsistent, StatusExact, Internal
<1>15. FramesAccounted
  <2>1. HeldBy({}) = 0
    BY FS_EmptySet DEF HeldBy
  <2>2. InHand = 0
    BY <1>3 DEF InHand
  <2> QED BY <1>1, <1>5, <2>1, <2>2, FlipAssumption DEF FramesAccounted
<1> QED BY <1>7, <1>8, <1>9, <1>10, <1>11, <1>12, <1>13, <1>14, <1>15 DEF IInv

LEMMA GuestCallsKeep ==
  ASSUME IInv, failed = "none", GuestCalls
  PROVE  IInv'
<1>1. ASSUME NEW g \in Controllers, Open(g) \/ Close(g) PROVE IInv'
  <2>1. g \in Guests
    BY DEF Guests
  <2> QED BY <1>1, <2>1, OpenKeeps, CloseKeeps
<1>2. ASSUME NEW g \in Submitters, NEW c \in Calls, Get(g, c) PROVE IInv'
  <2>1. g \in Guests
    BY DEF Guests
  <2> QED BY <1>2, <2>1, GetKeeps
<1> QED BY <1>1, <1>2 DEF GuestCalls

LEMMA GuestStepKeeps ==
  ASSUME IInv, failed = "none", NEW g \in Guests, GuestStep(g)
  PROVE  IInv'
BY CancelWaitsKeeps, CancelKeeps, CloseReturnsKeeps, SubmitFlipKeeps,
   SubmitFlipPreparationKeeps, SetFlipRateKeeps, ChangeBuffersKeeps DEF GuestStep

LEMMA GpuStepsKeep ==
  ASSUME IInv, failed = "none", GpuSteps
  PROVE  IInv'
<1>1. CASE Prepared
  BY <1>1, CpuCompletesKeeps, DefersKeeps
<1>2. CASE TakeJob \/ GpuGets \/ GpuReserves \/ WaitForSubmitSlot \/ WaitFlipDone
  BY <1>2, TakeJobKeeps, GpuGetsKeeps, GpuReservesKeeps, WaitForSubmitSlotKeeps,
     WaitFlipDoneKeeps
<1>3. CASE PrepareStarts \/ PrepareChecks \/ PrepareCuts \/ PrepareFrame \/ PrepareStores
  BY <1>3, PrepareStartsKeeps, PrepareChecksKeeps, PrepareCutsKeeps, PrepareFrameKeeps,
     PrepareStoresKeeps
<1> QED BY <1>1, <1>2, <1>3 DEF GpuSteps

LEMMA PresentStepsKeep ==
  ASSUME IInv, failed = "none", PresentSteps
  PROVE  IInv'
BY FlipLooksKeeps, FlipTestsKeeps, FlipUndoesKeeps, FlipShowsKeeps, FlipPopsKeeps,
   PresentLateKeeps, PresentBlankKeeps, VblankKeeps DEF PresentSteps

LEMMA StutterKeeps ==
  ASSUME IInv, UNCHANGED vars
  PROVE  IInv'
<1>1. /\ UNCHANGED <<port, lists, free, work, pc, arg, nextId, shown>>
      /\ doneWait' = doneWait /\ slotWait' = slotWait /\ failed' = failed
  BY DEF vars, sleep
<1>2. failed \in {"none"} \union OfGuest /\ doneWait \subseteq Threads /\ slotWait \subseteq {Gpu}
  BY DEF IInv, TypeOK, QueueStaysConsistent
<1> QED BY <1>1, <1>2, OnlySleep

LEMMA Inductive == IInv /\ [Next]_vars => IInv'
<1> SUFFICES ASSUME IInv, [Next]_vars PROVE IInv'
  OBVIOUS
<1>1. CASE UNCHANGED vars
  BY <1>1, StutterKeeps
<1>2. ASSUME Next PROVE IInv'
  <2>1. failed = "none"
    BY <1>2 DEF Next
  <2>2. CASE GuestCalls
    BY <2>1, <2>2, GuestCallsKeep
  <2>3. ASSUME NEW g \in Guests, GuestStep(g) PROVE IInv'
    BY <2>1, <2>3, GuestStepKeeps
  <2>4. CASE Packets
    BY <2>1, <2>4, StartPacketKeeps DEF Packets
  <2>5. CASE GpuSteps
    BY <2>1, <2>5, GpuStepsKeep
  <2>6. CASE EndOfPipe
    BY <2>1, <2>6, EndOfPipeKeeps
  <2>7. CASE PresentSteps
    BY <2>1, <2>7, PresentStepsKeep
  <2> QED BY <1>2, <2>2, <2>3, <2>4, <2>5, <2>6, <2>7 DEF Next
<1> QED BY <1>1, <1>2

LEMMA Invariance == Spec => []IInv
BY InitEstablishes, Inductive, PTL DEF Spec

\* Every variable keeps its type: in particular a frame is never given back
\* to a full pool, and flipPendingNum never exceeds the queue's capacity.
THEOREM TypeCorrect == Spec => []TypeOK
<1>1. IInv => TypeOK
  BY DEF IInv
<1> QED BY <1>1, Invariance, PTL

\* Whatever Close cancels between two sections of Prepare, before Complete or
\* while Flip is at work, FlipQueue never meets a request in a state it does
\* not expect: none of its own EXIT_IFs is reached.
THEOREM QueueNeverInconsistent == Spec => []QueueStaysConsistent
<1>1. IInv => QueueStaysConsistent
  BY DEF IInv
<1> QED BY <1>1, Invariance, PTL

\* While the port is open, flipPendingNum is the number of flips that wait
\* and gcQueueNum the number of those the GPU submitted.
THEOREM StatusAlwaysExact == Spec => []StatusExact
<1>1. IInv => StatusExact
  BY DEF IInv
<1> QED BY <1>1, Invariance, PTL

\* Every frame of the pool is free, held by one request, or in the hands of
\* one thread: FinishRequest, Cancel and Close give each back exactly once.
THEOREM FramesAlwaysAccounted == Spec => []FramesAccounted
<1>1. IInv => FramesAccounted
  BY DEF IInv
<1> QED BY <1>1, Invariance, PTL

-----------------------------------------------------------------------------
(* The queue of the open port is what FlipService promises                 *)

\* A step that FlipService does not see.
Unseen ==
  /\ UNCHANGED <<opened, nextId, shown>>
  /\ opened => QueueIds' = QueueIds /\ Ids(cpu') = Ids(cpu)

LEMMA UnseenStutters ==
  ASSUME Unseen
  PROVE  UNCHANGED Service!vars
<1>1. opened' = opened /\ shown' = shown /\ nextId' = nextId
  BY DEF Unseen
<1>2. CASE opened
  <2>1. QueueIds' = QueueIds /\ Ids(cpu)' = Ids(cpu)
    BY <1>2 DEF Unseen
  <2> QED BY <1>1, <2>1 DEF Service!vars
<1>3. CASE ~opened
  BY <1>1, <1>3 DEF Service!vars
<1> QED BY <1>2, <1>3

\* Numbers stay where they are when the list does, and when one of its
\* requests changes in its place.
LEMMA SameIds ==
  /\ requests' = requests => QueueIds' = QueueIds
  /\ \A new : requests' = Put(new) => QueueIds' = QueueIds
  /\ requests' = requests /\ cpu' = cpu /\ UNCHANGED <<opened, nextId, shown>> => Unseen
<1>1. requests' = requests => QueueIds' = QueueIds
  BY DEF QueueIds
<1>2. ASSUME NEW new, requests' = Put(new) PROVE QueueIds' = QueueIds
  <2>1. DOMAIN requests' = DOMAIN requests
    BY <1>2 DEF Put
  <2>2. \A i \in DOMAIN requests : requests'[i].id = requests[i].id
    BY <1>2 DEF Put
  <2> QED BY <2>1, <2>2 DEF QueueIds
<1>3. requests' = requests /\ cpu' = cpu /\ UNCHANGED <<opened, nextId, shown>> => Unseen
  BY <1>1 DEF Unseen
<1> QED BY <1>1, <1>2, <1>3

\* The ids of the queue as a sequence.
LEMMA QueueIdsFacts ==
  ASSUME IInv
  PROVE  /\ QueueIds \in Seq(1..ReqMax) /\ Len(QueueIds) = Len(requests)
         /\ \A i \in 1..Len(requests) : QueueIds[i] = requests[i].id
         /\ requests # <<>> => QueueIds # <<>> /\ Head(QueueIds) = Head(requests).id
<1> DEFINE n == Len(requests)
           S == 1..ReqMax
<1>1. requests \in Seq(Request) /\ n \in Nat /\ DOMAIN requests = 1..n
  BY DEF IInv, TypeOK
<1>2. \A i \in 1..n : requests[i].id \in S
  <2>1. ASSUME NEW i \in 1..n PROVE requests[i].id \in S
    <3>1. requests[i] \in Request
      BY <1>1
    <3> QED BY <3>1, RequestFields
  <2> QED BY <2>1
<1> HIDE DEF S
<1>3. QueueIds \in [1..n -> S] /\ \A i \in 1..n : QueueIds[i] = requests[i].id
  BY <1>1, <1>2 DEF QueueIds
<1>4. QueueIds \in Seq(S) /\ Len(QueueIds) = n
  <2> DEFINE q == QueueIds
  <2>1. q \in [1..n -> S] /\ n \in Nat
    BY <1>1, <1>3
  <2> HIDE DEF q, n
  <2>2. q \in Seq(S) /\ Len(q) = n
    BY <2>1
  <2> QED BY <2>2 DEF q
<1>5. ASSUME requests # <<>> PROVE QueueIds # <<>> /\ Head(QueueIds) = Head(requests).id
  <2> DEFINE q == QueueIds
  <2>1. n # 0 /\ Head(requests) = requests[1]
    BY <1>1, <1>5
  <2>2. q \in Seq(S) /\ Len(q) = n /\ n \in Nat /\ q[1] = requests[1].id
    BY <1>1, <1>3, <1>4, <2>1
  <2> HIDE DEF q, n
  <2>3. q # <<>>
    <3>1. q = <<>> => Len(q) = 0
      OBVIOUS
    <3> QED BY <2>1, <2>2, <3>1
  <2>4. Head(q) = q[1]
    BY <2>2, <2>3
  <2> QED BY <2>1, <2>2, <2>3, <2>4 DEF q
<1> QED BY <1>3, <1>4, <1>5 DEF S

\* As many flips of the processor as numbers of theirs.
LEMMA IdsCount ==
  ASSUME IInv
  PROVE  IsFiniteSet(Ids(cpu)) /\ Cardinality(Ids(cpu)) = Cardinality(cpu)
<1> DEFINE f == [r \in cpu |-> r.id]
<1>1. f \in Bijection(cpu, Ids(cpu))
  <2>1. f \in [cpu -> Ids(cpu)] /\ \A x \in Ids(cpu) : \E r \in cpu : f[r] = x
    BY DEF Ids
  <2>2. \A r, s \in cpu : f[r] = f[s] => r = s
    BY DEF IInv, IdsOK, Everything
  <2>3. f \in Surjection(cpu, Ids(cpu))
    BY <2>1 DEF Surjection
  <2>4. f \in Injection(cpu, Ids(cpu))
    BY <2>1, <2>2 DEF Injection, IsInjective
  <2> QED BY <2>3, <2>4 DEF Bijection
<1>2. IsFiniteSet(cpu)
  BY DEF IInv, IdsOK
<1> QED BY <1>1, <1>2, FS_Bijection DEF ExistsBijection

\* A request joins the queue at its end.
LEMMA AppendedId ==
  ASSUME requests \in Seq(Request), NEW r, requests' = Append(requests, r),
         QueueIds \in Seq(1..ReqMax), Len(QueueIds) = Len(requests),
         \A i \in 1..Len(requests) : QueueIds[i] = requests[i].id
  PROVE  QueueIds' = Append(QueueIds, r.id)
<1> DEFINE n == Len(requests)
           a == Append(QueueIds, r.id)
<1>1. n \in Nat /\ DOMAIN requests = 1..n
  OBVIOUS
<1>2. /\ DOMAIN requests' = 1..(n + 1)
      /\ \A i \in 1..(n + 1) : requests'[i] = IF i = n + 1 THEN r ELSE requests[i]
  BY <1>1
<1>3. /\ DOMAIN a = 1..(n + 1)
      /\ \A i \in 1..(n + 1) : a[i] = IF i = n + 1 THEN r.id ELSE QueueIds[i]
      /\ a = [i \in DOMAIN a |-> a[i]]
  <2> DEFINE q == QueueIds
             S == 1..ReqMax
  <2>1. q \in Seq(S) /\ Len(q) = n /\ n \in Nat
    BY <1>1
  <2> HIDE DEF q, S
  <2>2. /\ DOMAIN Append(q, r.id) = 1..(n + 1)
        /\ \A i \in 1..(n + 1) : Append(q, r.id)[i] = IF i = n + 1 THEN r.id ELSE q[i]
        /\ Append(q, r.id) = [i \in DOMAIN Append(q, r.id) |-> Append(q, r.id)[i]]
    BY <2>1
  <2> QED BY <2>2 DEF q
<1> HIDE DEF a, n
<1>4. \A i \in 1..(n + 1) : requests'[i].id = a[i]
  <2>1. \A i \in 1..(n + 1) : i # n + 1 => i \in 1..n
    BY <1>1
  <2> QED BY <1>2, <1>3, <2>1 DEF n
<1>5. QueueIds' = [i \in 1..(n + 1) |-> requests'[i].id]
  BY <1>2 DEF QueueIds
<1>6. QueueIds' = [i \in 1..(n + 1) |-> a[i]]
  BY <1>4, <1>5
<1> QED BY <1>3, <1>6 DEF a

\* FlipService counts as this module does.
LEMMA SameCardinality == \A S : Service!Cardinality(S) = Cardinality(S)
BY DEF Service!Cardinality, Cardinality

LEMMA OpenSeen ==
  ASSUME IInv, NEW g \in Guests, Open(g)
  PROVE  [Service!Next]_(Service!vars)
<1>1. CASE rate # 0
  BY <1>1, SameIds, UnseenStutters DEF Open, Fail, port, lists
<1>2. CASE rate = 0
  <2>1. /\ ~opened /\ opened' = TRUE /\ DriverFree
        /\ UNCHANGED <<requests, cpu, nextId, shown>>
    BY <1>2 DEF Open, lists
  <2>2. requests = <<>> /\ cpu = {}
    BY <2>1 DEF IInv, PortOK, DriverFree
  <2>3. QueueIds' = <<>> /\ Ids(cpu)' = {}
    BY <2>1, <2>2 DEF QueueIds, Ids
  <2>4. Service!Open
    BY <2>1, <2>3 DEF Service!Open
  <2> QED BY <2>4 DEF Service!Next
<1> QED BY <1>1, <1>2

LEMMA CloseSeen ==
  ASSUME NEW g \in Guests, Close(g)
  PROVE  [Service!Next]_(Service!vars)
<1>1. opened /\ opened' = FALSE /\ UNCHANGED <<nextId, shown>>
  BY DEF Close
<1>2. Service!Close
  BY <1>1 DEF Service!Close
<1> QED BY <1>2 DEF Service!Next

LEMMA ReserveSeen ==
  ASSUME IInv, NEW index \in Indices, NEW source \in {"Cpu", "GpuEop"}, Reserve(index, source),
         opened, nextId <= ReqMax, shown' = shown
  PROVE  [Service!Next]_(Service!vars)
<1> DEFINE r == NewFlip(index, source)
<1>1. /\ nextId' = nextId + 1 /\ ~Full /\ opened' = opened
      /\ \/ requests' = Append(requests, r) /\ cpu' = cpu
         \/ cpu' = cpu \union {r} /\ requests' = requests
  BY DEF Reserve, NewFlip
<1>2. r.id = nextId
  BY DEF NewFlip
<1>3. nextId \in 1..ReqMax /\ nextId \in Nat /\ ReqMax \in Nat
  BY FlipAssumption DEF IInv, TypeOK
<1>4. nextId \notin 1..(nextId - 1) /\ 1..(nextId' - 1) = 1..(nextId - 1) \union {nextId}
  BY <1>1, <1>3
<1>5. Len(QueueIds) + Cardinality(Ids(cpu)) < Capacity
  <2>1. Len(QueueIds) = Len(requests) /\ Cardinality(Ids(cpu)) = Cardinality(cpu)
    BY QueueIdsFacts, IdsCount
  <2>2. Total \in Nat /\ Capacity \in Nat /\ ~(Total >= Capacity)
    BY <1>1, ListsNow DEF Full
  <2>3. Total < Capacity
    BY <2>2
  <2> QED BY <2>1, <2>3 DEF Total
<1> HIDE DEF r
<1> DEFINE q == IF opened THEN QueueIds ELSE <<>>
           s == IF opened THEN Ids(cpu) ELSE {}
<1>8. /\ q = QueueIds /\ q' = QueueIds' /\ s = Ids(cpu) /\ s' = Ids(cpu)'
      /\ Len(q) + Cardinality(s) < Capacity
  BY <1>1, <1>5
<1>9. ASSUME \/ q' = Append(q, nextId) /\ s' = s
             \/ s' = s \union {nextId} /\ q' = q
      PROVE  Service!Reserve(nextId)
  <2> HIDE DEF q, s
  <2>1. /\ opened /\ nextId \notin 1..(nextId - 1) /\ opened' = opened /\ shown' = shown
        /\ 1..(nextId' - 1) = 1..(nextId - 1) \union {nextId}
        /\ Len(q) + Cardinality(s) < Capacity
    BY <1>1, <1>4, <1>8
  <2>2. Len(q) + Service!Cardinality(s) < Capacity
    BY <2>1, SameCardinality
  <2> QED BY <1>9, <2>1, <2>2, Zenon DEF Service!Reserve, q, s
<1>6. CASE requests' = Append(requests, r) /\ cpu' = cpu
  <2>1. QueueIds' = Append(QueueIds, nextId)
    <3>1. /\ requests \in Seq(Request) /\ QueueIds \in Seq(1..ReqMax)
          /\ Len(QueueIds) = Len(requests)
          /\ \A i \in 1..Len(requests) : QueueIds[i] = requests[i].id
      BY QueueIdsFacts DEF IInv, TypeOK
    <3> QED BY <1>2, <1>6, <3>1, AppendedId
  <2>2. Ids(cpu)' = Ids(cpu)
    BY <1>6
  <2>3. Service!Reserve(nextId)
    BY <1>8, <1>9, <2>1, <2>2
  <2> QED BY <1>3, <2>3 DEF Service!Next
<1>7. CASE cpu' = cpu \union {r} /\ requests' = requests
  <2>1. QueueIds' = QueueIds
    BY <1>7, SameIds
  <2>2. Ids(cpu)' = Ids(cpu) \union {nextId}
    BY <1>2, <1>7 DEF Ids
  <2>3. Service!Reserve(nextId)
    BY <1>8, <1>9, <2>1, <2>2
  <2> QED BY <1>3, <2>3 DEF Service!Next
<1> QED BY <1>1, <1>6, <1>7

LEMMA SubmitFlipSeen ==
  ASSUME IInv, NEW g \in Guests, SubmitFlip(g)
  PROVE  [Service!Next]_(Service!vars)
<1> DEFINE index == call[g].index
<1>1. /\ pc[g] = "got" /\ call[g].op = "flip" /\ shown' = shown
      /\ \/ UNCHANGED <<port, lists, nextId>>
         \/ Acceptable(index) /\ Reserve(index, "Cpu")
  BY DEF SubmitFlip
<1>2. CASE UNCHANGED <<port, lists, nextId>>
  BY <1>1, <1>2, SameIds, UnseenStutters DEF port, lists
<1>3. CASE Acceptable(index) /\ Reserve(index, "Cpu")
  <2>1. g \in Asking
    BY <1>1 DEF Asking
  <2>2. call[g] \in Calls
    BY <1>1 DEF IInv, ArgsOK
  <2>3. index \in Indices
    BY <1>1, <2>2 DEF Calls
  <2>4. nextId <= ReqMax /\ opened
    BY <1>1, <1>3, <2>1, AskingFalls, AcceptedIsOpen DEF IInv
  <2> QED BY <1>1, <1>3, <2>3, <2>4, ReserveSeen
<1> QED BY <1>1, <1>2, <1>3

LEMMA GpuReservesSeen ==
  ASSUME IInv, GpuReserves
  PROVE  [Service!Next]_(Service!vars)
<1> DEFINE index == packet.index
<1>1. CASE UNCHANGED <<opened, requests, cpu, nextId, shown>>
  BY <1>1, SameIds, UnseenStutters
<1>2. CASE Acceptable(index) /\ Reserve(index, "GpuEop") /\ shown' = shown
  <2>1. pc[Gpu] = "reserve"
    BY DEF GpuReserves
  <2>2. Gpu \in Asking
    BY <2>1 DEF Asking
  <2>3. index \in Indices
    BY <2>1 DEF IInv, ArgsOK
  <2>4. nextId <= ReqMax /\ opened
    BY <1>2, <2>1, <2>2, AskingFalls, AcceptedIsOpen DEF IInv
  <2> QED BY <1>2, <2>3, <2>4, ReserveSeen
<1> QED BY <1>1, <1>2 DEF GpuReserves, Fail, GpuStep, port, lists

LEMMA PrepareStartsSeen ==
  ASSUME IInv, PrepareStarts
  PROVE  [Service!Next]_(Service!vars)
<1> DEFINE r == Of(cpu, Me)
<1>1. CASE UNCHANGED <<opened, cpu, nextId, shown>> /\ QueueIds' = QueueIds
  BY <1>1, UnseenStutters DEF Unseen
<1>2. CASE /\ Me \in Ids(cpu) /\ requests' = Append(requests, Recording(r))
           /\ cpu' = Drop(cpu, Me) /\ UNCHANGED <<opened, nextId, shown>>
  <2>1. r \in cpu /\ r.id = Me /\ r \in Request
    BY <1>2, OfFacts DEF IInv, Everything
  <2> HIDE DEF r
  <2>2. Recording(r).id = Me /\ Me \in 1..ReqMax
    BY <2>1, RequestFields
  <2>3. QueueIds' = Append(QueueIds, Me)
    <3>1. /\ requests \in Seq(Request) /\ QueueIds \in Seq(1..ReqMax)
          /\ Len(QueueIds) = Len(requests)
          /\ \A i \in 1..Len(requests) : QueueIds[i] = requests[i].id
      BY QueueIdsFacts DEF IInv, TypeOK
    <3> QED BY <1>2, <2>2, <3>1, AppendedId
  <2>4. Ids(cpu') = Ids(cpu) \ {Me}
    BY <1>2 DEF Ids, Drop
  <2>5. CASE opened
    <3> DEFINE q == IF opened THEN QueueIds ELSE <<>>
               s == IF opened THEN Ids(cpu) ELSE {}
               n == 1..(nextId - 1)
    <3>1. q' = Append(q, Me) /\ s' = s \ {Me} /\ Me \in s /\ opened' = opened /\ shown' = shown
          /\ n' = n
      BY <1>2, <2>3, <2>4, <2>5
    <3> HIDE DEF q, s, n
    <3>2. Service!Place(Me)
      BY <3>1, Zenon DEF Service!Place, q, s, n
    <3> QED BY <2>2, <3>2 DEF Service!Next
  <2>6. CASE ~opened
    BY <1>2, <2>6, UnseenStutters DEF Unseen
  <2> QED BY <2>5, <2>6
<1>3. \/ UNCHANGED <<opened, requests, cpu, nextId, shown>>
      \/ UNCHANGED <<opened, cpu, nextId, shown>> /\ \E new : requests' = Put(new)
      \/ /\ Me \in Ids(cpu) /\ requests' = Append(requests, Recording(r))
         /\ cpu' = Drop(cpu, Me) /\ UNCHANGED <<opened, nextId, shown>>
  BY Zenon DEF PrepareStarts, Fail, GpuStep, port, lists
<1> QED BY <1>1, <1>2, <1>3, SameIds

\* A flip that is cut off was cut off from a closed port.
LEMMA PrepareCutsSeen ==
  ASSUME IInv, PrepareCuts
  PROVE  [Service!Next]_(Service!vars)
<1>1. pc[Gpu] = "cut" /\ UNCHANGED <<opened, cpu, nextId, shown>>
  BY DEF PrepareCuts, GpuStep, port
<1>2. CASE Me \in Ids(Queued)
  <2>1. ~opened
    BY <1>1, <1>2 DEF IInv, PortOK
  <2> QED BY <1>1, <2>1, UnseenStutters DEF Unseen
<1>3. CASE Me \notin Ids(Queued)
  <2>1. requests' = requests
    BY <1>3 DEF PrepareCuts
  <2> QED BY <1>1, <2>1, SameIds, UnseenStutters
<1> QED BY <1>2, <1>3

\* Steps that change a flip where it is.
LEMMA PutSeen ==
  ASSUME UNCHANGED <<opened, cpu, nextId, shown>>,
         requests' = requests \/ \E new : requests' = Put(new)
  PROVE  [Service!Next]_(Service!vars)
BY SameIds, UnseenStutters DEF Unseen

LEMMA PrepareStoresSeen ==
  ASSUME PrepareStores
  PROVE  [Service!Next]_(Service!vars)
<1>1. UNCHANGED <<opened, cpu, nextId, shown>>
  BY DEF PrepareStores, GpuStep, Fail, port, lists
<1>2. requests' = requests \/ \E new : requests' = Put(new)
  BY Zenon DEF PrepareStores, Fail, lists
<1> QED BY <1>1, <1>2, PutSeen

LEMMA CompletesSeen ==
  ASSUME NEW id, Completes(id), UNCHANGED <<port, nextId, shown>>
  PROVE  [Service!Next]_(Service!vars)
<1>1. UNCHANGED <<opened, cpu, nextId, shown>>
  BY DEF Completes, port, lists
<1>2. requests' = requests \/ \E new : requests' = Put(new)
  BY Zenon DEF Completes, lists
<1> QED BY <1>1, <1>2, PutSeen

LEMMA FlipShowsSeen ==
  ASSUME FlipShows
  PROVE  [Service!Next]_(Service!vars)
<1>1. UNCHANGED <<opened, cpu, nextId, shown>>
  BY DEF FlipShows, Fail, port, lists
<1>2. requests' = requests \/ \E new : requests' = Put(new)
  BY Zenon DEF FlipShows, Fail, lists
<1> QED BY <1>1, <1>2, PutSeen

\* What is shown is the front of the queue, and the port is open.
LEMMA FlipPopsSeen ==
  ASSUME IInv, FlipPops
  PROVE  [Service!Next]_(Service!vars)
<1>1. opened /\ requests # <<>> /\ IsFront("Presenting")
  BY DEF FlipPops, IInv, PresentOK, IsFront
<1>2. /\ requests' = Tail(requests) /\ shown' = Append(shown, Head(requests).id)
      /\ UNCHANGED <<opened, nextId, cpu>>
  BY <1>1 DEF FlipPops
<1>3. /\ QueueIds \in Seq(1..ReqMax) /\ Len(QueueIds) = Len(requests)
      /\ \A i \in 1..Len(requests) : QueueIds[i] = requests[i].id
      /\ QueueIds # <<>> /\ Head(QueueIds) = Head(requests).id
      /\ requests \in Seq(Request)
  BY <1>1, QueueIdsFacts DEF IInv, TypeOK
<1>4. QueueIds' = Tail(QueueIds)
  <2> DEFINE n == Len(requests)
             a == Tail(QueueIds)
  <2>1. n \in Nat /\ n # 0
    BY <1>1, <1>3
  <2>2. /\ DOMAIN requests' = 1..(n - 1)
        /\ \A i \in 1..(n - 1) : requests'[i] = requests[i + 1]
    BY <1>1, <1>2, <1>3
  <2>3. /\ DOMAIN a = 1..(n - 1)
        /\ \A i \in 1..(n - 1) : a[i] = QueueIds[i + 1]
        /\ a = [i \in DOMAIN a |-> a[i]]
    <3> DEFINE q == QueueIds
               S == 1..ReqMax
    <3>1. q \in Seq(S) /\ Len(q) = n /\ n \in Nat /\ q # <<>>
      BY <1>3, <2>1
    <3> HIDE DEF q, S
    <3>2. /\ DOMAIN Tail(q) = 1..(n - 1)
          /\ \A i \in 1..(n - 1) : Tail(q)[i] = q[i + 1]
          /\ Tail(q) = [i \in DOMAIN Tail(q) |-> Tail(q)[i]]
      <4>1. Tail(q) \in Seq(S) /\ Len(Tail(q)) = n - 1
        BY <3>1
      <4>2. DOMAIN Tail(q) = 1..(n - 1)
        BY <4>1
      <4>3. \A i \in 1..(n - 1) : Tail(q)[i] = q[i + 1]
        BY <3>1
      <4>4. Tail(q) = [i \in DOMAIN Tail(q) |-> Tail(q)[i]]
        <5>1. \A f \in Seq(S) : f = [i \in DOMAIN f |-> f[i]]
          OBVIOUS
        <5> QED BY <4>1, <5>1
      <4> QED BY <4>2, <4>3, <4>4
    <3> QED BY <3>2 DEF q
  <2> HIDE DEF a, n
  <2>4. \A i \in 1..(n - 1) : requests'[i].id = a[i]
    <3>1. \A i \in 1..(n - 1) : i + 1 \in 1..n
      BY <2>1
    <3> QED BY <1>3, <2>2, <2>3, <3>1 DEF n
  <2>5. QueueIds' = [i \in 1..(n - 1) |-> requests'[i].id]
    BY <2>2 DEF QueueIds
  <2>6. QueueIds' = [i \in 1..(n - 1) |-> a[i]]
    BY <2>4, <2>5
  <2> QED BY <2>3, <2>6 DEF a
<1>5. Ids(cpu') = Ids(cpu)
  BY <1>2 DEF Ids
<1> DEFINE q == IF opened THEN QueueIds ELSE <<>>
           s == IF opened THEN Ids(cpu) ELSE {}
           n == 1..(nextId - 1)
<1>6. /\ q # <<>> /\ q' = Tail(q) /\ shown' = Append(shown, Head(q)) /\ s' = s /\ n' = n
      /\ opened' = opened
  BY <1>1, <1>2, <1>3, <1>4, <1>5
<1> HIDE DEF q, s, n
<1>7. Service!Show
  BY <1>6, Zenon DEF Service!Show, q, s, n
<1> QED BY <1>7 DEF Service!Next

\* Most steps change neither the queue nor what was shown.
LEMMA OtherGuestStepsSeen ==
  ASSUME IInv, NEW g \in Guests,
         \/ CancelWaits(g) \/ Cancel(g) \/ CloseReturns(g) \/ SubmitFlipPreparation(g)
         \/ SetFlipRate(g) \/ ChangeBuffers(g)
  PROVE  [Service!Next]_(Service!vars)
<1>1. CASE Cancel(g)
  <2>1. UNCHANGED <<opened, nextId, shown>>
    BY <1>1 DEF Cancel, Fail, port
  <2>2. ~opened
    BY <1>1 DEF Cancel, IInv, PortOK
  <2> QED BY <2>1, <2>2, UnseenStutters DEF Unseen
<1>2. ASSUME ~Cancel(g) PROVE UNCHANGED <<opened, requests, cpu, nextId, shown>>
  BY <1>2 DEF CancelWaits, CloseReturns, SubmitFlipPreparation, SetFlipRate, ChangeBuffers,
              port, lists
<1> QED BY <1>1, <1>2, SameIds, UnseenStutters

LEMMA OtherGpuStepsSeen ==
  ASSUME \/ TakeJob \/ GpuGets \/ WaitForSubmitSlot \/ WaitFlipDone \/ PrepareChecks
         \/ PrepareFrame \/ Packets
  PROVE  [Service!Next]_(Service!vars)
<1>1. UNCHANGED <<opened, requests, cpu, nextId, shown>>
  BY DEF TakeJob, GpuGets, WaitForSubmitSlot, WaitFlipDone, PrepareChecks, PrepareFrame,
         Packets, StartPacket, GpuStep, Fail, port, lists
<1> QED BY <1>1, SameIds, UnseenStutters

LEMMA OtherPresentStepsSeen ==
  ASSUME FlipLooks \/ FlipTests \/ FlipUndoes \/ PresentLate \/ PresentBlank \/ Vblank
  PROVE  [Service!Next]_(Service!vars)
<1>1. UNCHANGED <<opened, requests, cpu, nextId, shown>>
  BY DEF FlipLooks, FlipTests, FlipUndoes, PresentLate, PresentBlank, Vblank, PresentGoes,
         Fail, port, lists
<1> QED BY <1>1, SameIds, UnseenStutters

LEMMA StepSeen ==
  ASSUME IInv, [Next]_vars
  PROVE  [Service!Next]_(Service!vars)
<1>1. CASE UNCHANGED vars
  BY <1>1, SameIds, UnseenStutters DEF vars, port, lists
<1>2. ASSUME NEW g \in Guests, GuestStep(g) PROVE [Service!Next]_(Service!vars)
  BY <1>2, SubmitFlipSeen, OtherGuestStepsSeen DEF GuestStep
<1>3. CASE GuestCalls
  <2>1. ASSUME NEW g \in Controllers, Open(g) \/ Close(g) PROVE [Service!Next]_(Service!vars)
    <3>1. g \in Guests
      BY DEF Guests
    <3> QED BY <2>1, <3>1, OpenSeen, CloseSeen
  <2>2. ASSUME NEW g \in Submitters, NEW c \in Calls, Get(g, c)
        PROVE  [Service!Next]_(Service!vars)
    <3>1. UNCHANGED <<opened, requests, cpu, nextId, shown>>
      BY <2>2 DEF Get, port, lists
    <3> QED BY <3>1, SameIds, UnseenStutters
  <2> QED BY <1>3, <2>1, <2>2 DEF GuestCalls
<1>4. CASE Packets
  BY <1>4, OtherGpuStepsSeen
<1>5. CASE GpuSteps
  <2>1. CASE Prepared
    <3>1. UNCHANGED <<port, nextId, shown>>
      BY <2>1 DEF Prepared
    <3>2. Completes(Me) \/ UNCHANGED lists
      BY <2>1 DEF Prepared
    <3>3. CASE UNCHANGED lists
      BY <3>1, <3>3, SameIds, UnseenStutters DEF port, lists
    <3> QED BY <3>1, <3>2, <3>3, CompletesSeen
  <2> QED BY <1>5, <2>1, OtherGpuStepsSeen, GpuReservesSeen, PrepareStartsSeen,
             PrepareCutsSeen, PrepareStoresSeen DEF GpuSteps
<1>6. CASE EndOfPipe
  <2>1. UNCHANGED <<port, nextId, shown>> /\ Completes(Head(eop))
    BY <1>6 DEF EndOfPipe
  <2> QED BY <2>1, CompletesSeen
<1>7. CASE PresentSteps
  BY <1>7, OtherPresentStepsSeen, FlipShowsSeen, FlipPopsSeen DEF PresentSteps
<1> QED BY <1>1, <1>2, <1>3, <1>4, <1>5, <1>6, <1>7 DEF Next

\* The queue of the open port is what FlipService promises: a flip is shown
\* at most once, in the order in which Prepare or the packets have queued
\* the flips, never after the Close of its port, and no more than
\* VIDEO_OUT_FLIP_QUEUE_CAPACITY wait at a time.
THEOREM FlipQueueImplementsService == Spec => ImplementsFlipService
<1>1. Init => Service!Init
  <2> SUFFICES ASSUME Init PROVE Service!Init
    OBVIOUS
  <2>1. opened = FALSE /\ shown = <<>> /\ nextId = 1
    BY DEF Init
  <2>2. 1..(nextId - 1) = {}
    BY <2>1
  <2> QED BY <2>1, <2>2 DEF Service!Init
<1>2. IInv /\ [Next]_vars => [Service!Next]_(Service!vars)
  BY StepSeen
<1> QED BY <1>1, <1>2, Invariance, PTL DEF Spec, ImplementsFlipService, Service!Spec
================================================================================
