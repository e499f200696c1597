-------------------------- MODULE KernelSemaProofs --------------------------
(***************************************************************************)
(* Proofs about the kernel semaphore, for any number of threads, any       *)
(* counts and any priorities.                                              *)
(***************************************************************************)
EXTENDS KernelSema, TLAPS, WellFoundedInduction, FiniteSetTheorems

-----------------------------------------------------------------------------
(* Sequences and sums                                                      *)

\* Every set of naturals with an element has a least one.
LEMMA LeastNat ==
  ASSUME NEW T, T \subseteq Nat, T # {}
  PROVE  \E x \in T : \A y \in T : x <= y
<1>1. PICK x \in T : \A y \in T : ~(<<y, x>> \in OpToRel(<, Nat))
  BY NatLessThanWellFounded, WFMin
<1>2. ASSUME NEW y \in T PROVE ~(y < x)
  <2>1. y < x => <<y, x>> \in OpToRel(<, Nat)
    BY DEF OpToRel
  <2> QED BY <1>1, <2>1
<1> QED BY <1>2

\* A function that never increases ends at or below each of its values.
LEMMA NonIncreasing ==
  ASSUME NEW n \in Nat, NEW f, \A i \in 0..n : f[i] \in Int,
         \A i \in 1..n : f[i] <= f[i - 1],
         NEW k \in 0..n
  PROVE  f[n] <= f[k]
<1> DEFINE T == {d \in Nat : k + d <= n /\ ~(f[k + d] <= f[k])}
<1>1. SUFFICES ASSUME T # {} PROVE FALSE
  <2>1. T = {} => n - k \notin T
    OBVIOUS
  <2>2. n - k \in Nat /\ k + (n - k) = n
    OBVIOUS
  <2> QED BY <2>1, <2>2
<1>2. PICK d \in T : \A e \in T : d <= e
  BY <1>1, LeastNat
<1>3. d # 0
  OBVIOUS
<1>4. d - 1 \in Nat /\ k + (d - 1) <= n /\ k + d \in 1..n /\ k + (d - 1) \in 0..n
  BY <1>3
<1>5. d - 1 \notin T
  BY <1>2, <1>4
<1>6. f[k + (d - 1)] <= f[k]
  BY <1>4, <1>5
<1>7. f[k + d] <= f[(k + d) - 1] /\ (k + d) - 1 = k + (d - 1)
  BY <1>4
<1>8. f[k + d] \in Int /\ f[k + (d - 1)] \in Int /\ f[k] \in Int
  BY <1>4
<1>9. f[k + d] <= f[k]
  BY <1>6, <1>7, <1>8
<1> QED BY <1>9

\* InsertAt at a legal place keeps the elements and adds one.
LEMMA InsertAtFacts ==
  ASSUME NEW S, NEW s \in Seq(S), NEW e \in S, NEW k \in 1..Len(s) + 1
  PROVE  /\ InsertAt(s, k, e) \in Seq(S)
         /\ Len(InsertAt(s, k, e)) = Len(s) + 1
         /\ \A i \in 1..Len(s) + 1 :
              InsertAt(s, k, e)[i] = IF i < k THEN s[i]
                                     ELSE IF i = k THEN e ELSE s[i - 1]
<1> DEFINE a == SubSeq(s, 1, k - 1)
           b == SubSeq(s, k, Len(s))
           c == a \o <<e>>
<1>1. /\ a \in Seq(S) /\ Len(a) = k - 1
      /\ \A i \in 1..k - 1 : a[i] = s[i]
  OBVIOUS
<1>2. /\ b \in Seq(S) /\ Len(b) = Len(s) - k + 1
      /\ \A i \in 1..Len(s) - k + 1 : b[i] = s[k + i - 1]
  OBVIOUS
<1>3. InsertAt(s, k, e) = c \o b
  BY DEF InsertAt
<1> HIDE DEF a, b
<1>4. /\ c \in Seq(S) /\ Len(c) = k
      /\ \A i \in 1..k : c[i] = IF i < k THEN s[i] ELSE e
  BY <1>1
<1> HIDE DEF c
<1>5. InsertAt(s, k, e) \in Seq(S) /\ Len(InsertAt(s, k, e)) = Len(s) + 1
  <2>0. c \in Seq(S) /\ b \in Seq(S)
    BY <1>2, <1>4
  <2>1. c \o b \in Seq(S)
    BY <2>0
  <2>2. Len(c \o b) = Len(c) + Len(b)
    BY <2>0
  <2> QED BY <1>2, <1>3, <1>4, <2>1, <2>2
<1>6. ASSUME NEW i \in 1..Len(s) + 1
      PROVE  InsertAt(s, k, e)[i] = IF i < k THEN s[i]
                                    ELSE IF i = k THEN e ELSE s[i - 1]
  <2>1. CASE i <= k
    BY <1>2, <1>3, <1>4, <2>1
  <2>2. CASE i > k
    <3>1. (c \o b)[i] = b[i - k]
      BY <1>2, <1>4, <2>2
    <3>2. i - k \in 1..Len(s) - k + 1 /\ k + (i - k) - 1 = i - 1
      BY <2>2
    <3>3. b[i - k] = s[i - 1]
      BY <1>2, <3>2
    <3> QED BY <1>3, <2>2, <3>1, <3>3
  <2> QED BY <2>1, <2>2
<1> QED BY <1>5, <1>6

\* RemoveAt at a legal place keeps every other element.
LEMMA RemoveAtFacts ==
  ASSUME NEW S, NEW s \in Seq(S), NEW k \in 1..Len(s)
  PROVE  /\ RemoveAt(s, k) \in Seq(S)
         /\ Len(RemoveAt(s, k)) = Len(s) - 1
         /\ \A i \in 1..Len(s) - 1 :
              RemoveAt(s, k)[i] = IF i < k THEN s[i] ELSE s[i + 1]
<1> DEFINE a == SubSeq(s, 1, k - 1)
           b == SubSeq(s, k + 1, Len(s))
<1>1. /\ a \in Seq(S) /\ Len(a) = k - 1
      /\ \A i \in 1..k - 1 : a[i] = s[i]
  OBVIOUS
<1>2. /\ b \in Seq(S) /\ Len(b) = Len(s) - k
      /\ \A i \in 1..Len(s) - k : b[i] = s[k + i]
  OBVIOUS
<1> HIDE DEF a, b
<1>4. RemoveAt(s, k) = a \o b
  BY DEF RemoveAt, a, b
<1>5. RemoveAt(s, k) \in Seq(S) /\ Len(RemoveAt(s, k)) = Len(s) - 1
  BY <1>1, <1>2, <1>4
<1>6. ASSUME NEW i \in 1..Len(s) - 1
      PROVE  RemoveAt(s, k)[i] = IF i < k THEN s[i] ELSE s[i + 1]
  <2>1. CASE i < k
    BY <1>1, <1>2, <1>4, <2>1
  <2>2. CASE i >= k
    <3>1. (a \o b)[i] = b[i - (k - 1)]
      BY <1>1, <1>2, <2>2
    <3>2. i - (k - 1) \in 1..Len(s) - k /\ k + (i - (k - 1)) = i + 1
      BY <2>2
    <3>3. b[i - (k - 1)] = s[i + 1]
      BY <1>2, <3>2
    <3> QED BY <1>4, <2>2, <3>1, <3>3
  <2> QED BY <2>1, <2>2
<1> QED BY <1>5, <1>6

\* No element occurs twice.
Distinct(s) == \A i, j \in 1..Len(s) : s[i] = s[j] => i = j

\* x occurs in s.
Has(s, x) == \E i \in 1..Len(s) : s[i] = x

\* Inserting a new element keeps a queue free of repetitions.
LEMMA InsertFresh ==
  ASSUME NEW S, NEW s \in Seq(S), NEW e \in S, NEW k \in 1..Len(s) + 1,
         Distinct(s), ~Has(s, e)
  PROVE  /\ Distinct(InsertAt(s, k, e))
         /\ \A x : Has(InsertAt(s, k, e), x) <=> x = e \/ Has(s, x)
<1> DEFINE r    == InsertAt(s, k, e)
           n    == Len(s)
           D(i) == IF i < k THEN i ELSE i - 1
           U(i) == IF i < k THEN i ELSE i + 1
<1>1. /\ r \in Seq(S) /\ Len(r) = n + 1 /\ n \in Nat /\ k \in 1..n + 1
      /\ \A i \in 1..n + 1 : r[i] = IF i < k THEN s[i]
                                    ELSE IF i = k THEN e ELSE s[i - 1]
  BY InsertAtFacts
<1> HIDE DEF r
<1>2. r[k] = e
  BY <1>1
<1>3. \A i \in 1..n + 1 : i # k => D(i) \in 1..n /\ r[i] = s[D(i)]
  BY <1>1
<1>4. \A i \in 1..n : U(i) \in 1..n + 1 /\ U(i) # k /\ D(U(i)) = i
  BY <1>1
<1>5. \A i, j \in 1..n + 1 : i # k /\ j # k /\ D(i) = D(j) => i = j
  BY <1>1
<1> HIDE DEF n
<1>6. \A i \in 1..n : s[i] # e
  BY DEF Has, n
<1>7. \A i, j \in 1..n : s[i] = s[j] => i = j
  BY DEF Distinct, n
<1> HIDE DEF D, U
<1>8. ASSUME NEW i \in 1..n + 1, NEW j \in 1..n + 1, r[i] = r[j] PROVE i = j
  <2>1. CASE i = k
    BY <1>2, <1>3, <1>6, <1>8, <2>1
  <2>2. CASE j = k
    BY <1>2, <1>3, <1>6, <1>8, <2>2
  <2>3. CASE i # k /\ j # k
    BY <1>3, <1>5, <1>7, <1>8, <2>3
  <2> QED BY <2>1, <2>2, <2>3
<1>9. Distinct(r)
  BY <1>1, <1>8 DEF Distinct
<1>10. ASSUME NEW x PROVE Has(r, x) <=> x = e \/ Has(s, x)
  <2>1. ASSUME NEW i \in 1..n + 1, r[i] = x PROVE x = e \/ Has(s, x)
    BY <1>2, <1>3, <2>1 DEF Has, n
  <2>2. ASSUME NEW i \in 1..n, s[i] = x PROVE Has(r, x)
    BY <1>1, <1>3, <1>4, <2>2 DEF Has
  <2>3. Has(r, e)
    BY <1>1, <1>2 DEF Has
  <2> QED BY <1>1, <2>1, <2>2, <2>3 DEF Has, n
<1> QED BY <1>9, <1>10 DEF r

\* Removing one element of a queue without repetitions removes just that one.
LEMMA RemoveOne ==
  ASSUME NEW S, NEW s \in Seq(S), NEW k \in 1..Len(s), Distinct(s)
  PROVE  /\ Distinct(RemoveAt(s, k))
         /\ \A x : Has(RemoveAt(s, k), x) <=> x # s[k] /\ Has(s, x)
<1> DEFINE r    == RemoveAt(s, k)
           n    == Len(s)
           D(i) == IF i < k THEN i ELSE i - 1
           U(i) == IF i < k THEN i ELSE i + 1
<1>1. /\ r \in Seq(S) /\ Len(r) = n - 1 /\ n \in Nat /\ k \in 1..n
      /\ \A i \in 1..n - 1 : r[i] = IF i < k THEN s[i] ELSE s[i + 1]
  BY RemoveAtFacts
<1> HIDE DEF r
<1>2. \A i \in 1..n - 1 : U(i) \in 1..n /\ U(i) # k /\ r[i] = s[U(i)]
  BY <1>1
<1>3. \A i \in 1..n : i # k => D(i) \in 1..n - 1 /\ U(D(i)) = i
  BY <1>1
<1>4. \A i, j \in 1..n - 1 : U(i) = U(j) => i = j
  BY <1>1
<1> HIDE DEF n
<1>5. \A i, j \in 1..n : s[i] = s[j] => i = j
  BY DEF Distinct, n
<1> HIDE DEF D, U
<1>6. ASSUME NEW i \in 1..n - 1, NEW j \in 1..n - 1, r[i] = r[j] PROVE i = j
  BY <1>2, <1>4, <1>5, <1>6
<1>7. Distinct(r)
  BY <1>1, <1>6 DEF Distinct
<1>8. ASSUME NEW x PROVE Has(r, x) <=> x # s[k] /\ Has(s, x)
  <2>1. ASSUME NEW i \in 1..n - 1, r[i] = x PROVE x # s[k] /\ Has(s, x)
    <3>1. U(i) \in 1..n /\ U(i) # k /\ s[U(i)] = x
      BY <1>2, <2>1
    <3>2. x # s[k]
      BY <1>1, <1>5, <3>1
    <3> QED BY <3>1, <3>2 DEF Has, n
  <2>2. ASSUME NEW i \in 1..n, s[i] = x, x # s[k] PROVE Has(r, x)
    BY <1>1, <1>2, <1>3, <2>2 DEF Has
  <2> QED BY <1>1, <2>1, <2>2 DEF Has, n
<1> QED BY <1>7, <1>8 DEF r

\* g[i] is the sum of the first i values of X.
RunningSum(n, X, g) ==
  /\ g \in [0..n -> Int] /\ g[0] = 0
  /\ \A i \in 1..n : g[i] = g[i - 1] + X[i]

\* Any finite list of integers can be summed up.
LEMMA RunningSumExists ==
  ASSUME NEW n \in Nat, NEW X \in [1..n -> Int]
  PROVE  \E g : RunningSum(n, X, g)
<1> DEFINE T == {m \in Nat : m <= n /\ ~\E g : RunningSum(m, X, g)}
<1>1. SUFFICES ASSUME T # {} PROVE FALSE
  <2>1. T = {} => n \notin T
    OBVIOUS
  <2>2. n <= n
    OBVIOUS
  <2>3. n \notin T => \E g : RunningSum(n, X, g)
    BY <2>2, Zenon
  <2> QED BY <2>1, <2>3
<1>2. PICK m \in T : \A k \in T : m <= k
  BY <1>1, LeastNat
<1>3. m # 0
  <2> DEFINE z == [i \in 0..0 |-> 0]
  <2>1. RunningSum(0, X, z)
    BY DEF RunningSum
  <2> QED BY <1>2, <2>1
<1>4. m \in Nat /\ m - 1 \in Nat /\ m - 1 <= n /\ m \in 1..n
  BY <1>3
<1>5. PICK g : RunningSum(m - 1, X, g)
  BY <1>2, <1>4
<1> DEFINE h == [i \in 0..m |-> IF i = m THEN g[m - 1] + X[m] ELSE g[i]]
<1>6. g \in [0..m - 1 -> Int] /\ g[m - 1] \in Int /\ X[m] \in Int
  BY <1>4, <1>5 DEF RunningSum
<1>7. h \in [0..m -> Int] /\ h[0] = 0
  BY <1>4, <1>5, <1>6 DEF RunningSum
<1>8. ASSUME NEW i \in 1..m PROVE h[i] = h[i - 1] + X[i]
  <2>1. CASE i = m
    BY <1>4, <2>1
  <2>2. CASE i # m
    <3>1. i \in 1..m - 1 /\ i - 1 # m /\ i \in 0..m /\ i - 1 \in 0..m
      BY <1>4, <2>2
    <3>2. g[i] = g[i - 1] + X[i]
      BY <1>5, <3>1 DEF RunningSum
    <3> QED BY <2>2, <3>1, <3>2
  <2> QED BY <2>1, <2>2
<1>9. RunningSum(m, X, h)
  BY <1>7, <1>8 DEF RunningSum
<1> QED BY <1>2, <1>9

\* f grows by the values of X.
Grows(n, X, f) == \A i \in 1..n : f[i] = f[i - 1] + X[i]

\* Two functions that start alike and grow alike end alike.
LEMMA SameGrowth ==
  ASSUME NEW n \in Nat, NEW X, NEW f, NEW g,
         Grows(n, X, f), Grows(n, X, g), f[0] = g[0]
  PROVE  f[n] = g[n]
<1> USE DEF Grows
<1> DEFINE T == {m \in Nat : m <= n /\ f[m] # g[m]}
<1>1. SUFFICES ASSUME T # {} PROVE FALSE
  OBVIOUS
<1>2. PICK m \in T : \A j \in T : m <= j
  BY <1>1, LeastNat
<1>3. m # 0
  OBVIOUS
<1>4. m - 1 \in Nat /\ m \in 1..n /\ m - 1 <= n
  BY <1>3
<1>5. f[m - 1] = g[m - 1]
  BY <1>2, <1>4
<1> QED BY <1>4, <1>5

\* f solves the recursion that sums X up.
Sums(n, X, f) == f = [i \in 0..n |-> IF i = 0 THEN 0 ELSE f[i - 1] + X[i]]

\* The running sum solves it, and any solution ends as it does.
LEMMA RunningSumSolves ==
  ASSUME NEW n \in Nat, NEW X, NEW g, RunningSum(n, X, g)
  PROVE  Sums(n, X, g) /\ \A f : Sums(n, X, f) => f[n] = g[n]
<1>1. /\ g \in [0..n -> Int] /\ g[0] = 0 /\ Grows(n, X, g)
      /\ \A i \in 1..n : g[i] = g[i - 1] + X[i]
  BY DEF RunningSum, Grows
<1>2. Sums(n, X, g)
  <2>1. \A i \in 0..n : g[i] = IF i = 0 THEN 0 ELSE g[i - 1] + X[i]
    BY <1>1
  <2>2. g = [i \in 0..n |-> g[i]]
    BY <1>1
  <2> QED BY <2>1, <2>2 DEF Sums
<1>3. ASSUME NEW f, Sums(n, X, f) PROVE f[n] = g[n]
  <2>1. \A i \in 0..n : f[i] = IF i = 0 THEN 0 ELSE f[i - 1] + X[i]
    BY <1>3 DEF Sums
  <2>2. f[0] = 0 /\ Grows(n, X, f)
    BY <2>1 DEF Grows
  <2> QED BY <1>1, <2>2, SameGrowth
<1> QED BY <1>2, <1>3

\* R is X with one more number, at place k.
Inserted(n, X, k, R) ==
  /\ k \in 1..n + 1 /\ R \in [1..n + 1 -> Int]
  /\ \A i \in 1..k - 1 : R[i] = X[i]
  /\ \A i \in k..n : R[i + 1] = X[i]

\* One more number adds itself to the sum, wherever it goes.
LEMMA RunningSumInsert ==
  ASSUME NEW n \in Nat, NEW X, NEW g, RunningSum(n, X, g),
         NEW R, NEW k, Inserted(n, X, k, R)
  PROVE  \E h : RunningSum(n + 1, R, h) /\ h[n + 1] = g[n] + R[k]
<1> USE DEF Inserted
<1>1. /\ k \in 1..n + 1 /\ R[k] \in Int
      /\ \A i \in 0..n : g[i] \in Int
      /\ g[0] = 0 /\ \A i \in 1..n : g[i] = g[i - 1] + X[i]
  BY DEF RunningSum
<1> DEFINE h == [i \in 0..n + 1 |-> IF i < k THEN g[i] ELSE g[i - 1] + R[k]]
<1>2. ASSUME NEW i \in 0..n + 1, i < k PROVE h[i] = g[i] /\ h[i] \in Int
  <2>1. i \in 0..n
    BY <1>2
  <2> QED BY <1>1, <1>2, <2>1
<1>3. ASSUME NEW i \in 0..n + 1, ~(i < k)
      PROVE  h[i] = g[i - 1] + R[k] /\ h[i] \in Int
  <2>1. i - 1 \in 0..n
    BY <1>3
  <2>2. g[i - 1] \in Int
    BY <1>1, <2>1
  <2> QED BY <1>1, <1>3, <2>2
<1>4. h \in [0..n + 1 -> Int]
  <2>1. \A i \in 0..n + 1 : h[i] \in Int
    BY <1>2, <1>3
  <2> HIDE DEF h
  <2>2. h = [i \in 0..n + 1 |-> h[i]]
    BY DEF h
  <2> QED BY <2>1, <2>2
<1>5. h[0] = 0 /\ h[n + 1] = g[n] + R[k]
  <2>1. 0 \in 0..n + 1 /\ 0 < k /\ n + 1 \in 0..n + 1 /\ ~(n + 1 < k)
        /\ (n + 1) - 1 = n
    OBVIOUS
  <2> HIDE DEF h
  <2> QED BY <1>1, <1>2, <1>3, <2>1
<1> HIDE DEF h
<1>6. ASSUME NEW i \in 1..n + 1 PROVE h[i] = h[i - 1] + R[i]
  <2>1. i \in 0..n + 1 /\ i - 1 \in 0..n + 1
    OBVIOUS
  <2>2. CASE i < k
    <3>1. i \in 1..n /\ i \in 1..k - 1 /\ i - 1 < k /\ i \in 0..n
      BY <2>2
    <3>2. h[i] = g[i] /\ h[i - 1] = g[i - 1]
      BY <1>2, <2>1, <2>2, <3>1
    <3>3. g[i] = g[i - 1] + X[i] /\ R[i] = X[i]
      BY <1>1, <3>1
    <3> QED BY <3>2, <3>3
  <2>3. CASE i = k
    <3>1. ~(i < k) /\ i - 1 < k
      BY <2>3
    <3>2. h[i] = g[i - 1] + R[k] /\ h[i - 1] = g[i - 1]
      BY <1>2, <1>3, <2>1, <3>1
    <3> QED BY <2>3, <3>2
  <2>4. CASE i > k
    <3>1. /\ ~(i < k) /\ ~(i - 1 < k) /\ i - 1 \in 1..n /\ i - 1 \in k..n
          /\ i - 1 \in 0..n /\ (i - 1) - 1 \in 0..n /\ (i - 1) + 1 = i
      BY <2>4
    <3>2. h[i] = g[i - 1] + R[k] /\ h[i - 1] = g[(i - 1) - 1] + R[k]
      BY <1>3, <2>1, <3>1
    <3>3. g[i - 1] = g[(i - 1) - 1] + X[i - 1] /\ R[i] = X[i - 1]
      BY <1>1, <3>1
    <3>4. /\ g[i - 1] \in Int /\ g[(i - 1) - 1] \in Int /\ R[i] \in Int
          /\ R[k] \in Int
      BY <1>1, <3>1
    <3> QED BY <3>2, <3>3, <3>4
  <2> QED BY <2>2, <2>3, <2>4
<1>7. RunningSum(n + 1, R, h)
  BY <1>4, <1>5, <1>6 DEF RunningSum
<1> QED BY <1>5, <1>7

\* What a falling count gives away is what the numbers beside it gain.
LEMMA RunningSumGains ==
  ASSUME NEW n \in Nat, NEW X \in [1..n -> Int], NEW g, RunningSum(n, X, g),
         NEW R, NEW left \in [0..n -> Int],
         \A i \in 1..n : R[i] = X[i] + (left[i - 1] - left[i])
  PROVE  \E h : RunningSum(n, R, h) /\ h[n] = g[n] + (left[0] - left[n])
<1> DEFINE h == [i \in 0..n |-> g[i] + (left[0] - left[i])]
<1>1. /\ \A i \in 0..n : g[i] \in Int /\ left[i] \in Int
      /\ g[0] = 0 /\ \A i \in 1..n : g[i] = g[i - 1] + X[i]
      /\ 0 \in 0..n /\ n \in 0..n
  BY DEF RunningSum
<1>2. \A i \in 0..n : h[i] = g[i] + (left[0] - left[i]) /\ h[i] \in Int
  BY <1>1
<1>3. h \in [0..n -> Int] /\ h[0] = 0 /\ h[n] = g[n] + (left[0] - left[n])
  <2>1. h \in [0..n -> Int]
    BY <1>2
  <2> HIDE DEF h
  <2>2. h[0] = g[0] + (left[0] - left[0]) /\ left[0] \in Int
    BY <1>1, <1>2
  <2>3. h[n] = g[n] + (left[0] - left[n])
    BY <1>1, <1>2
  <2> QED BY <1>1, <2>1, <2>2, <2>3
<1> HIDE DEF h
<1>4. ASSUME NEW i \in 1..n PROVE h[i] = h[i - 1] + R[i]
  <2>1. i \in 0..n /\ i - 1 \in 0..n
    OBVIOUS
  <2>2. /\ h[i] = g[i] + (left[0] - left[i])
        /\ h[i - 1] = g[i - 1] + (left[0] - left[i - 1])
    BY <1>2, <2>1
  <2>3. g[i] = g[i - 1] + X[i] /\ R[i] = X[i] + (left[i - 1] - left[i])
    BY <1>1
  <2>4. /\ X[i] \in Int /\ g[i - 1] \in Int
        /\ left[0] \in Int /\ left[i] \in Int /\ left[i - 1] \in Int
    BY <1>1, <2>1
  <2> QED BY <2>2, <2>3, <2>4
<1>5. RunningSum(n, R, h)
  BY <1>3, <1>4 DEF RunningSum
<1> QED BY <1>3, <1>5

-----------------------------------------------------------------------------
(* The inductive invariant                                                 *)

\* The queue holds each thread inside Wait once, and only those.
QueueOK ==
  /\ Distinct(queue)
  /\ \A t \in Threads : pc[t] = "queued" <=> Has(queue, t)
  /\ \A t \in Threads : pc[t] = "queued" => waiter[t].need >= 1

\* One thread at most deletes the object, and then the object says so.
LifeOK ==
  /\ status = "None" => \A t \in Threads : pc[t] # "queued"
  /\ \A t \in Threads : pc[t] = "deleting" => status = "Deleted"
  /\ \A t, u \in Threads : pc[t] = "deleting" /\ pc[u] = "deleting" => t = u

\* NoLostWakeup in terms of the threads rather than of the queue.
WakeOK ==
  \A t \in Threads : pc[t] = "queued" /\ ~waiter[t].ready
                       => status = "Set" /\ waiter[t].need > count

IInv == TypeOK /\ QueueOK /\ LifeOK /\ WakeOK

\* Without first-come first-served, more urgent waiters come first.
Sorted ==
  ~fifo => \A i, j \in 1..Len(queue) :
             i <= j => waiter[queue[i]].prio <= waiter[queue[j]].prio

-----------------------------------------------------------------------------
(* Facts about the helpers                                                 *)

\* The types of a waiter's fields.
LEMMA WaiterFields ==
  ASSUME TypeOK, NEW t \in Threads
  PROVE  /\ waiter[t].need \in Int /\ waiter[t].prio \in Int
         /\ waiter[t].ready \in BOOLEAN
<1>1. waiter[t] \in Waiter
  BY DEF TypeOK
<1>2. waiter[t].need \in NeedCounts \cup {0} /\ waiter[t].prio \in Priorities \cup {0}
      /\ waiter[t].ready \in BOOLEAN
  BY <1>1 DEF Waiter
<1>3. NeedCounts \cup {0} \subseteq Int /\ Priorities \cup {0} \subseteq Int
  BY SemaAssumption
<1> QED BY <1>2, <1>3

\* Every place in the queue holds a thread inside Wait.
LEMMA QueuePlaces ==
  ASSUME TypeOK, QueueOK, NEW i \in 1..Len(queue)
  PROVE  queue[i] \in Threads /\ pc[queue[i]] = "queued"
<1>1. queue[i] \in Threads
  BY DEF TypeOK
<1>2. Has(queue, queue[i])
  BY DEF Has
<1> QED BY <1>1, <1>2 DEF QueueOK

\* The pending waiters are the threads in Wait whose record is not ready.
LEMMA PendingFacts ==
  ASSUME TypeOK, QueueOK
  PROVE  \A t : t \in Pending <=> t \in Threads /\ pc[t] = "queued"
                                   /\ ~waiter[t].ready
<1>1. \A t : t \in ToSet(queue) <=> Has(queue, t)
  BY DEF TypeOK, ToSet, Has
<1>2. \A t : Has(queue, t) => t \in Threads
  BY DEF TypeOK, Has
<1> QED BY <1>1, <1>2 DEF Pending, QueueOK

\* Finitely many threads are in the queue: it is a sequence.
LEMMA QueueFinite ==
  ASSUME TypeOK
  PROVE  IsFiniteSet(ToSet(queue))
<1>1. queue \in Seq(Threads) /\ Len(queue) \in Nat
  BY DEF TypeOK
<1>2. IsFiniteSet(1..Len(queue))
  BY <1>1, FS_Interval
<1>3. queue \in Surjection(1..Len(queue), ToSet(queue))
  BY <1>1 DEF Surjection, ToSet
<1> QED BY <1>2, <1>3, FS_Surjection

\* So finitely many waiters are pending.
LEMMA PendingFinite ==
  ASSUME TypeOK
  PROVE  IsFiniteSet(Pending) /\ Cardinality(Pending) \in Nat
<1>1. IsFiniteSet(Pending)
  BY QueueFinite, FS_Subset DEF Pending
<1> QED BY <1>1, FS_CardinalityType

\* AddWaiter always finds a place in the queue, after the waiters at least as
\* urgent unless the order is first come first served.
LEMMA InsertPosFacts ==
  ASSUME TypeOK, NEW p \in Int
  PROVE  /\ InsertPos(p) \in 1..Len(queue) + 1
         /\ ~fifo => /\ \A i \in 1..InsertPos(p) - 1 : waiter[queue[i]].prio <= p
                     /\ InsertPos(p) <= Len(queue)
                          => waiter[queue[InsertPos(p)]].prio > p
<1>1. CASE fifo
  BY <1>1 DEF InsertPos, TypeOK
<1>2. CASE ~fifo
  <2> DEFINE n    == Len(queue)
             P(i) == waiter[queue[i]].prio
             K    == {k \in 1..n + 1 : k <= n => P(k) > p}
  <2>1. n \in Nat /\ \A i \in 1..n : P(i) \in Int
    BY WaiterFields DEF TypeOK
  <2> HIDE DEF n, P
  <2>2. n + 1 \in K /\ K \subseteq Nat
    BY <2>1
  <2>3. PICK k \in K : \A j \in K : k <= j
    BY <2>2, LeastNat
  <2>4. \A i \in 1..k - 1 : P(i) <= p
    BY <2>1, <2>3
  <2>5. \E j \in 1..n + 1 : /\ \A i \in 1..j - 1 : P(i) <= p
                            /\ j <= n => P(j) > p
    BY <2>4
  <2> QED BY <1>2, <2>5 DEF InsertPos, n, P
<1> QED BY <1>1, <1>2

\* A thread inside Wait has exactly one place in the queue to leave from.
LEMMA QueueWithoutFacts ==
  ASSUME TypeOK, QueueOK, NEW t \in Threads, pc[t] = "queued"
  PROVE  /\ QueueWithout(t) \in Seq(Threads)
         /\ Distinct(QueueWithout(t))
         /\ \A x : Has(QueueWithout(t), x) <=> x # t /\ Has(queue, x)
<1> DEFINE k == CHOOSE k \in 1..Len(queue) : queue[k] = t
<1>1. k \in 1..Len(queue) /\ queue[k] = t
  BY DEF QueueOK, Has
<1> HIDE DEF k
<1>2. queue \in Seq(Threads) /\ Distinct(queue)
  BY DEF TypeOK, QueueOK
<1>3. RemoveAt(queue, k) \in Seq(Threads)
  BY <1>1, <1>2, RemoveAtFacts
<1>4. /\ Distinct(RemoveAt(queue, k))
      /\ \A x : Has(RemoveAt(queue, k), x) <=> x # queue[k] /\ Has(queue, x)
  BY <1>1, <1>2, RemoveOne
<1> QED BY <1>1, <1>3, <1>4 DEF QueueWithout, k

\* A pass of WakeWaiters only ever lowers the count.
LEMMA WakePassShrinks ==
  ASSUME TypeOK, QueueOK, NEW c \in Int,
         NEW left \in [0..Len(queue) -> Int], WakePass(left, c),
         NEW m \in 0..Len(queue), NEW k \in 0..m
  PROVE  left[m] <= left[k]
<1> DEFINE n == Len(queue)
<1>1. n \in Nat /\ \A j \in 0..n : left[j] \in Int
  BY DEF TypeOK
<1>2. \A j \in 1..n : queue[j] \in Threads /\ waiter[queue[j]].need \in Int
                      /\ waiter[queue[j]].need >= 1
  BY QueuePlaces, WaiterFields DEF QueueOK
<1>3. ASSUME NEW j \in 1..n PROVE left[j] <= left[j - 1]
  <2>1. left[j - 1] \in Int /\ left[j] \in Int
    BY <1>1
  <2>2. \/ left[j] = left[j - 1] - waiter[queue[j]].need
        \/ left[j] = left[j - 1]
    BY DEF WakePass
  <2>3. waiter[queue[j]].need \in Int /\ waiter[queue[j]].need >= 1
    BY <1>2
  <2> QED BY <2>1, <2>2, <2>3
<1> HIDE DEF n
<1>4. m \in Nat /\ \A j \in 0..m : j \in 0..n
  BY <1>1 DEF n
<1>5. \A j \in 1..m : j \in 1..n
  BY <1>1 DEF n
<1> QED BY <1>1, <1>3, <1>4, <1>5, NonIncreasing

\* A pass of WakeWaiters leaves every waiter it skips short of the count at
\* the end of the pass.
LEMMA WakePassFacts ==
  ASSUME TypeOK, QueueOK, NEW c \in Int,
         NEW left \in [0..Len(queue) -> Int], WakePass(left, c),
         NEW i \in 1..Len(queue), queue[i] \in Pending, ~Grants(left, i)
  PROVE  waiter[queue[i]].need > left[Len(queue)]
<1> DEFINE n == Len(queue)
<1>1. n \in Nat /\ i \in 0..n /\ i - 1 \in 0..n /\ n \in 0..n /\ i \in 0..n
  BY DEF TypeOK
<1>2. left[i] \in Int /\ left[i - 1] \in Int /\ left[n] \in Int
  BY <1>1
<1>3. waiter[queue[i]].need \in Int
  BY QueuePlaces, WaiterFields
<1>4. left[n] <= left[i]
  BY <1>1, WakePassShrinks
<1>5. left[i] = left[i - 1] /\ ~(waiter[queue[i]].need <= left[i - 1])
  BY DEF WakePass, Grants
<1> QED BY <1>2, <1>3, <1>4, <1>5

\* Releasing waiters touches nothing but their result and readiness.
LEMMA MarkFacts ==
  ASSUME TypeOK, NEW S, NEW r \in Results
  PROVE  /\ Mark(S, r) \in [Threads -> Waiter]
         /\ \A t \in Threads : /\ Mark(S, r)[t].need = waiter[t].need
                               /\ Mark(S, r)[t].prio = waiter[t].prio
                               /\ t \in S => /\ Mark(S, r)[t].ready
                                             /\ Mark(S, r)[t].result = r
                               /\ t \notin S => Mark(S, r)[t] = waiter[t]
<1>1. \A t \in Threads : waiter[t] \in Waiter
  BY DEF TypeOK
<1>2. ASSUME NEW t \in Threads
      PROVE  LET w == [waiter[t] EXCEPT !.ready = TRUE, !.result = r]
             IN  /\ w \in Waiter /\ w.need = waiter[t].need
                 /\ w.prio = waiter[t].prio /\ w.ready /\ w.result = r
  BY <1>1 DEF Waiter
<1> QED BY <1>1, <1>2 DEF Mark

-----------------------------------------------------------------------------
(* The inductive invariant                                                 *)

LEMMA InitInv == Init => IInv
<1> SUFFICES ASSUME Init PROVE IInv
  OBVIOUS
<1> USE DEF Init
<1>1. NoWaiter \in Waiter
  BY DEF NoWaiter, Waiter, Results
<1>2. TypeOK
  <2>1. fifo \in BOOLEAN
    OBVIOUS
  <2>2. queue \in Seq(Threads) /\ waiter \in [Threads -> Waiter]
        /\ pc \in [Threads -> {"run", "queued", "deleting"}]
    BY <1>1
  <2>3. status \in {"None", "Set", "Deleted"} /\ ret \in Codes
    BY DEF Codes
  <2> QED BY <2>1, <2>2, <2>3 DEF TypeOK
<1>3. QueueOK /\ LifeOK /\ WakeOK
  BY DEF QueueOK, LifeOK, WakeOK, Distinct, Has
<1> QED BY <1>2, <1>3 DEF IInv

\* The steps that leave the waiters alone.
LEMMA PlainSteps ==
  ASSUME IInv, NEW t \in Threads, UNCHANGED threads, count' \in Int,
         status' \in {"None", "Set", "Deleted"}, fifo' \in BOOLEAN,
         initCount' \in Int, maxCount' \in Int, ret' \in Codes,
         ledger' \in Int, owed' \in Int,
         \/ status' = status /\ count' <= count
         \/ status = "None"
  PROVE  IInv'
<1> USE DEF IInv, threads
<1>1. TypeOK'
  BY DEF TypeOK
<1>2. QueueOK'
  BY DEF QueueOK
<1>3. LifeOK'
  BY DEF LifeOK
<1>4. WakeOK'
  <2> SUFFICES ASSUME NEW u \in Threads, pc[u] = "queued", ~waiter[u].ready
               PROVE  status' = "Set" /\ waiter[u].need > count'
    BY DEF WakeOK
  <2>1. status = "Set" /\ waiter[u].need > count
    BY DEF WakeOK
  <2>2. waiter[u].need \in Int /\ count \in Int
    BY WaiterFields DEF TypeOK
  <2> QED BY <2>1, <2>2
<1> QED BY <1>1, <1>2, <1>3, <1>4

\* A step that releases some waiters and leaves the others short of units.
LEMMA ReleaseSteps ==
  ASSUME IInv, NEW t \in Threads, NEW S, NEW r \in Results,
         waiter' = Mark(S, r), UNCHANGED <<object, queue, pc>>,
         count' \in Int, ret' \in Codes, ledger' \in Int, owed' \in Int,
         \A u \in Threads : pc[u] = "queued" /\ ~waiter[u].ready /\ u \notin S
                              => waiter[u].need > count'
  PROVE  IInv'
<1> USE DEF IInv, object
<1>0. /\ waiter' \in [Threads -> Waiter]
      /\ \A u \in Threads : /\ waiter'[u].need = waiter[u].need
                            /\ u \in S => waiter'[u].ready
                            /\ u \notin S => waiter'[u] = waiter[u]
  BY MarkFacts
<1>1. TypeOK'
  BY <1>0 DEF TypeOK
<1>2. QueueOK'
  BY <1>0 DEF QueueOK
<1>3. LifeOK'
  BY DEF LifeOK
<1>4. WakeOK'
  BY <1>0 DEF WakeOK
<1> QED BY <1>1, <1>2, <1>3, <1>4

\* A thread leaves the queue.
LEMMA LeaveSteps ==
  ASSUME IInv, NEW t \in Threads, pc[t] = "queued", NEW r \in Results, Leave(t, r)
  PROVE  IInv'
<1> USE DEF IInv, object, Leave
<1>0. /\ queue' \in Seq(Threads) /\ Distinct(queue')
      /\ \A x : Has(queue', x) <=> x # t /\ Has(queue, x)
  BY QueueWithoutFacts
<1>1. TypeOK'
  <2>1. NoWaiter \in Waiter
    BY DEF NoWaiter, Waiter, Results
  <2>2. waiter' \in [Threads -> Waiter]
        /\ pc' \in [Threads -> {"run", "queued", "deleting"}]
    BY <2>1 DEF TypeOK
  <2>3. ret' \in Codes
    BY DEF WaitCode, Results, Codes
  <2>4. ledger' \in Int /\ owed' \in Int
    BY WaiterFields DEF TypeOK
  <2> QED BY <1>0, <2>2, <2>3, <2>4 DEF TypeOK
<1>p. /\ pc'[t] = "run" /\ \A u \in Threads : u # t => pc'[u] = pc[u]
      /\ \A u \in Threads : u # t => waiter'[u] = waiter[u]
  BY DEF TypeOK
<1>2. QueueOK'
  BY <1>0, <1>p DEF QueueOK
<1>3. LifeOK'
  BY <1>p DEF LifeOK
<1>4. WakeOK'
  BY <1>p DEF WakeOK
<1> QED BY <1>1, <1>2, <1>3, <1>4

LEMMA NextInv == IInv /\ [Next]_vars => IInv'
<1> SUFFICES ASSUME IInv, [Next]_vars PROVE IInv'
  OBVIOUS
<1> USE DEF IInv
<1>0. /\ count \in Int /\ initCount \in Int /\ maxCount \in Int
      /\ ledger \in Int /\ owed \in Int
  BY DEF TypeOK
<1>c. \A m, r : r \in Results => CallCode(m, r) \in Codes /\ WaitCode(r) \in Codes
  BY DEF CallCode, PollCode, WaitCode, Results, Codes
<1>u. \A r : UpdateCode(r) \in Codes
  BY DEF UpdateCode, Codes
<1>1. ASSUME NEW t \in Threads, NEW c \in Counts, NEW first \in BOOLEAN,
             Create(t, c, first)
      PROVE  IInv'
  <2>1. c[1] \in Int /\ c[2] \in Int
    BY SemaAssumption
  <2>2. CASE c[1] < 0 \/ c[2] <= 0 \/ c[1] > c[2]
    BY <1>0, <1>1, <2>2, PlainSteps DEF Create, object, TypeOK, Codes
  <2>3. CASE ~(c[1] < 0 \/ c[2] <= 0 \/ c[1] > c[2])
    BY <1>0, <1>1, <2>1, <2>3, PlainSteps DEF Create, Codes
  <2> QED BY <2>2, <2>3
<1>2. ASSUME NEW t \in Threads, NEW n \in NeedCounts, NEW mode \in Modes,
             Refuse(t, n, mode)
      PROVE  IInv'
  <2>1. ret' \in Codes
    BY <1>2, <1>c DEF Refuse, Results
  <2> QED BY <1>0, <1>2, <2>1, PlainSteps DEF Refuse, object, TypeOK
<1>3. ASSUME NEW t \in Threads, NEW n \in NeedCounts, NEW mode \in Modes,
             Take(t, n, mode)
      PROVE  IInv'
  <2>1. ret' \in Codes
    BY <1>3, <1>c DEF Take, Results
  <2>2. n \in Int /\ n >= 1
    BY <1>0, <1>3 DEF Take
  <2> QED BY <1>0, <1>3, <2>1, <2>2, PlainSteps DEF Take, object, TypeOK
<1>4. ASSUME NEW t \in Threads, NEW n \in NeedCounts, NEW p \in Priorities,
             NEW mode \in Modes, Enqueue(t, n, p, mode)
      PROVE  IInv'
  <2> DEFINE prio == IF fifo THEN 0 ELSE p
             k    == InsertPos(prio)
             w    == [need |-> n, prio |-> prio, ready |-> FALSE,
                      result |-> "TimedOut", timed |-> (mode = "timed")]
  <2>1. prio \in Int /\ prio \in Priorities \cup {0}
    BY SemaAssumption
  <2>2. k \in 1..Len(queue) + 1
    BY <2>1, InsertPosFacts
  <2>3. /\ queue' = InsertAt(queue, k, t)
        /\ waiter' = [waiter EXCEPT ![t] = w]
        /\ pc' = [pc EXCEPT ![t] = "queued"]
        /\ pc[t] = "run" /\ status = "Set" /\ count < n /\ n \in 1..maxCount
        /\ UNCHANGED <<object, count, ret, ledger, owed>>
    BY <1>4 DEF Enqueue, Calling
  <2>w. w \in Waiter
    BY <2>1 DEF Waiter, Results
  <2> HIDE DEF k, prio
  <2>4. queue \in Seq(Threads) /\ Distinct(queue) /\ ~Has(queue, t)
    BY <2>3 DEF TypeOK, QueueOK
  <2>5. queue' \in Seq(Threads)
    BY <2>2, <2>3, <2>4, InsertAtFacts
  <2>6. Distinct(queue') /\ \A x : Has(queue', x) <=> x = t \/ Has(queue, x)
    BY <2>2, <2>3, <2>4, InsertFresh
  <2>7. w.need = n
    OBVIOUS
  <2> HIDE DEF w
  <2>8. /\ pc'[t] = "queued" /\ \A u \in Threads : u # t => pc'[u] = pc[u]
        /\ waiter'[t] = w /\ \A u \in Threads : u # t => waiter'[u] = waiter[u]
    BY <2>3 DEF TypeOK
  <2>9. TypeOK'
    BY <2>3, <2>5, <2>w DEF TypeOK, object
  <2>10. QueueOK'
    BY <1>0, <2>3, <2>6, <2>7, <2>8 DEF QueueOK
  <2>11. LifeOK'
    BY <2>3, <2>8 DEF LifeOK, object
  <2>12. WakeOK'
    BY <1>0, <2>3, <2>7, <2>8 DEF WakeOK, object
  <2> QED BY <2>9, <2>10, <2>11, <2>12
<1>5. ASSUME NEW t \in Threads, Resume(t) PROVE IInv'
  <2>1. waiter[t].result \in Results
    BY DEF TypeOK, Waiter
  <2> QED BY <1>5, <2>1, LeaveSteps DEF Resume
<1>6. ASSUME NEW t \in Threads, TimeOut(t) PROVE IInv'
  BY <1>6, LeaveSteps DEF TimeOut, Results
<1>7. ASSUME NEW t \in Threads, NEW n \in SignalCounts, Signal(t, n) PROVE IInv'
  <2>1. n \in Int
    BY SemaAssumption
  <2>2. CASE status = "Deleted" \/ count + n > maxCount
    <3>1. ret' \in Codes
      BY <1>7, <1>u, <2>2 DEF Signal
    <3> QED BY <1>0, <1>7, <2>2, <3>1, PlainSteps DEF Signal, object, TypeOK
  <2>3. CASE ~(status = "Deleted" \/ count + n > maxCount)
    <3>1. PICK left \in [0..Len(queue) -> PassRange(count + n)] :
            /\ WakePass(left, count + n)
            /\ count' = left[Len(queue)]
            /\ waiter' = Mark({queue[i] : i \in {j \in 1..Len(queue) :
                                                   Grants(left, j)}}, "Ok")
      BY <1>7, <2>3 DEF Signal
    <3> DEFINE S == {queue[i] : i \in {j \in 1..Len(queue) : Grants(left, j)}}
    <3>2. left \in [0..Len(queue) -> Int] /\ Len(queue) \in Nat
      BY <1>0, <2>1 DEF PassRange, TypeOK
    <3>3. ASSUME NEW u \in Threads, pc[u] = "queued", ~waiter[u].ready, u \notin S
          PROVE  waiter[u].need > count'
      <4>1. PICK i \in 1..Len(queue) : queue[i] = u
        BY <3>3 DEF QueueOK, Has
      <4>2. queue[i] \in Pending
        BY <3>3, <4>1, PendingFacts
      <4>3. ~Grants(left, i)
        BY <3>3, <4>1
      <4>4. count + n \in Int
        BY <1>0, <2>1
      <4> QED BY <3>1, <3>2, <4>1, <4>2, <4>3, <4>4, WakePassFacts
    <3>4. count' \in Int
      BY <3>1, <3>2
    <3>5. /\ ret' \in Codes /\ ledger' \in Int /\ owed' \in Int
          /\ UNCHANGED <<object, queue, pc>>
      BY <1>0, <1>7, <1>u, <2>1, <2>3 DEF Signal
    <3>6. waiter' = Mark(S, "Ok") /\ "Ok" \in Results
      BY <3>1 DEF Results
    <3> HIDE DEF S
    <3> QED BY <3>3, <3>4, <3>5, <3>6, ReleaseSteps
  <2> QED BY <2>2, <2>3
<1>8. ASSUME NEW t \in Threads, NEW n \in CancelCounts, Cancel(t, n) PROVE IInv'
  <2>1. n \in Int
    BY SemaAssumption
  <2>2. CASE n > maxCount \/ status = "Deleted"
    <3>1. ret' \in Codes
      BY <1>8, <1>u, <2>2 DEF Cancel
    <3> QED BY <1>0, <1>8, <2>2, <3>1, PlainSteps DEF Cancel, object, TypeOK
  <2>3. CASE ~(n > maxCount \/ status = "Deleted")
    <3>1. waiter' = Mark(Pending, "Canceled") /\ "Canceled" \in Results
      BY <1>8, <2>3 DEF Cancel, Results
    <3>2. count' \in Int /\ ret' \in Codes /\ ledger' \in Int
          /\ UNCHANGED <<object, queue, pc>>
      BY <1>0, <1>8, <1>u, <2>1, <2>3 DEF Cancel
    <3>3. owed' \in Int
      BY <1>0, <1>8, <2>3, PendingFinite DEF Cancel, CanceledCount
    <3>4. \A u \in Threads : pc[u] = "queued" /\ ~waiter[u].ready => u \in Pending
      BY PendingFacts
    <3> QED BY <3>1, <3>2, <3>3, <3>4, ReleaseSteps
  <2> QED BY <2>2, <2>3
<1>9. ASSUME NEW t \in Threads, DeleteBegin(t) PROVE IInv'
  <2>1. /\ waiter' \in [Threads -> Waiter]
        /\ \A u \in Threads : /\ waiter'[u].need = waiter[u].need
                              /\ u \in Pending => waiter'[u].ready
                              /\ u \notin Pending => waiter'[u] = waiter[u]
    BY <1>9, MarkFacts DEF DeleteBegin, Results
  <2>2. /\ pc'[t] = "deleting" /\ pc[t] = "run"
        /\ \A u \in Threads : u # t => pc'[u] = pc[u]
        /\ pc' \in [Threads -> {"run", "queued", "deleting"}]
        /\ status = "Set" /\ status' = "Deleted" /\ queue' = queue
    BY <1>9 DEF DeleteBegin, Calling, TypeOK
  <2>3. TypeOK'
    BY <1>9, <2>1, <2>2 DEF DeleteBegin, TypeOK
  <2>4. QueueOK'
    BY <2>1, <2>2 DEF QueueOK
  <2>5. LifeOK'
    BY <2>2 DEF LifeOK
  <2>6. WakeOK'
    BY <2>1, <2>2, PendingFacts DEF WakeOK
  <2> QED BY <2>3, <2>4, <2>5, <2>6
<1>10. ASSUME NEW t \in Threads, DeleteEnd(t) PROVE IInv'
  <2>1. /\ pc[t] = "deleting" /\ pc'[t] = "run" /\ queue = <<>> /\ queue' = queue
        /\ \A u \in Threads : u # t => pc'[u] = pc[u]
        /\ pc' \in [Threads -> {"run", "queued", "deleting"}]
        /\ status' = "None" /\ waiter' = waiter
    BY <1>10 DEF DeleteEnd, TypeOK
  <2>2. \A u \in Threads : pc[u] # "queued"
    BY <2>1 DEF QueueOK, Has
  <2>3. TypeOK'
    BY <1>10, <2>1 DEF DeleteEnd, TypeOK, Codes
  <2>4. QueueOK'
    BY <2>1 DEF QueueOK
  <2>5. LifeOK'
    BY <2>1, <2>2 DEF LifeOK
  <2>6. WakeOK'
    BY <2>1, <2>2 DEF WakeOK
  <2> QED BY <2>3, <2>4, <2>5, <2>6
<1>11. CASE UNCHANGED vars
  BY <1>11 DEF vars, object, threads, TypeOK, QueueOK, LifeOK, WakeOK
<1> QED
  BY <1>1, <1>2, <1>3, <1>4, <1>5, <1>6, <1>7, <1>8, <1>9, <1>10, <1>11 DEF Next

-----------------------------------------------------------------------------
(* The order of the queue                                                  *)

\* The waiters a pass of WakeWaiters serves.
Served(left) == {queue[i] : i \in {j \in 1..Len(queue) : Grants(left, j)}}

\* A signal that is let through is one pass, started with the new count.
LEMMA SignalPass ==
  ASSUME IInv, NEW t \in Threads, NEW n \in SignalCounts, Signal(t, n),
         ~(status = "Deleted" \/ count + n > maxCount)
  PROVE  /\ count \in Int /\ n \in Int
         /\ UNCHANGED <<object, queue, pc, owed>> /\ ledger' = ledger + n
         /\ \E left \in [0..Len(queue) -> Int] :
              /\ WakePass(left, count + n)
              /\ count' = left[Len(queue)]
              /\ waiter' = Mark(Served(left), "Ok")
<1>1. count \in Int /\ n \in Int
  BY SemaAssumption DEF IInv, TypeOK
<1>2. UNCHANGED <<object, queue, pc, owed>> /\ ledger' = ledger + n
  BY DEF Signal
<1>3. PICK left \in [0..Len(queue) -> PassRange(count + n)] :
        /\ WakePass(left, count + n)
        /\ count' = left[Len(queue)]
        /\ waiter' = Mark(Served(left), "Ok")
  BY DEF Signal, Served
<1>4. PassRange(count + n) \subseteq Int
  BY DEF PassRange
<1>5. left \in [0..Len(queue) -> Int]
  BY <1>4
<1> QED BY <1>1, <1>2, <1>3, <1>5

\* What a step may do to the queue and the records in it.
LEMMA QueueShapes ==
  ASSUME IInv, [Next]_vars
  PROVE  \/ UNCHANGED <<queue, waiter>> /\ (fifo' = fifo \/ Len(queue) = 0)
         \/ \E t \in Threads, n \in NeedCounts, p \in Priorities, mode \in Modes :
              Enqueue(t, n, p, mode)
         \/ \E t \in Threads, r \in Results : pc[t] = "queued" /\ Leave(t, r)
         \/ \E r \in {"Canceled", "Deleted"} :
              waiter' = Mark(Pending, r) /\ UNCHANGED <<queue, fifo>>
         \/ \E c \in Int, left \in [0..Len(queue) -> Int] :
              /\ WakePass(left, c)
              /\ waiter' = Mark(Served(left), "Ok") /\ UNCHANGED <<queue, fifo>>
<1>1. ASSUME NEW t \in Threads, NEW c \in Counts, NEW first \in BOOLEAN,
             Create(t, c, first)
      PROVE  UNCHANGED <<queue, waiter>> /\ Len(queue) = 0
  <2>1. UNCHANGED <<queue, waiter>> /\ status = "None"
    BY <1>1 DEF Create, threads
  <2>2. Len(queue) \in Nat /\ ~(1 \in 1..Len(queue))
    BY <2>1, QueuePlaces DEF IInv, LifeOK, TypeOK
  <2> QED BY <2>1, <2>2
<1>2. ASSUME NEW t \in Threads, NEW n \in NeedCounts, NEW mode \in Modes,
             Refuse(t, n, mode) \/ Take(t, n, mode)
      PROVE  UNCHANGED <<queue, waiter, fifo>>
  BY <1>2 DEF Refuse, Take, threads, object
<1>3. ASSUME NEW t \in Threads, Resume(t) \/ TimeOut(t)
      PROVE  \E r \in Results : pc[t] = "queued" /\ Leave(t, r)
  <2>1. waiter[t].result \in Results /\ "TimedOut" \in Results
    BY DEF IInv, TypeOK, Waiter, Results
  <2> QED BY <1>3, <2>1 DEF Resume, TimeOut
<1>4. ASSUME NEW t \in Threads, NEW n \in SignalCounts, Signal(t, n)
      PROVE  \/ UNCHANGED <<queue, waiter, fifo>>
             \/ \E c \in Int, left \in [0..Len(queue) -> Int] :
                  /\ WakePass(left, c)
                  /\ waiter' = Mark(Served(left), "Ok") /\ UNCHANGED <<queue, fifo>>
  <2>1. CASE status = "Deleted" \/ count + n > maxCount
    BY <1>4, <2>1 DEF Signal, threads, object
  <2>2. CASE ~(status = "Deleted" \/ count + n > maxCount)
    <3>1. count + n \in Int /\ UNCHANGED <<queue, fifo>>
      BY <1>4, <2>2, SignalPass DEF object
    <3> QED BY <1>4, <2>2, <3>1, SignalPass
  <2> QED BY <2>1, <2>2
<1>5. ASSUME NEW t \in Threads, NEW n \in CancelCounts, Cancel(t, n)
      PROVE  \/ UNCHANGED <<queue, waiter, fifo>>
             \/ waiter' = Mark(Pending, "Canceled") /\ UNCHANGED <<queue, fifo>>
  BY <1>5 DEF Cancel, threads, object
<1>6. ASSUME NEW t \in Threads, DeleteBegin(t)
      PROVE  waiter' = Mark(Pending, "Deleted") /\ UNCHANGED <<queue, fifo>>
  BY <1>6 DEF DeleteBegin
<1>7. ASSUME NEW t \in Threads, DeleteEnd(t)
      PROVE  UNCHANGED <<queue, waiter, fifo>>
  BY <1>7 DEF DeleteEnd
<1>8. CASE UNCHANGED vars
  BY <1>8 DEF vars, threads, object
<1> QED
  BY <1>1, <1>2, <1>3, <1>4, <1>5, <1>6, <1>7, <1>8 DEF Next

\* AddWaiter keeps the queue in order of priority.
LEMMA EnqueueSorted ==
  ASSUME IInv, Sorted, NEW t \in Threads, NEW n \in NeedCounts,
         NEW p \in Priorities, NEW mode \in Modes, Enqueue(t, n, p, mode)
  PROVE  Sorted'
<1> SUFFICES ASSUME ~fifo PROVE Sorted'
  BY DEF Sorted, Enqueue, object
<1> DEFINE k    == InsertPos(p)
           m    == Len(queue)
           P(i) == waiter[queue[i]].prio
           R(i) == waiter'[queue'[i]].prio
<1>1. p \in Int
  BY SemaAssumption
<1>2. /\ k \in 1..m + 1
      /\ \A i \in 1..k - 1 : P(i) <= p
      /\ k <= m => P(k) > p
  BY <1>1, InsertPosFacts DEF IInv
<1>3. m \in Nat /\ \A i \in 1..m : queue[i] \in Threads /\ P(i) \in Int
  BY QueuePlaces, WaiterFields DEF IInv, TypeOK
<1>4. queue' = InsertAt(queue, k, t) /\ pc[t] = "run"
      /\ waiter'[t].prio = p /\ \A u \in Threads : u # t => waiter'[u] = waiter[u]
  BY DEF Enqueue, Calling, IInv, TypeOK
<1>5. \A i \in 1..m : queue[i] # t
  BY <1>4, QueuePlaces DEF IInv
<1> HIDE DEF k
<1>6. /\ Len(queue') = m + 1
      /\ \A i \in 1..m + 1 : queue'[i] = IF i < k THEN queue[i]
                                         ELSE IF i = k THEN t ELSE queue[i - 1]
  <2> HIDE DEF P, R
  <2>1. queue \in Seq(Threads) /\ k \in 1..Len(queue) + 1
    BY <1>2 DEF IInv, TypeOK
  <2>2. /\ Len(InsertAt(queue, k, t)) = m + 1
        /\ \A i \in 1..m + 1 :
             InsertAt(queue, k, t)[i] = IF i < k THEN queue[i]
                                        ELSE IF i = k THEN t ELSE queue[i - 1]
    BY <2>1, InsertAtFacts
  <2> QED BY <1>4, <2>2
<1>7. \A i \in 1..m + 1 : R(i) = IF i < k THEN P(i)
                                 ELSE IF i = k THEN p ELSE P(i - 1)
  <2> SUFFICES ASSUME NEW i \in 1..m + 1
               PROVE  R(i) = IF i < k THEN P(i) ELSE IF i = k THEN p ELSE P(i - 1)
    OBVIOUS
  <2>1. CASE i < k
    <3>1. i \in 1..m /\ queue'[i] = queue[i]
      BY <1>2, <1>3, <1>6, <2>1
    <3> QED BY <1>3, <1>4, <1>5, <2>1, <3>1
  <2>2. CASE i = k
    BY <1>2, <1>4, <1>6, <2>2
  <2>3. CASE i > k
    <3>1. i - 1 \in 1..m /\ queue'[i] = queue[i - 1]
      BY <1>2, <1>3, <1>6, <2>3
    <3> QED BY <1>2, <1>3, <1>4, <1>5, <2>3, <3>1
  <2> QED BY <1>2, <1>3, <2>1, <2>2, <2>3
<1>8. \A i, j \in 1..m : i <= j => P(i) <= P(j)
  BY DEF Sorted
<1> HIDE DEF m, P, R
<1>9. \A i \in 1..m : i >= k => P(i) > p
  BY <1>1, <1>2, <1>3, <1>8
<1>10. \A i, j \in 1..m + 1 : i <= j => R(i) <= R(j)
  <2> SUFFICES ASSUME NEW i \in 1..m + 1, NEW j \in 1..m + 1, i <= j
               PROVE  R(i) <= R(j)
    OBVIOUS
  <2>1. CASE j < k
    BY <1>2, <1>3, <1>7, <1>8, <2>1
  <2>2. CASE j = k
    BY <1>1, <1>2, <1>3, <1>7, <2>2
  <2>3. CASE j > k
    <3>1. j - 1 \in 1..m /\ R(j) = P(j - 1) /\ P(j - 1) > p
      BY <1>2, <1>3, <1>7, <1>9, <2>3
    <3>2. CASE i < k
      BY <1>1, <1>2, <1>3, <1>7, <3>1, <3>2
    <3>3. CASE i = k
      BY <1>1, <1>3, <1>7, <3>1, <3>3
    <3>4. CASE i > k
      <4>1. i - 1 \in 1..m /\ R(i) = P(i - 1) /\ i - 1 <= j - 1
        BY <1>2, <1>3, <1>7, <3>4
      <4> QED BY <1>8, <3>1, <4>1
    <3> QED BY <1>2, <3>2, <3>3, <3>4
  <2> QED BY <1>2, <2>1, <2>2, <2>3
<1> QED BY <1>6, <1>10 DEF Sorted, R

\* RemoveWaiter keeps the order of those that stay.
LEMMA LeaveSorted ==
  ASSUME IInv, Sorted, NEW t \in Threads, NEW r \in Results,
         pc[t] = "queued", Leave(t, r)
  PROVE  Sorted'
<1> SUFFICES ASSUME ~fifo PROVE Sorted'
  BY DEF Sorted, Leave, object
<1> DEFINE k    == CHOOSE k \in 1..Len(queue) : queue[k] = t
           m    == Len(queue)
           U(i) == IF i < k THEN i ELSE i + 1
<1>1. k \in 1..m /\ queue[k] = t
  BY DEF IInv, QueueOK, Has
<1>2. queue' = RemoveAt(queue, k)
  BY DEF Leave, QueueWithout
<1> HIDE DEF k
<1>3. m \in Nat /\ Len(queue') = m - 1
      /\ \A i \in 1..m - 1 : U(i) \in 1..m /\ queue'[i] = queue[U(i)] /\ U(i) # k
  <2>1. queue \in Seq(Threads) /\ m \in Nat
    BY DEF IInv, TypeOK
  <2>2. /\ Len(queue') = m - 1
        /\ \A i \in 1..m - 1 : queue'[i] = IF i < k THEN queue[i] ELSE queue[i + 1]
    BY <1>1, <1>2, <2>1, RemoveAtFacts
  <2>3. ASSUME NEW i \in 1..m - 1
        PROVE  U(i) \in 1..m /\ queue'[i] = queue[U(i)] /\ U(i) # k
    BY <1>1, <2>1, <2>2
  <2> QED BY <2>1, <2>2, <2>3
<1>4. \A i \in 1..m : i # k => queue[i] # t /\ queue[i] \in Threads
  BY <1>1, QueuePlaces DEF IInv, QueueOK, Distinct
<1>5. \A u \in Threads : u # t => waiter'[u] = waiter[u]
  BY DEF Leave, IInv, TypeOK
<1>6. \A i \in 1..m - 1 : waiter'[queue'[i]] = waiter[queue[U(i)]]
  BY <1>3, <1>4, <1>5
<1>7. \A i, j \in 1..m - 1 : i <= j => U(i) <= U(j)
  BY <1>1
<1>8. \A i, j \in 1..m : i <= j => waiter[queue[i]].prio <= waiter[queue[j]].prio
  BY DEF Sorted
<1> HIDE DEF m, U
<1>9. ASSUME NEW i \in 1..m - 1, NEW j \in 1..m - 1, i <= j
      PROVE  waiter'[queue'[i]].prio <= waiter'[queue'[j]].prio
  <2>1. U(i) \in 1..m /\ U(j) \in 1..m /\ U(i) <= U(j)
    BY <1>3, <1>7, <1>9
  <2>2. waiter[queue[U(i)]].prio <= waiter[queue[U(j)]].prio
    BY <1>8, <2>1
  <2> QED BY <1>6, <2>2
<1> QED BY <1>3, <1>9 DEF Sorted

LEMMA SortedNext == IInv /\ Sorted /\ [Next]_vars => Sorted'
<1> SUFFICES ASSUME IInv, Sorted, [Next]_vars PROVE Sorted'
  OBVIOUS
<1>1. CASE UNCHANGED <<queue, waiter>> /\ (fifo' = fifo \/ Len(queue) = 0)
  BY <1>1 DEF Sorted
<1>2. ASSUME NEW S, NEW r \in Results, waiter' = Mark(S, r),
             UNCHANGED <<queue, fifo>>
      PROVE  Sorted'
  <2>1. \A t \in Threads : waiter'[t].prio = waiter[t].prio
    BY <1>2, MarkFacts DEF IInv
  <2>2. \A i \in 1..Len(queue) : queue[i] \in Threads
    BY QueuePlaces DEF IInv
  <2> QED BY <1>2, <2>1, <2>2 DEF Sorted
<1>3. {"Ok", "Canceled", "Deleted"} \subseteq Results
  BY DEF Results
<1> QED BY <1>1, <1>2, <1>3, QueueShapes, EnqueueSorted, LeaveSorted

\* Within one pass, a waiter is served past a more urgent pending one only if
\* that one asks for more.
LEMMA PassOrder ==
  ASSUME IInv, Sorted, ~fifo, NEW c \in Int,
         NEW left \in [0..Len(queue) -> Int], WakePass(left, c),
         NEW i \in 1..Len(queue), NEW j \in 1..Len(queue),
         Grants(left, i), queue[j] \in Pending, ~Grants(left, j),
         waiter[queue[j]].prio < waiter[queue[i]].prio
  PROVE  waiter[queue[j]].need > waiter[queue[i]].need
<1>1. Len(queue) \in Nat /\ queue[i] \in Threads /\ queue[j] \in Threads
  BY QueuePlaces DEF IInv, TypeOK
<1>2. /\ waiter[queue[i]].prio \in Int /\ waiter[queue[j]].prio \in Int
      /\ waiter[queue[i]].need \in Int /\ waiter[queue[j]].need \in Int
  BY <1>1, WaiterFields DEF IInv
<1>3. ~(i <= j)
  BY <1>2 DEF Sorted
<1>4. /\ i - 1 \in 0..Len(queue) /\ j \in 0..i - 1
      /\ j \in 0..Len(queue) /\ j - 1 \in 0..Len(queue)
  BY <1>1, <1>3
<1>5. left[i - 1] <= left[j]
  BY <1>4, WakePassShrinks DEF IInv
<1>6. left[i - 1] \in Int /\ left[j] \in Int /\ left[j - 1] \in Int
  BY <1>4
<1>7. waiter[queue[i]].need <= left[i - 1]
  BY DEF Grants
<1>8. left[j] = left[j - 1] /\ ~(waiter[queue[j]].need <= left[j - 1])
  BY DEF WakePass, Grants
<1> QED BY <1>2, <1>5, <1>6, <1>7, <1>8

LEMMA GrantOrder ==
  ASSUME IInv, Sorted, [Next]_vars, ~fifo,
         NEW t \in Threads, NEW u \in Threads, Granted(t),
         u \in Pending, u \in Pending', waiter[u].prio < waiter[t].prio
  PROVE  waiter[u].need > waiter[t].need
<1>1. pc[t] = "queued" /\ ~waiter[t].ready /\ waiter'[t].ready
      /\ waiter'[t].result = "Ok"
  BY DEF Granted
<1>2. waiter' # waiter
  BY <1>1
<1>3. ASSUME NEW x \in Threads, NEW n \in NeedCounts, NEW p \in Priorities,
             NEW mode \in Modes, Enqueue(x, n, p, mode)
      PROVE  FALSE
  <2>1. ~waiter'[x].ready /\ \A y \in Threads : y # x => waiter'[y] = waiter[y]
    BY <1>3 DEF Enqueue, IInv, TypeOK
  <2> QED BY <1>1, <2>1
<1>4. ASSUME NEW x \in Threads, NEW r \in Results, pc[x] = "queued", Leave(x, r)
      PROVE  FALSE
  <2>1. ~waiter'[x].ready /\ \A y \in Threads : y # x => waiter'[y] = waiter[y]
    BY <1>4 DEF Leave, NoWaiter, IInv, TypeOK
  <2> QED BY <1>1, <2>1
<1>5. ASSUME NEW r \in {"Canceled", "Deleted"}, waiter' = Mark(Pending, r)
      PROVE  FALSE
  <2>1. r \in Results /\ r # "Ok"
    BY DEF Results
  <2>2. IF t \in Pending THEN waiter'[t].result = r ELSE waiter'[t] = waiter[t]
    BY <1>5, <2>1, MarkFacts DEF IInv
  <2> QED BY <1>1, <2>1, <2>2
<1>6. ASSUME NEW c \in Int, NEW left \in [0..Len(queue) -> Int],
             WakePass(left, c), waiter' = Mark(Served(left), "Ok")
      PROVE  waiter[u].need > waiter[t].need
  <2>1. /\ t \notin Served(left) => waiter'[t] = waiter[t]
        /\ u \in Served(left) => waiter'[u].ready
    BY <1>6, MarkFacts DEF IInv, Results
  <2>2. t \in Served(left) /\ u \notin Served(left)
    BY <1>1, <2>1 DEF Pending
  <2>3. PICK i \in 1..Len(queue) : Grants(left, i) /\ queue[i] = t
    BY <2>2 DEF Served
  <2>4. PICK j \in 1..Len(queue) : queue[j] = u
    BY PendingFacts DEF IInv, QueueOK, Has
  <2>5. ~Grants(left, j)
    BY <2>2, <2>4 DEF Served
  <2> QED BY <1>6, <2>3, <2>4, <2>5, PassOrder
<1> QED BY <1>2, <1>3, <1>4, <1>5, <1>6, QueueShapes

-----------------------------------------------------------------------------
(* The number KernelCancelSema reports                                     *)

\* The waiters a cancel released that have not returned yet.
Cancelled == {t \in Threads : pc[t] = "queued" /\ waiter[t].ready
                               /\ waiter[t].result = "Canceled"}

\* They are finitely many, being in the queue.
LEMMA CancelledFinite ==
  ASSUME TypeOK, QueueOK
  PROVE  IsFiniteSet(Cancelled)
<1>1. Cancelled \subseteq ToSet(queue)
  <2> SUFFICES ASSUME NEW t \in Cancelled PROVE t \in ToSet(queue)
    OBVIOUS
  <2>1. PICK i \in 1..Len(queue) : queue[i] = t
    BY DEF Cancelled, QueueOK, Has
  <2> QED BY <2>1 DEF ToSet
<1> QED BY <1>1, QueueFinite, FS_Subset

\* The set changes with a record that leaves, or when a cancel adds to it.
LEMMA TallyNext == IInv /\ CancelTally /\ [Next]_vars => CancelTally'
<1> SUFFICES ASSUME IInv, CancelTally, [Next]_vars PROVE CancelTally'
  OBVIOUS
<1>1. owed = Cardinality(Cancelled) /\ IsFiniteSet(Cancelled)
  BY CancelledFinite DEF CancelTally, Cancelled, IInv
<1>2. SUFFICES owed' = Cardinality(Cancelled')
  BY DEF CancelTally, Cancelled
<1>3. ASSUME UNCHANGED <<waiter, owed>>,
             \A t \in Threads : pc'[t] = "queued" <=> pc[t] = "queued"
      PROVE  owed' = Cardinality(Cancelled')
  BY <1>1, <1>3 DEF Cancelled
<1>4. ASSUME NEW t \in Threads, NEW c \in Counts, NEW first \in BOOLEAN,
             Create(t, c, first)
      PROVE  owed' = Cardinality(Cancelled')
  <2>1. CASE owed' = owed
    BY <1>3, <1>4, <2>1 DEF Create, threads
  <2>2. CASE owed' # owed
    <3>1. owed' = 0 /\ UNCHANGED threads /\ status = "None"
      BY <1>4, <2>2 DEF Create
    <3>2. Cancelled' = {}
      BY <3>1 DEF Cancelled, threads, IInv, LifeOK
    <3> QED BY <3>1, <3>2, FS_EmptySet
  <2> QED BY <2>1, <2>2
<1>5. ASSUME NEW t \in Threads, NEW n \in NeedCounts, NEW mode \in Modes,
             Refuse(t, n, mode) \/ Take(t, n, mode)
      PROVE  owed' = Cardinality(Cancelled')
  BY <1>3, <1>5 DEF Refuse, Take, threads
<1>6. ASSUME NEW t \in Threads, NEW n \in NeedCounts, NEW p \in Priorities,
             NEW mode \in Modes, Enqueue(t, n, p, mode)
      PROVE  owed' = Cardinality(Cancelled')
  <2>1. /\ owed' = owed /\ pc[t] = "run" /\ ~waiter'[t].ready
        /\ \A u \in Threads : u # t => waiter'[u] = waiter[u] /\ pc'[u] = pc[u]
    BY <1>6 DEF Enqueue, Calling, IInv, TypeOK
  <2>2. Cancelled' = Cancelled
    BY <2>1 DEF Cancelled
  <2> QED BY <1>1, <2>1, <2>2
<1>7. ASSUME NEW t \in Threads, NEW r, pc[t] = "queued", Leave(t, r),
             r = "Canceled" <=> t \in Cancelled
      PROVE  owed' = Cardinality(Cancelled')
  <2>1. /\ owed' = IF t \in Cancelled THEN owed - 1 ELSE owed
        /\ pc'[t] = "run"
        /\ \A u \in Threads : u # t => waiter'[u] = waiter[u] /\ pc'[u] = pc[u]
    BY <1>7 DEF Leave, IInv, TypeOK
  <2>2. Cancelled' = Cancelled \ {t}
    BY <2>1 DEF Cancelled
  <2>3. CASE t \in Cancelled
    BY <1>1, <2>1, <2>2, <2>3, FS_RemoveElement
  <2>4. CASE t \notin Cancelled
    <3>1. Cancelled' = Cancelled
      BY <2>2, <2>4
    <3> QED BY <1>1, <2>1, <2>4, <3>1
  <2> QED BY <2>3, <2>4
<1>8. ASSUME NEW t \in Threads, Resume(t) \/ TimeOut(t)
      PROVE  owed' = Cardinality(Cancelled')
  BY <1>7, <1>8 DEF Resume, TimeOut, Cancelled
<1>9. ASSUME NEW S, NEW r \in Results, r # "Canceled", waiter' = Mark(S, r),
             owed' = owed,
             \A u \in Threads : pc'[u] = "queued" <=> pc[u] = "queued",
             \A u \in Threads : u \in S => ~waiter[u].ready
      PROVE  owed' = Cardinality(Cancelled')
  <2>1. \A u \in Threads : IF u \in S THEN waiter'[u].result = r
                                      ELSE waiter'[u] = waiter[u]
    BY <1>9, MarkFacts DEF IInv
  <2>2. Cancelled' = Cancelled
    BY <1>9, <2>1 DEF Cancelled
  <2> QED BY <1>1, <1>9, <2>2
<1>10. ASSUME NEW t \in Threads, NEW n \in SignalCounts, Signal(t, n)
       PROVE  owed' = Cardinality(Cancelled')
  <2>1. CASE status = "Deleted" \/ count + n > maxCount
    BY <1>3, <1>10, <2>1 DEF Signal, threads
  <2>2. CASE ~(status = "Deleted" \/ count + n > maxCount)
    <3>1. PICK left : waiter' = Mark(Served(left), "Ok")
      BY <1>10, <2>2, SignalPass
    <3>2. owed' = owed /\ pc' = pc
      BY <1>10, <2>2, SignalPass
    <3>3. \A u \in Threads : u \in Served(left) => ~waiter[u].ready
      BY DEF Served, Grants, Pending
    <3> QED BY <1>9, <3>1, <3>2, <3>3 DEF Results
  <2> QED BY <2>1, <2>2
<1>11. ASSUME NEW t \in Threads, NEW n \in CancelCounts, Cancel(t, n)
       PROVE  owed' = Cardinality(Cancelled')
  <2>1. CASE n > maxCount \/ status = "Deleted"
    BY <1>3, <1>11, <2>1 DEF Cancel, threads
  <2>2. CASE ~(n > maxCount \/ status = "Deleted")
    <3>1. /\ waiter' = Mark(Pending, "Canceled") /\ pc' = pc
          /\ owed' = owed + Cardinality(Pending)
      BY <1>11, <2>2 DEF Cancel, CanceledCount
    <3>2. \A u \in Threads : IF u \in Pending
                             THEN waiter'[u].ready /\ waiter'[u].result = "Canceled"
                             ELSE waiter'[u] = waiter[u]
      BY <3>1, MarkFacts DEF IInv, Results
    <3>3. \A u : u \in Pending <=> u \in Threads /\ pc[u] = "queued"
                                   /\ ~waiter[u].ready
      BY PendingFacts DEF IInv
    <3>4. Cancelled' = Cancelled \cup Pending /\ Cancelled \cap Pending = {}
      BY <3>1, <3>2, <3>3 DEF Cancelled
    <3>5. IsFiniteSet(Pending) /\ Cardinality(Pending) \in Nat
      BY PendingFinite DEF IInv
    <3>6. Cardinality(Cancelled \cup Pending)
            = Cardinality(Cancelled) + Cardinality(Pending)
                - Cardinality(Cancelled \cap Pending)
      BY <1>1, <3>5, FS_Union
    <3>7. Cardinality(Cancelled \cap Pending) = 0 /\ Cardinality(Cancelled) \in Nat
      BY <1>1, <3>4, FS_EmptySet, FS_CardinalityType
    <3> QED BY <1>1, <3>1, <3>4, <3>5, <3>6, <3>7
  <2> QED BY <2>1, <2>2
<1>12. ASSUME NEW t \in Threads, DeleteBegin(t)
       PROVE  owed' = Cardinality(Cancelled')
  <2>1. /\ waiter' = Mark(Pending, "Deleted") /\ owed' = owed
        /\ \A u \in Threads : pc'[u] = "queued" <=> pc[u] = "queued"
    BY <1>12 DEF DeleteBegin, Calling, IInv, TypeOK
  <2>2. \A u \in Threads : u \in Pending => ~waiter[u].ready
    BY DEF Pending
  <2> QED BY <1>9, <2>1, <2>2 DEF Results
<1>13. ASSUME NEW t \in Threads, DeleteEnd(t)
       PROVE  owed' = Cardinality(Cancelled')
  <2>1. /\ UNCHANGED <<waiter, owed>>
        /\ \A u \in Threads : pc'[u] = "queued" <=> pc[u] = "queued"
    BY <1>13 DEF DeleteEnd, IInv, TypeOK
  <2> QED BY <1>3, <2>1
<1>14. CASE UNCHANGED vars
  BY <1>3, <1>14 DEF vars, threads
<1> QED BY <1>4, <1>5, <1>6, <1>8, <1>10, <1>11, <1>12, <1>13, <1>14 DEF Next

-----------------------------------------------------------------------------
(* Sums                                                                    *)

\* The total of a sequence ends its running sum.
LEMMA TotalIs ==
  ASSUME NEW s \in Seq(Int), NEW g, RunningSum(Len(s), s, g)
  PROVE  Total(s) = g[Len(s)]
<1> DEFINE h == CHOOSE f : Sums(Len(s), s, f)
<1>1. Len(s) \in Nat
  OBVIOUS
<1>2. Sums(Len(s), s, g) /\ \A f : Sums(Len(s), s, f) => f[Len(s)] = g[Len(s)]
  BY <1>1, RunningSumSolves
<1>3. Sums(Len(s), s, h)
  BY <1>2
<1>4. h[Len(s)] = g[Len(s)]
  BY <1>2, <1>3
<1>5. Total(s) = h[Len(s)]
  BY DEF Total, Sums
<1> QED BY <1>4, <1>5

\* Every sequence of integers has an integer total.
LEMMA TotalInt ==
  ASSUME NEW s \in Seq(Int)
  PROVE  /\ Total(s) \in Int
         /\ \E g : RunningSum(Len(s), s, g) /\ Total(s) = g[Len(s)]
<1>1. Len(s) \in Nat /\ s \in [1..Len(s) -> Int]
  OBVIOUS
<1>2. PICK g : RunningSum(Len(s), s, g)
  BY <1>1, RunningSumExists
<1>3. g[Len(s)] \in Int
  BY <1>1, <1>2 DEF RunningSum
<1> QED BY <1>2, <1>3, TotalIs

\* One more number adds itself to the total, wherever it goes.
LEMMA TotalInsert ==
  ASSUME NEW s \in Seq(Int), NEW r \in Seq(Int), NEW k,
         Len(r) = Len(s) + 1, Inserted(Len(s), s, k, r)
  PROVE  Total(r) = Total(s) + r[k]
<1>1. PICK g : RunningSum(Len(s), s, g) /\ Total(s) = g[Len(s)]
  BY TotalInt
<1>2. Len(s) \in Nat
  OBVIOUS
<1>3. PICK h : /\ RunningSum(Len(s) + 1, r, h)
               /\ h[Len(s) + 1] = g[Len(s)] + r[k]
  BY <1>1, <1>2, RunningSumInsert
<1>4. Total(r) = h[Len(r)]
  BY <1>3, TotalIs
<1> QED BY <1>1, <1>3, <1>4

\* What a falling count gives away is what the numbers beside it gain.
LEMMA TotalGains ==
  ASSUME NEW s \in Seq(Int), NEW r \in Seq(Int), Len(r) = Len(s),
         NEW left \in [0..Len(s) -> Int],
         \A i \in 1..Len(s) : r[i] = s[i] + (left[i - 1] - left[i])
  PROVE  Total(r) = Total(s) + (left[0] - left[Len(s)])
<1>1. PICK g : RunningSum(Len(s), s, g) /\ Total(s) = g[Len(s)]
  BY TotalInt
<1>2. Len(s) \in Nat /\ s \in [1..Len(s) -> Int]
  OBVIOUS
<1>3. PICK h : /\ RunningSum(Len(s), r, h)
               /\ h[Len(s)] = g[Len(s)] + (left[0] - left[Len(s)])
  BY ZenonT(60), <1>1, <1>2, RunningSumGains
<1>4. Total(r) = h[Len(r)]
  BY <1>3, TotalIs
<1> QED BY <1>1, <1>3, <1>4

-----------------------------------------------------------------------------
(* Conservation of units                                                   *)

\* The units a record promises its waiter.
Promise(w) == IF w.ready /\ w.result = "Ok" THEN w.need ELSE 0

\* What is promised to the places of the queue are integers.
PromisesOK ==
  /\ Len(queue) \in Nat /\ Promises \in Seq(Int)
  /\ Len(Promises) = Len(queue)
  /\ \A i \in 1..Len(queue) : /\ Promises[i] = Promise(waiter[queue[i]])
                              /\ Promises[i] \in Int

LEMMA PromisesNow == IInv => PromisesOK
<1> SUFFICES ASSUME TypeOK, QueueOK PROVE PromisesOK
  BY DEF IInv
<1>1. Len(queue) \in Nat
  BY DEF TypeOK
<1>2. \A i \in 1..Len(queue) : Promise(waiter[queue[i]]) \in Int
  BY QueuePlaces, WaiterFields DEF Promise
<1>3. Promises = [i \in 1..Len(queue) |-> Promise(waiter[queue[i]])]
  BY DEF Promises, Promise
<1> HIDE DEF Promises
<1>4. Promises \in [1..Len(queue) -> Int]
  BY <1>2, <1>3
<1> QED BY <1>1, <1>2, <1>3, <1>4 DEF PromisesOK

\* And they are after a step that keeps the invariant.
LEMMA PromisesNext == IInv' => PromisesOK'
  BY PromisesNow, PTL

LEMMA EnqueueUnits ==
  ASSUME IInv, IInv', NEW t \in Threads, NEW n \in NeedCounts,
         NEW p \in Priorities, NEW mode \in Modes, Enqueue(t, n, p, mode)
  PROVE  Total(Promises') = Total(Promises)
<1> DEFINE k == InsertPos(IF fifo THEN 0 ELSE p)
           m == Len(queue)
<1>1. k \in 1..m + 1
  <2>1. (IF fifo THEN 0 ELSE p) \in Int /\ TypeOK
    BY SemaAssumption DEF IInv
  <2> QED BY <2>1, InsertPosFacts
<1>2. queue' = InsertAt(queue, k, t) /\ ~waiter'[t].ready /\ pc[t] = "run"
      /\ \A u \in Threads : u # t => waiter'[u] = waiter[u]
  BY DEF Enqueue, Calling, IInv, TypeOK
<1> HIDE DEF k
<1>3. /\ Len(queue') = m + 1
      /\ \A i \in 1..m + 1 : queue'[i] = IF i < k THEN queue[i]
                                         ELSE IF i = k THEN t ELSE queue[i - 1]
  <2>1. queue \in Seq(Threads) /\ k \in 1..Len(queue) + 1
    BY <1>1 DEF IInv, TypeOK
  <2>2. /\ Len(InsertAt(queue, k, t)) = m + 1
        /\ \A i \in 1..m + 1 :
             InsertAt(queue, k, t)[i] = IF i < k THEN queue[i]
                                        ELSE IF i = k THEN t ELSE queue[i - 1]
    BY SMTT(30), <2>1, InsertAtFacts
  <2> QED BY <1>2, <2>2
<1>4. /\ m \in Nat /\ Promises \in Seq(Int) /\ Len(Promises) = m
      /\ \A i \in 1..m : Promises[i] = Promise(waiter[queue[i]])
  BY PromisesNow DEF PromisesOK
<1>5. /\ Promises' \in Seq(Int) /\ Len(Promises') = m + 1
      /\ \A i \in 1..m + 1 : Promises'[i] = Promise(waiter'[queue'[i]])
  BY <1>3, PromisesNext DEF PromisesOK, Promise
<1>6. \A i \in 1..m : queue[i] \in Threads /\ queue[i] # t
  BY <1>2, QueuePlaces DEF IInv
<1> HIDE DEF m
<1>7. ASSUME NEW i \in 1..k - 1 PROVE Promises'[i] = Promises[i]
  <2>1. i \in 1..m + 1 /\ i \in 1..m /\ i < k
    BY <1>1, <1>4
  <2>2. queue'[i] = queue[i] /\ waiter'[queue[i]] = waiter[queue[i]]
    BY <1>2, <1>3, <1>6, <2>1
  <2>3. Promises[i] = Promise(waiter[queue[i]])
    BY <1>4, <2>1
  <2>4. Promises'[i] = Promise(waiter'[queue'[i]])
    BY <1>5, <2>1
  <2> QED BY <2>2, <2>3, <2>4
<1>8. ASSUME NEW i \in k..m PROVE Promises'[i + 1] = Promises[i]
  <2>1. i + 1 \in 1..m + 1 /\ i \in 1..m /\ ~(i + 1 < k) /\ i + 1 # k
        /\ (i + 1) - 1 = i
    BY <1>1, <1>4
  <2>2. queue'[i + 1] = queue[i]
    BY <1>3, <2>1
  <2>3. waiter'[queue[i]] = waiter[queue[i]] /\ Promises[i] = Promise(waiter[queue[i]])
    BY <1>2, <1>4, <1>6, <2>1
  <2>4. Promises'[i + 1] = Promise(waiter'[queue'[i + 1]])
    BY <1>5, <2>1
  <2> QED BY <2>2, <2>3, <2>4
<1>9. Promises'[k] = 0
  <2>1. k \in 1..m + 1 /\ queue'[k] = t
    BY <1>1, <1>3, <1>4
  <2> QED BY <1>2, <1>5, <2>1 DEF Promise
<1>10. Inserted(m, Promises, k, Promises')
  <2>1. Promises' \in [1..m + 1 -> Int]
    BY <1>4, <1>5
  <2> QED BY <1>1, <1>7, <1>8, <2>1 DEF Inserted
<1>11. Total(Promises') = Total(Promises) + Promises'[k]
  BY <1>4, <1>5, <1>10, TotalInsert
<1>12. Total(Promises) \in Int
  BY <1>4, TotalInt
<1> QED BY <1>9, <1>11, <1>12

LEMMA LeaveUnits ==
  ASSUME IInv, IInv', NEW t \in Threads, NEW r, pc[t] = "queued", Leave(t, r)
  PROVE  Total(Promises) = Total(Promises') + Promise(waiter[t])
<1> DEFINE k == CHOOSE k \in 1..Len(queue) : queue[k] = t
           m == Len(queue')
<1>1. k \in 1..Len(queue) /\ queue[k] = t
  BY DEF IInv, QueueOK, Has
<1>2. queue' = RemoveAt(queue, k)
      /\ \A u \in Threads : u # t => waiter'[u] = waiter[u]
  BY DEF Leave, QueueWithout, IInv, TypeOK
<1> HIDE DEF k
<1>3. /\ m \in Nat /\ Len(queue) = m + 1
      /\ \A i \in 1..m : queue'[i] = IF i < k THEN queue[i] ELSE queue[i + 1]
  <2>1. queue \in Seq(Threads) /\ Len(queue) \in Nat
    BY DEF IInv, TypeOK
  <2>2. /\ Len(queue') = Len(queue) - 1
        /\ \A i \in 1..Len(queue) - 1 :
             queue'[i] = IF i < k THEN queue[i] ELSE queue[i + 1]
    BY <1>1, <1>2, <2>1, RemoveAtFacts
  <2> QED BY <1>1, <2>1, <2>2
<1>4. \A i \in 1..m + 1 : queue[i] \in Threads /\ (i # k => queue[i] # t)
  BY <1>1, <1>3, QueuePlaces DEF IInv, QueueOK, Distinct
<1>5. /\ Promises \in Seq(Int) /\ Len(Promises) = m + 1
      /\ \A i \in 1..m + 1 : Promises[i] = Promise(waiter[queue[i]])
  BY <1>3, PromisesNow DEF PromisesOK
<1>6. /\ Promises' \in Seq(Int) /\ Len(Promises') = m
      /\ \A i \in 1..m : Promises'[i] = Promise(waiter'[queue'[i]])
  BY PromisesNext DEF PromisesOK, Promise
<1> HIDE DEF m
<1>7. ASSUME NEW i \in 1..k - 1 PROVE Promises[i] = Promises'[i]
  <2>1. i \in 1..m + 1 /\ i \in 1..m /\ i < k /\ i # k
    BY <1>1, <1>3
  <2>2. queue'[i] = queue[i] /\ waiter'[queue[i]] = waiter[queue[i]]
    BY <1>2, <1>3, <1>4, <2>1
  <2>3. Promises[i] = Promise(waiter[queue[i]])
    BY <1>5, <2>1
  <2>4. Promises'[i] = Promise(waiter'[queue'[i]])
    BY <1>6, <2>1
  <2> QED BY <2>2, <2>3, <2>4
<1>8. ASSUME NEW i \in k..m PROVE Promises[i + 1] = Promises'[i]
  <2>1. i + 1 \in 1..m + 1 /\ i \in 1..m /\ ~(i < k) /\ i + 1 # k
    BY <1>1, <1>3
  <2>2. queue'[i] = queue[i + 1] /\ queue[i + 1] \in Threads /\ queue[i + 1] # t
    BY <1>3, <1>4, <2>1
  <2>3. waiter'[queue'[i]] = waiter[queue[i + 1]]
    BY <1>2, <2>2
  <2>4. Promises[i + 1] = Promise(waiter[queue[i + 1]])
        /\ Promises'[i] = Promise(waiter'[queue'[i]])
    BY <1>5, <1>6, <2>1
  <2> QED BY <2>3, <2>4
<1>9. Inserted(m, Promises', k, Promises)
  <2>1. Promises \in [1..m + 1 -> Int] /\ k \in 1..m + 1
    BY <1>1, <1>3, <1>5
  <2> QED BY <1>7, <1>8, <2>1 DEF Inserted
<1>10. Total(Promises) = Total(Promises') + Promises[k]
  BY <1>5, <1>6, <1>9, TotalInsert
<1>11. Promises[k] = Promise(waiter[t])
  BY <1>1, <1>3, <1>5
<1> QED BY <1>10, <1>11

\* A release with any other result than a grant promises nothing.
LEMMA ReleaseUnits ==
  ASSUME IInv, NEW r \in {"Canceled", "Deleted"},
         waiter' = Mark(Pending, r), queue' = queue
  PROVE  Promises' = Promises
<1>1. \A u \in Threads : IF u \in Pending THEN waiter'[u].result = r
                                           ELSE waiter'[u] = waiter[u]
  BY MarkFacts DEF IInv, Results
<1>2. \A u \in Pending : ~waiter[u].ready
  BY DEF Pending
<1>3. \A u \in Threads : Promise(waiter'[u]) = Promise(waiter[u])
  BY <1>1, <1>2 DEF Promise
<1>4. \A i \in 1..Len(queue) : queue[i] \in Threads
  BY QueuePlaces DEF IInv
<1>5. Promises = [i \in 1..Len(queue) |-> Promise(waiter[queue[i]])]
      /\ Promises' = [i \in 1..Len(queue) |-> Promise(waiter'[queue[i]])]
  BY DEF Promises, Promise
<1> QED BY <1>3, <1>4, <1>5

\* A pass promises what it takes from the count.
LEMMA PassUnits ==
  ASSUME IInv, IInv', NEW c \in Int, NEW left \in [0..Len(queue) -> Int],
         WakePass(left, c), waiter' = Mark(Served(left), "Ok"), queue' = queue
  PROVE  Total(Promises') = Total(Promises) + (c - left[Len(queue)])
<1> DEFINE n == Len(queue)
<1>1. /\ n \in Nat /\ Promises \in Seq(Int) /\ Len(Promises) = n
      /\ \A i \in 1..n : Promises[i] = Promise(waiter[queue[i]])
                         /\ Promises[i] \in Int
  BY PromisesNow DEF PromisesOK
<1>2. /\ Promises' \in Seq(Int) /\ Len(Promises') = n
      /\ \A i \in 1..n : Promises'[i] = Promise(waiter'[queue[i]])
  BY PromisesNext DEF PromisesOK, Promise
<1>3. ASSUME NEW i \in 1..n
      PROVE  Promises'[i] = Promises[i] + (left[i - 1] - left[i])
  <2>1. queue[i] \in Threads /\ waiter[queue[i]].need \in Int
    BY QueuePlaces, WaiterFields DEF IInv
  <2>2. left[i - 1] \in Int /\ left[i] \in Int
    <3>1. i - 1 \in 0..n /\ i \in 0..n
      BY <1>1
    <3> QED BY <3>1
  <2>3. CASE Grants(left, i)
    <3>1. queue[i] \in Served(left) /\ ~waiter[queue[i]].ready
      BY <2>3 DEF Served, Grants, Pending
    <3>2. /\ waiter'[queue[i]].ready /\ waiter'[queue[i]].result = "Ok"
          /\ waiter'[queue[i]].need = waiter[queue[i]].need
      BY <2>1, <3>1, MarkFacts DEF IInv, Results
    <3>3. left[i] = left[i - 1] - waiter[queue[i]].need
      BY <2>3 DEF WakePass
    <3>4. Promises[i] = 0 /\ Promises'[i] = waiter[queue[i]].need
      BY <1>1, <1>2, <3>1, <3>2 DEF Promise
    <3> QED BY <2>1, <2>2, <3>3, <3>4
  <2>4. CASE ~Grants(left, i)
    <3>1. queue[i] \notin Served(left)
      BY <2>4 DEF Served, IInv, QueueOK, Distinct
    <3>2. waiter'[queue[i]] = waiter[queue[i]]
      BY <2>1, <3>1, MarkFacts DEF IInv, Results
    <3>3. left[i] = left[i - 1]
      BY <2>4 DEF WakePass
    <3>4. Promises'[i] = Promises[i]
      BY <1>1, <1>2, <3>2
    <3> QED BY <1>1, <2>2, <3>3, <3>4
  <2> QED BY <2>3, <2>4
<1>4. left[0] = c
  BY DEF WakePass
<1>5. Total(Promises') = Total(Promises) + (left[0] - left[n])
  <2>1. left \in [0..Len(Promises) -> Int] /\ Len(Promises') = Len(Promises)
    BY <1>1, <1>2
  <2>2. \A i \in 1..Len(Promises) :
          Promises'[i] = Promises[i] + (left[i - 1] - left[i])
    BY <1>1, <1>3
  <2>3. Total(Promises') = Total(Promises) + (left[0] - left[Len(Promises)])
    BY <1>1, <1>2, <2>1, <2>2, TotalGains
  <2> QED BY <1>1, <2>3
<1> QED BY <1>4, <1>5

LEMMA UnitsNext == IInv /\ IInv' /\ UnitsConserved /\ [Next]_vars => UnitsConserved'
<1> SUFFICES ASSUME IInv, IInv', UnitsConserved, [Next]_vars, status' # "None"
             PROVE  ledger' = count' + Total(Promises')
  BY DEF UnitsConserved
<1>1. status # "None" => ledger = count + Total(Promises)
  BY DEF UnitsConserved
<1>2. Total(Promises) \in Int /\ count \in Int /\ ledger \in Int
  BY PromisesNow, TotalInt DEF PromisesOK, IInv, TypeOK
<1>3. UNCHANGED <<queue, waiter>> => Promises' = Promises
  BY DEF Promises
<1>4. ASSUME NEW t \in Threads, NEW c \in Counts, NEW first \in BOOLEAN,
             Create(t, c, first)
      PROVE  ledger' = count' + Total(Promises')
  <2>1. /\ UNCHANGED threads /\ status = "None" /\ ledger' = count'
        /\ count' \in Int
    <3>1. status' # status
      BY <1>4 DEF Create
    <3> QED BY <1>4, <3>1 DEF Create, object, IInv, TypeOK
  <2>2. Len(queue) = 0
    <3>1. Len(queue) \in Nat /\ ~(1 \in 1..Len(queue))
      BY <2>1, QueuePlaces DEF IInv, LifeOK, TypeOK
    <3> QED BY <3>1
  <2>3. Total(Promises) = 0
    <3>1. PICK g : RunningSum(Len(Promises), Promises, g)
                   /\ Total(Promises) = g[Len(Promises)]
      BY PromisesNow, TotalInt DEF PromisesOK
    <3>2. Len(Promises) = 0
      BY <2>2, PromisesNow DEF PromisesOK
    <3> QED BY <3>1, <3>2 DEF RunningSum
  <2>4. Promises' = Promises
    BY <1>3, <2>1 DEF threads
  <2>5. Total(Promises') = 0
    BY <2>3, <2>4
  <2>6. \A x \in Int : x + 0 = x
    OBVIOUS
  <2> QED BY <2>1, <2>5, <2>6, Zenon
<1>5. ASSUME NEW t \in Threads, NEW n \in NeedCounts, NEW mode \in Modes,
             Refuse(t, n, mode)
      PROVE  ledger' = count' + Total(Promises')
  BY <1>1, <1>3, <1>5 DEF Refuse, Calling, threads
<1>6. ASSUME NEW t \in Threads, NEW n \in NeedCounts, NEW mode \in Modes,
             Take(t, n, mode)
      PROVE  ledger' = count' + Total(Promises')
  <2>1. /\ status # "None" /\ count' = count - n /\ ledger' = ledger - n
        /\ Promises' = Promises /\ n \in Int
    BY <1>3, <1>6, SemaAssumption DEF Take, Calling, threads
  <2> QED BY <1>1, <1>2, <2>1
<1>7. ASSUME NEW t \in Threads, NEW n \in NeedCounts, NEW p \in Priorities,
             NEW mode \in Modes, Enqueue(t, n, p, mode)
      PROVE  ledger' = count' + Total(Promises')
  BY <1>1, <1>7, EnqueueUnits DEF Enqueue, Calling
<1>8. ASSUME NEW t \in Threads, Resume(t) \/ TimeOut(t)
      PROVE  ledger' = count' + Total(Promises')
  <2>1. PICK r : /\ pc[t] = "queued" /\ Leave(t, r)
                 /\ r = "Ok" <=> waiter[t].ready /\ waiter[t].result = "Ok"
    BY <1>8 DEF Resume, TimeOut
  <2>2. status # "None"
    BY <2>1 DEF IInv, LifeOK
  <2>3. count' = count /\ ledger' = ledger - Promise(waiter[t])
    <3>1. waiter[t].need \in Int
      BY WaiterFields DEF IInv
    <3> QED BY <1>2, <2>1, <3>1 DEF Leave, Promise
  <2>4. Total(Promises) = Total(Promises') + Promise(waiter[t])
    BY <2>1, LeaveUnits
  <2>5. Total(Promises') \in Int /\ Promise(waiter[t]) \in Int
    <3>1. Promises' \in Seq(Int)
      BY PromisesNext DEF PromisesOK
    <3> QED BY <3>1, TotalInt, WaiterFields DEF Promise, IInv
  <2> QED BY <1>1, <1>2, <2>2, <2>3, <2>4, <2>5
<1>9. ASSUME NEW t \in Threads, NEW n \in SignalCounts, Signal(t, n)
      PROVE  ledger' = count' + Total(Promises')
  <2>1. CASE status = "Deleted" \/ count + n > maxCount
    BY <1>1, <1>3, <1>9, <2>1 DEF Signal, Calling, threads
  <2>2. CASE ~(status = "Deleted" \/ count + n > maxCount)
    <3>1. /\ n \in Int /\ queue' = queue /\ ledger' = ledger + n
          /\ status # "None" /\ count + n \in Int
      <4>1. status # "None"
        BY <1>9 DEF Signal, Calling
      <4>2. n \in Int /\ UNCHANGED <<object, queue, pc, owed>> /\ ledger' = ledger + n
        BY <1>9, <2>2, SignalPass
      <4> QED BY <1>2, <4>1, <4>2
    <3>2. PICK left \in [0..Len(queue) -> Int] :
            /\ WakePass(left, count + n)
            /\ count' = left[Len(queue)]
            /\ waiter' = Mark(Served(left), "Ok")
      BY <1>9, <2>2, SignalPass
    <3>3. Total(Promises') = Total(Promises) + ((count + n) - left[Len(queue)])
      BY <3>1, <3>2, PassUnits
    <3>4. left[Len(queue)] \in Int
      BY PromisesNow DEF PromisesOK
    <3> QED BY <1>1, <1>2, <3>1, <3>2, <3>3, <3>4
  <2> QED BY <2>1, <2>2
<1>10. ASSUME NEW t \in Threads, NEW n \in CancelCounts, Cancel(t, n)
       PROVE  ledger' = count' + Total(Promises')
  <2>1. CASE n > maxCount \/ status = "Deleted"
    BY <1>1, <1>3, <1>10, <2>1 DEF Cancel, Calling, threads
  <2>2. CASE ~(n > maxCount \/ status = "Deleted")
    <3>1. /\ waiter' = Mark(Pending, "Canceled") /\ queue' = queue
          /\ ledger' = ledger + (count' - count) /\ status # "None"
      BY <1>10, <2>2 DEF Cancel, Calling
    <3>2. Promises' = Promises
      BY <3>1, ReleaseUnits
    <3>3. count' \in Int
      BY DEF IInv, TypeOK
    <3> QED BY <1>1, <1>2, <3>1, <3>2, <3>3
  <2> QED BY <2>1, <2>2
<1>11. ASSUME NEW t \in Threads, DeleteBegin(t)
       PROVE  ledger' = count' + Total(Promises')
  <2>1. /\ waiter' = Mark(Pending, "Deleted") /\ UNCHANGED <<queue, count, ledger>>
        /\ status # "None"
    BY <1>11 DEF DeleteBegin, Calling
  <2>2. Promises' = Promises
    BY <2>1, ReleaseUnits
  <2> QED BY <1>1, <2>1, <2>2
<1>12. ASSUME NEW t \in Threads, DeleteEnd(t)
       PROVE  ledger' = count' + Total(Promises')
  BY <1>12 DEF DeleteEnd
<1>13. CASE UNCHANGED vars
  BY <1>1, <1>3, <1>13 DEF vars, threads, object
<1> QED BY <1>4, <1>5, <1>6, <1>7, <1>8, <1>9, <1>10, <1>11, <1>12, <1>13 DEF Next

-----------------------------------------------------------------------------
(* Results                                                                 *)

\* The inductive invariant holds of every behaviour of the semaphore.
THEOREM Invariance == Spec => []IInv
<1>1. Init => IInv
  BY InitInv
<1>2. IInv /\ [Next]_vars => IInv'
  BY NextInv
<1> QED BY <1>1, <1>2, PTL DEF Spec

\* Type correctness of the semaphore's state, its queue and its records.
THEOREM TypeCorrect == Spec => []TypeOK
<1>1. IInv => TypeOK
  BY DEF IInv
<1> QED BY <1>1, Invariance, PTL

\* No lost wakeup, for any number of waiters: a sleeping waiter always asks
\* for more than the count, whatever signals, cancels and timeouts happened.
THEOREM NoWakeupIsLost == Spec => []NoLostWakeup
<1>1. IInv => NoLostWakeup
  BY PendingFacts DEF IInv, WakeOK, NoLostWakeup
<1> QED BY <1>1, Invariance, PTL

\* The object is never freed under a thread that still waits on it.
THEOREM DestructorWaits == Spec => []NoWaiterOutlives
<1>1. IInv => NoWaiterOutlives
  BY DEF IInv, LifeOK, NoWaiterOutlives
<1> QED BY <1>1, Invariance, PTL

\* Without first-come first-served, the queue is in order of urgency for good.
THEOREM QueueInOrder == Spec => []Sorted
<1>1. Init => Sorted
  BY DEF Init, Sorted
<1> QED BY <1>1, Invariance, SortedNext, PTL DEF Spec

\* However long the queue, a grant passes over a more urgent waiter only when
\* that one asks for strictly more units.
THEOREM UrgentFirst == Spec => NoPriorityInversion
<1> DEFINE A == \A t, u \in Threads :
                  /\ Granted(t) /\ ~fifo
                  /\ u \in Pending /\ u \in Pending'
                  /\ waiter[u].prio < waiter[t].prio
                  => waiter[u].need > waiter[t].need
<1>1. IInv /\ Sorted /\ [Next]_vars => A
  BY GrantOrder
<1>2. IInv /\ Sorted /\ [Next]_vars => [A]_vars
  BY <1>1
<1> HIDE DEF A
<1>3. Spec => [][A]_vars
  BY <1>2, Invariance, QueueInOrder, PTL DEF Spec
<1> QED BY <1>3 DEF NoPriorityInversion, A

\* The numbers KernelCancelSema reported and the ECANCELED returns match, for
\* any interleaving of cancels, grants, timeouts and returns.
THEOREM CancelsAddUp == Spec => []CancelTally
<1>1. Init => CancelTally
  <2> SUFFICES ASSUME Init PROVE owed = Cardinality(Cancelled)
    BY DEF CancelTally, Cancelled
  <2>1. Cancelled = {} /\ owed = 0
    BY DEF Init, Cancelled
  <2> QED BY <2>1, FS_EmptySet
<1> QED BY <1>1, Invariance, TallyNext, PTL DEF Spec

\* No unit is made or lost by any number of waits, grants, timeouts, cancels
\* and signals: what was put in is in m_count, promised, or reported taken.
THEOREM NoUnitIsLost == Spec => []UnitsConserved
<1>1. Init => UnitsConserved
  BY DEF Init, UnitsConserved
<1> QED BY <1>1, Invariance, UnitsNext, PTL DEF Spec
=============================================================================
