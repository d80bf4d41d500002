----------------------------- MODULE NumberFacts -----------------------------
(***************************************************************************)
(* Facts about numbers the proofs share: the remainder modulo a word w, for *)
(* the counters of the repository that are machine words and wrap around,  *)
(* the least and the greatest of a set of numbers, the form in which       *)
(* proofs about data use induction, and ascending lists.                   *)
(***************************************************************************)
EXTENDS Integers, FiniteSets, FiniteSetTheorems, WellFoundedInduction, TLAPS

\* An integer is its quotient times w and its remainder.
LEMMA DivMod ==
    ASSUME NEW x \in Int, NEW w \in Nat, w > 0
    PROVE  \E q \in Int, r \in 0 .. w - 1 : x = w * q + r /\ x % w = r
<1>1. x % w \in 0 .. w - 1 /\ x \div w \in Int
  OBVIOUS
<1>2. x = w * (x \div w) + (x % w)
  OBVIOUS
<1> QED
  BY <1>1, <1>2

\* The remainder is the only one.
LEMMA ModUnique ==
    ASSUME NEW w \in Nat, w > 0, NEW x \in Int, NEW q \in Int, NEW r \in 0 .. w - 1,
           x = w * q + r
    PROVE  x % w = r
  OBVIOUS

\* A number below the word is its own remainder.
LEMMA ModSmall ==
    ASSUME NEW w \in Nat, w > 0, NEW x \in 0 .. w - 1
    PROVE  x % w = x
<1>1. x = w * 0 + x
  OBVIOUS
<1> QED
  BY <1>1, ModUnique

\* Reducing a summand first makes no difference.
LEMMA ModAbsorb ==
    ASSUME NEW w \in Nat, w > 0, NEW x \in Int, NEW y \in Int
    PROVE  ((x % w) + y) % w = (x + y) % w
<1>1. PICK q \in Int, r \in 0 .. w - 1 : x = w * q + r /\ x % w = r
  BY DivMod
<1>2. r + y \in Int
  OBVIOUS
<1>3. PICK p \in Int, s \in 0 .. w - 1 : r + y = w * p + s /\ (r + y) % w = s
  BY <1>2, DivMod
<1>4. x + y = w * (q + p) + s /\ q + p \in Int /\ x + y \in Int
  BY <1>1, <1>3
<1>5. (x + y) % w = s
  BY <1>4, ModUnique
<1> QED
  BY <1>1, <1>3, <1>5

\* Congruent numbers stay congruent when the same is added to both.
LEMMA ModAdd ==
    ASSUME NEW w \in Nat, w > 0, NEW x \in Int, NEW y \in Int, NEW z \in Int,
           x % w = y % w
    PROVE  (x + z) % w = (y + z) % w
<1>1. ((x % w) + z) % w = (x + z) % w
  BY ModAbsorb
<1>2. ((y % w) + z) % w = (y + z) % w
  BY ModAbsorb
<1> QED
  BY <1>1, <1>2

\* A whole word more is the same remainder.
LEMMA ModShift ==
    ASSUME NEW w \in Nat, w > 0, NEW x \in Int
    PROVE  (x + w) % w = x % w
<1>1. PICK q \in Int, r \in 0 .. w - 1 : x = w * q + r /\ x % w = r
  BY DivMod
<1>2. x + w = w * (q + 1) + r /\ q + 1 \in Int /\ x + w \in Int
  BY <1>1
<1> QED
  BY <1>1, <1>2, ModUnique

-----------------------------------------------------------------------------

\* A set of natural numbers that is not empty has a least one.
LEMMA LeastNat ==
    ASSUME NEW T \in SUBSET Nat, T # {}
    PROVE  \E x \in T : \A y \in T : x <= y
<1> DEFINE R == {ss \in Nat \X Nat : ss[1] < ss[2]}
<1>1. IsWellFoundedOn(R, Nat)
  BY NatLessThanWellFounded DEF OpToRel
<1> HIDE DEF R
<1>2. PICK x \in T : \A y \in T : ~(<<y, x>> \in R)
  BY <1>1, WFMin
<1>3. ASSUME NEW y \in T PROVE x <= y
  <2>1. <<y, x>> \notin R
    BY <1>2
  <2>2. x \in Nat /\ y \in Nat /\ ~(y < x)
    BY <1>2, <2>1 DEF R
  <2> QED
    BY <2>2
<1> QED
  BY <1>2, <1>3

\* A bounded one has a greatest.
LEMMA GreatestNat ==
    ASSUME NEW T \in SUBSET Nat, T # {}, NEW n \in Nat, \A x \in T : x <= n
    PROVE  \E x \in T : \A y \in T : y <= x
<1> DEFINE D == {n - x : x \in T}
<1>1. D \in SUBSET Nat /\ D # {}
  <2>1. ASSUME NEW x \in T PROVE n - x \in Nat
    BY x \in Nat /\ x <= n
  <2>2. PICK x \in T : TRUE
    OBVIOUS
  <2>3. n - x \in D
    BY <2>2
  <2> QED
    BY <2>1, <2>3
<1>2. PICK d \in D : \A e \in D : d <= e
  BY <1>1, LeastNat
<1>3. PICK x \in T : d = n - x
  BY <1>2
<1>4. ASSUME NEW y \in T PROVE y <= x
  <2>1. n - y \in D
    OBVIOUS
  <2>2. d <= n - y
    BY <1>2, <2>1
  <2> QED
    BY <1>3, <2>2
<1> QED
  BY <1>3, <1>4

\* A finite set of natural numbers has an ascending enumeration.
LEMMA AscendingExists ==
    ASSUME NEW ids \in SUBSET Nat, IsFiniteSet(ids)
    PROVE  \E s \in [1..Cardinality(ids) -> ids] : \A j, k \in DOMAIN s : j < k => s[j] < s[k]
<1> DEFINE Enumerated(S) ==
             \E s \in [1..Cardinality(S) -> S] : \A j, k \in DOMAIN s : j < k => s[j] < s[k]
           Bad == {n \in Nat : \E S \in SUBSET Nat :
                     IsFiniteSet(S) /\ Cardinality(S) = n /\ ~Enumerated(S)}
<1> SUFFICES ASSUME Bad # {} PROVE FALSE
  <2>1. Cardinality(ids) \in Nat
    BY FS_CardinalityType
  <2> QED
    BY <2>1
<1>1. PICK n \in Bad : \A m \in Bad : n <= m
  <2>1. Bad \in SUBSET Nat
    OBVIOUS
  <2> HIDE DEF Bad
  <2> QED
    BY <2>1, LeastNat
<1>2. PICK S \in SUBSET Nat : IsFiniteSet(S) /\ Cardinality(S) = n /\ ~Enumerated(S)
  BY <1>1
<1>3. n \in Nat
  BY <1>1
<1> HIDE DEF Enumerated
<1>4. S # {}
  <2> SUFFICES ASSUME S = {} PROVE FALSE
    OBVIOUS
  <2>1. Cardinality(S) = 0
    BY FS_EmptySet
  <2>2. 1..0 = {}
    OBVIOUS
  <2> DEFINE e == [j \in 1..0 |-> 0]
  <2>3. e \in [1..Cardinality(S) -> S] /\ DOMAIN e = {}
    BY <2>1, <2>2
  <2> HIDE DEF e
  <2>4. Enumerated(S)
    BY <2>3 DEF Enumerated
  <2> QED
    BY <1>2, <2>4
<1>5. PICK m \in S : \A j \in S : m <= j
  BY <1>4, LeastNat
<1>6. PICK R : R = S \ {m}
  OBVIOUS
<1>7. R \in SUBSET Nat /\ IsFiniteSet(R) /\ Cardinality(R) = n - 1
  <2>1. IsFiniteSet(S \ {m}) /\ Cardinality(S \ {m}) = Cardinality(S) - 1
    BY <1>2, <1>5, FS_RemoveElement
  <2> QED
    BY <1>2, <1>6, <2>1
<1>8. n - 1 \in Nat /\ n > 0
  BY <1>3, <1>7, FS_CardinalityType
<1>9. Enumerated(R)
  <2>1. n - 1 \notin Bad
    BY <1>1, <1>3, <1>8
  <2> QED
    BY <1>7, <1>8, <2>1
<1>10. PICK s \in [1..(n-1) -> R] : \A j, k \in 1..(n-1) : j < k => s[j] < s[k]
  BY <1>7, <1>9 DEF Enumerated
<1> DEFINE q == [k \in 1..n |-> IF k = 1 THEN m ELSE s[k - 1]]
<1>11. ASSUME NEW k \in 1..n, k # 1 PROVE k - 1 \in 1..(n-1) /\ q[k] = s[k - 1] /\ q[k] \in R
  BY <1>3, <1>10, <1>11
<1>12. q[1] = m
  BY <1>3, <1>8
<1>13. q \in [1..n -> S]
  BY <1>5, <1>6, <1>11
<1>14. ASSUME NEW j \in 1..n, NEW k \in 1..n, j < k PROVE q[j] < q[k]
  <2>1. k # 1 /\ j \in Int /\ k \in Int
    BY <1>3, <1>14
  <2>2. q[k] \in R /\ q[k] = s[k - 1] /\ k - 1 \in 1..(n-1)
    BY <1>11, <2>1
  <2>3. CASE j = 1
    <3>1. q[k] \in S /\ q[k] # m /\ m <= q[k]
      BY <1>5, <1>6, <2>2
    <3>2. q[k] \in Nat /\ m \in Nat
      BY <1>5, <3>1
    <3> HIDE DEF q
    <3> QED
      BY <1>12, <2>3, <3>1, <3>2
  <2>4. CASE j # 1
    <3>1. q[j] = s[j - 1] /\ j - 1 \in 1..(n-1)
      BY <1>11, <2>4
    <3>2. j - 1 < k - 1
      BY <1>14, <2>1
    <3> HIDE DEF q
    <3> QED
      BY <1>10, <2>2, <3>1, <3>2
  <2> QED
    BY <2>3, <2>4
<1>15. DOMAIN q = 1..n
  OBVIOUS
<1> HIDE DEF q
<1>16. Enumerated(S)
  BY <1>2, <1>13, <1>14, <1>15 DEF Enumerated
<1> QED
  BY <1>2, <1>16

\* A finite set can be laid out so that nothing comes before what a strict
\* order R puts before it.
LEMMA SortExists ==
    ASSUME NEW S, IsFiniteSet(S), NEW R \in SUBSET (S \X S),
           \A x \in S : <<x, x>> \notin R,
           \A x, y, z \in S : <<x, y>> \in R /\ <<y, z>> \in R => <<x, z>> \in R
    PROVE  \E q \in [1..Cardinality(S) -> S] :
              /\ \A i, j \in 1..Cardinality(S) : i # j => q[i] # q[j]
              /\ \A i, j \in 1..Cardinality(S) : <<q[i], q[j]>> \in R => i < j
<1> DEFINE Sorts(q, T, n) ==
             /\ q \in [1..n -> T]
             /\ \A i, j \in 1..n : i # j => q[i] # q[j]
             /\ \A i, j \in 1..n : <<q[i], q[j]>> \in R => i < j
           Bad == {n \in Nat : \E T \in SUBSET S : Cardinality(T) = n /\ ~\E q : Sorts(q, T, n)}
<1>0. Cardinality(S) \in Nat
  BY FS_CardinalityType
<1> SUFFICES ASSUME Bad # {} PROVE FALSE
  <2>1. \E q : Sorts(q, S, Cardinality(S))
    BY <1>0
  <2> QED
    BY <2>1
<1>1. PICK n \in Bad : \A m \in Bad : n <= m
  <2>1. Bad \in SUBSET Nat
    OBVIOUS
  <2> HIDE DEF Bad
  <2> QED
    BY <2>1, LeastNat
<1>2. PICK T \in SUBSET S : Cardinality(T) = n /\ ~\E q : Sorts(q, T, n)
  BY <1>1
<1>3. n \in Nat /\ IsFiniteSet(T)
  BY <1>1, FS_Subset
<1> HIDE DEF Sorts
<1>4. T # {}
  <2> SUFFICES ASSUME T = {} PROVE FALSE
    OBVIOUS
  <2>1. n = 0
    BY <1>2, FS_EmptySet
  <2> DEFINE e == [j \in 1..0 |-> 0]
  <2>2. 1..0 = {}
    OBVIOUS
  <2>3. e \in [1..0 -> T]
    BY <2>2
  <2>4. Sorts(e, T, 0)
    BY <2>2, <2>3 DEF Sorts
  <2> QED
    BY <1>2, <2>1, <2>4
\* An element that nothing in T is put before.
<1>5. PICK m \in T : \A x \in T : <<x, m>> \notin R
  <2> DEFINE before(x) == {y \in T : <<y, x>> \in R}
             Sizes == {Cardinality(before(x)) : x \in T}
  <2>1. ASSUME NEW x \in T PROVE IsFiniteSet(before(x)) /\ Cardinality(before(x)) \in Nat
    <3>1. before(x) \in SUBSET T
      OBVIOUS
    <3> HIDE DEF before
    <3> QED
      BY <1>3, <3>1, FS_Subset, FS_CardinalityType
  <2>2. Sizes \in SUBSET Nat /\ Sizes # {}
    <3> HIDE DEF before
    <3> QED
      BY <1>4, <2>1
  <2>3. PICK k \in Sizes : \A l \in Sizes : k <= l
    <3> HIDE DEF Sizes
    <3> QED
      BY <2>2, LeastNat
  <2>4. PICK m \in T : k = Cardinality(before(m))
    BY <2>3
  <2>5. ASSUME NEW x \in T, <<x, m>> \in R PROVE FALSE
    <3>1. before(x) \in SUBSET before(m)
      BY <2>5
    <3>2. x \in before(m) /\ x \notin before(x)
      BY <2>5
    <3>3. Cardinality(before(m)) <= Cardinality(before(x))
      <4> HIDE DEF before
      <4>1. Cardinality(before(x)) \in Sizes
        BY <2>5
      <4> HIDE DEF Sizes
      <4> QED
        BY <2>3, <2>4, <4>1
    <3> HIDE DEF before
    <3>4. Cardinality(before(x)) <= Cardinality(before(m))
          /\ (Cardinality(before(m)) = Cardinality(before(x)) => before(m) = before(x))
      BY <2>1, <3>1, FS_Subset
    <3> QED
      BY <2>1, <3>2, <3>3, <3>4
  <2> QED
    BY <2>5
<1>6. PICK U : U = T \ {m}
  OBVIOUS
<1>7. U \in SUBSET S /\ Cardinality(U) = n - 1 /\ IsFiniteSet(U)
  BY <1>2, <1>3, <1>5, <1>6, FS_RemoveElement
<1>8. n - 1 \in Nat /\ n > 0
  BY <1>3, <1>7, FS_CardinalityType
<1>9. \E q : Sorts(q, U, n - 1)
  <2>1. n - 1 \notin Bad
    BY <1>1, <1>3, <1>8
  <2> QED
    BY <1>7, <1>8, <2>1
<1>10. PICK s : Sorts(s, U, n - 1)
  BY <1>9
<1> DEFINE q == [k \in 1..n |-> IF k = 1 THEN m ELSE s[k - 1]]
<1>11. ASSUME NEW k \in 1..n, k # 1 PROVE k - 1 \in 1..(n - 1) /\ q[k] = s[k - 1] /\ q[k] \in U
  BY <1>3, <1>10, <1>11 DEF Sorts
<1>12. q[1] = m
  BY <1>3, <1>8
<1>13. q \in [1..n -> T]
  BY <1>5, <1>6, <1>11
<1> HIDE DEF q
<1>14. ASSUME NEW i \in 1..n, NEW j \in 1..n, i # j PROVE q[i] # q[j]
  <2>1. CASE i = 1
    BY <1>6, <1>11, <1>12, <1>14, <2>1
  <2>2. CASE j = 1
    BY <1>6, <1>11, <1>12, <1>14, <2>2
  <2>3. CASE i # 1 /\ j # 1
    <3>1. i - 1 # j - 1
      BY <1>3, <1>14
    <3> QED
      BY <1>10, <1>11, <2>3, <3>1 DEF Sorts
  <2> QED
    BY <2>1, <2>2, <2>3
<1>15. ASSUME NEW i \in 1..n, NEW j \in 1..n, <<q[i], q[j]>> \in R PROVE i < j
  <2>1. j # 1
    BY <1>5, <1>12, <1>13, <1>15
  <2>2. CASE i = 1
    BY <1>3, <2>1, <2>2
  <2>3. CASE i # 1
    <3>1. i - 1 < j - 1
      BY <1>10, <1>11, <1>15, <2>1, <2>3 DEF Sorts
    <3> QED
      BY <1>3, <3>1
  <2> QED
    BY <2>2, <2>3
<1> QED
  BY <1>2, <1>13, <1>14, <1>15 DEF Sorts

\* As many different elements as a finite set has are all of them.
LEMMA FillsSet ==
    ASSUME NEW S, IsFiniteSet(S), NEW q \in [1..Cardinality(S) -> S],
           \A i, j \in 1..Cardinality(S) : i # j => q[i] # q[j]
    PROVE  \A x \in S : \E i \in 1..Cardinality(S) : q[i] = x
<1>1. PICK n : n = Cardinality(S)
  OBVIOUS
<1>2. n \in Nat
  BY <1>1, FS_CardinalityType
<1>3. IsFiniteSet(1..n) /\ Cardinality(1..n) = n
  BY <1>2, FS_Interval
<1>4. q \in Injection(1..n, S)
  BY <1>1 DEF Injection, IsInjective
<1>5. q \in Surjection(1..n, S)
  BY <1>1, <1>3, <1>4, FS_Injection
<1> QED
  BY <1>1, <1>5 DEF Surjection

\* The values a loop of N turns takes.
Runs(N, V, first, next, f) ==
    f \in [0..N -> V] /\ f[0] = first /\ \A n \in 1..N : f[n] = next[<<n, f[n - 1]>>]

LEMMA LoopRuns ==
    ASSUME NEW N \in Nat, NEW V, NEW first \in V, NEW next \in [(1..N) \X V -> V]
    PROVE  \E f : Runs(N, V, first, next, f)
<1> DEFINE Turns(k, f) == Runs(k, V, first, next, f)
           Bad == {k \in 0..N : ~\E f : Turns(k, f)}
<1> USE DEF Runs
<1>1. Bad = {}
  <2> SUFFICES ASSUME Bad # {} PROVE FALSE
    OBVIOUS
  <2>1. Bad \in SUBSET Nat
    OBVIOUS
  <2>2. PICK k \in Bad : \A j \in Bad : k <= j
    BY <2>1, LeastNat
  <2>3. k # 0
    <3>1. Turns(0, [n \in 0..0 |-> first])
      OBVIOUS
    <3> QED
      BY <2>2, <3>1
  <2>4. k - 1 \in 0..N /\ k - 1 \notin Bad /\ k \in 1..N
    <3>1. k \in 0..N
      BY <2>2
    <3>2. k - 1 \in 0..N /\ k \in 1..N /\ ~(k <= k - 1)
      BY <2>3, <3>1
    <3> HIDE DEF Bad
    <3> QED
      BY <2>2, <3>2
  <2>5. PICK g : Turns(k - 1, g)
    BY <2>4
  <2> DEFINE h == [n \in 0..k |-> IF n = k THEN next[<<k, g[k - 1]>>] ELSE g[n]]
  <2>6. g[k - 1] \in V /\ next[<<k, g[k - 1]>>] \in V
    <3>1. k - 1 \in 0..(k - 1)
      BY <2>4
    <3>2. g[k - 1] \in V
      BY <2>5, <3>1
    <3> QED
      BY <2>4, <3>2
  <2>7. h \in [0..k -> V]
    <3>1. ASSUME NEW n \in 0..k PROVE h[n] \in V
      <4>1. CASE n = k
        BY <4>1, <2>6
      <4>2. CASE n # k
        <5>1. n \in 0..(k - 1)
          BY <4>2, <2>4
        <5> QED
          BY <4>2, <5>1, <2>5
      <4> QED
        BY <4>1, <4>2
    <3> QED
      BY <3>1
  <2>8. h[0] = first
    BY <2>4, <2>5
  <2>9. ASSUME NEW n \in 1..k PROVE h[n] = next[<<n, h[n - 1]>>]
    <3>1. n - 1 \in 0..k /\ n - 1 # k /\ h[n - 1] = g[n - 1]
      BY <2>4
    <3>2. CASE n = k
      BY <3>1, <3>2, <2>4
    <3>3. CASE n # k
      <4>1. n \in 1..(k - 1)
        BY <3>3, <2>4
      <4> QED
        BY <3>1, <3>3, <4>1, <2>5
    <3> QED
      BY <3>2, <3>3
  <2>10. Turns(k, h)
    <3> HIDE DEF h
    <3> QED
      BY <2>7, <2>8, <2>9
  <2> QED
    BY <2>2, <2>10
<1>2. N \in 0..N
  OBVIOUS
<1>3. \E f : Turns(N, f)
  BY <1>1, <1>2
<1> QED
  BY <1>3

=============================================================================
