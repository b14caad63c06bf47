---------------------------- MODULE BasicLemmas ----------------------------
(***************************************************************************)
(* What the proofs of several modules need: induction stated about sets    *)
(* (the library's induction theorems take an operator as a parameter),     *)
(* quotients and products, and sums over finite sets.                      *)
(***************************************************************************)
EXTENDS Integers, FiniteSets, Functions, FiniteSetTheorems, WellFoundedInduction, TLAPS

-----------------------------------------------------------------------------
(* Induction                                                                   *)

\* A non-empty set of naturals has a least element.
LEMMA LeastNatural ==
  ASSUME NEW S \in SUBSET Nat, S # {}
  PROVE  \E n \in S : \A m \in S : n <= m
<1> DEFINE R == OpToRel(<, Nat)
<1>1. IsWellFoundedOn(R, Nat)
  BY NatLessThanWellFounded, Zenon
<1>2. PICK n \in S : \A m \in S : ~(<<m, n>> \in R)
  <2> HIDE DEF R
  <2> QED BY <1>1, WFMin
<1>3. \A m \in S : <<m, n>> \in R <=> m < n
  BY Zenon DEF OpToRel
<1> HIDE DEF R
<1>4. ASSUME NEW m \in S PROVE n <= m
  <2>1. ~(m < n)
    BY <1>2, <1>3, Zenon
  <2>2. m \in Nat /\ n \in Nat
    OBVIOUS
  <2> QED BY <2>1, <2>2
<1> QED BY <1>4

\* What holds at the start of an interval and is passed on from each integer
\* to the next holds on the whole interval.
LEMMA IntervalInduction ==
  ASSUME NEW a \in Int, NEW b \in Int, NEW good \in SUBSET (a .. b),
         a <= b => a \in good,
         \A i \in a .. b - 1 : i \in good => i + 1 \in good
  PROVE  \A i \in a .. b : i \in good
<1> SUFFICES ASSUME NEW z \in a .. b, z \notin good PROVE FALSE
  OBVIOUS
<1> DEFINE Bad == {k \in Nat : a + k \in a .. b /\ a + k \notin good}
<1>1. z - a \in Bad
  OBVIOUS
<1>2. PICK k \in Bad : \A m \in Bad : k <= m
  BY <1>1, LeastNatural, Bad \in SUBSET Nat, Bad # {}
<1>3. k # 0
  BY <1>1
<1>4. k - 1 \in Nat /\ k - 1 \notin Bad
  BY <1>2, <1>3
<1>5. a + (k - 1) \in good
  BY <1>4
<1> QED BY <1>5, <1>2

-----------------------------------------------------------------------------
(* Quotients and products: the provers need to be told one fact at a time      *)

\* A quotient is bounded by whatever bounds the dividend divisor-fold.
LEMMA DivUpper ==
  ASSUME NEW a \in Int, NEW b \in Nat \ {0}, NEW c \in Int, a <= b * c
  PROVE  a \div b \in Int /\ a \div b <= c
OBVIOUS

\* ... and so from below.
LEMMA DivLower ==
  ASSUME NEW a \in Int, NEW b \in Nat \ {0}, NEW c \in Int, b * c <= a
  PROVE  a \div b \in Int /\ c <= a \div b
OBVIOUS

\* Quotients are rounded down.
LEMMA DivFloor ==
  ASSUME NEW a \in Int, NEW b \in Nat \ {0}
  PROVE  a \div b \in Int /\ b * (a \div b) <= a
OBVIOUS

\* Quotient and remainder.
LEMMA Remainder ==
  ASSUME NEW a \in Int, NEW b \in Int, b > 0
  PROVE  a = b * (a \div b) + (a % b) /\ a % b \in 0 .. b - 1
<1>1. a = b * (a \div b) + (a % b)
  OBVIOUS
<1>2. a % b \in 0 .. b - 1
  OBVIOUS
<1> QED BY <1>1, <1>2

\* Products of naturals are naturals.
LEMMA Product == \A a, b \in Nat : a * b \in Nat
OBVIOUS

\* Products grow with their factors.
LEMMA Monotone ==
  ASSUME NEW a \in Nat, NEW b \in Nat, NEW c \in Nat, a <= b
  PROVE  a * c <= b * c
OBVIOUS

\* A part a / b of n, a <= b, rounded down: no more than n.
LEMMA PartOf ==
  ASSUME NEW a \in Nat, NEW b \in Nat \ {0}, a <= b, NEW n \in Nat
  PROVE  (a * n) \div b \in 0 .. n
<1>1. a * n <= b * n /\ a * n \in Nat
  BY Monotone, Product
<1> QED BY <1>1, DivUpper, DivLower

\* Rounded down: the greatest k with d * k <= n.
LEMMA RoundsDown ==
  ASSUME NEW n \in Int, NEW d \in Nat \ {0}
  PROVE  /\ n \div d \in Int /\ d * (n \div d) <= n
         /\ \A k \in Int : k <= n \div d <=> d * k <= n
<1> DEFINE q == n \div d
           r == n % d
<1>1. n = d * q + r /\ r \in 0 .. d - 1 /\ q \in Int
  BY Remainder, DivFloor
<1> HIDE DEF q, r
<1>2. ASSUME NEW k \in Int, k <= q PROVE d * k <= n
  <2>1. d * k <= d * q
    BY <1>1, <1>2
  <2> QED BY <1>1, <2>1
<1>3. ASSUME NEW k \in Int, d * k <= n PROVE k <= q
  <2>1. d * (k - q) < d
    BY <1>1, <1>3
  <2>2. ~(k - q >= 1)
    BY <1>1, <2>1
  <2> QED BY <1>1, <2>2
<1> QED BY <1>1, <1>2, <1>3 DEF q

\* Rounded up: the least k with n <= d * k.
LEMMA RoundsUp ==
  ASSUME NEW n \in Int, NEW d \in Nat \ {0}
  PROVE  /\ (n + d - 1) \div d \in Int /\ n <= d * ((n + d - 1) \div d)
         /\ \A k \in Int : (n + d - 1) \div d <= k <=> n <= d * k
<1> DEFINE m == n + d - 1
           c == m \div d
<1>1. c \in Int /\ d * c <= m /\ \A k \in Int : k <= c <=> d * k <= m
  BY RoundsDown
<1>2. m = n + d - 1 /\ m \in Int
  OBVIOUS
<1> HIDE DEF c, m
<1>3. d * (c + 1) > m
  <2>1. c + 1 \in Int /\ ~(c + 1 <= c) /\ d * (c + 1) \in Int
    BY <1>1
  <2>2. c + 1 <= c <=> d * (c + 1) <= m
    BY <1>1, <2>1
  <2> QED BY <1>2, <2>1, <2>2
<1>4. d * (c + 1) = d * c + d
  BY <1>1
<1>5. n <= d * c
  BY <1>1, <1>2, <1>3, <1>4
<1>6. ASSUME NEW k \in Int, n <= d * k PROVE c <= k
  <2>1. d * (k + 1) = d * k + d
    OBVIOUS
  <2>2. ~(d * (k + 1) <= m)
    BY <1>2, <1>6, <2>1
  <2>3. k + 1 \in Int
    OBVIOUS
  <2>4. ~(k + 1 <= c)
    BY <1>1, <2>2, <2>3
  <2> QED BY <1>1, <2>4
<1>7. ASSUME NEW k \in Int, c <= k PROVE n <= d * k
  <2>1. d * c <= d * k
    BY <1>1, <1>7
  <2> QED BY <1>1, <1>5, <2>1
<1> QED BY <1>1, <1>2, <1>5, <1>6, <1>7 DEF c, m

\* A positive factor of both sides.
LEMMA CancelFactor ==
  ASSUME NEW p \in Nat \ {0}, NEW x \in Int, NEW y \in Int
  PROVE  /\ p * x <= p * y <=> x <= y
         /\ p * x < p * y <=> x < y
OBVIOUS

-----------------------------------------------------------------------------
(* Sums over finite sets: SumFunctionOnSet of the Functions module takes the   *)
(* elements in an order of its own choice; the sum does not depend on it.      *)

LOCAL Pick(s) == CHOOSE x \in s : TRUE

\* g sums f over the sets in D.
LOCAL Sums(f, g, D) ==
  g = [s \in D |-> IF s = {} THEN 0 ELSE f[Pick(s)] + g[s \ {Pick(s)}]]

LEMMA SumDef ==
  ASSUME NEW f, NEW S
  PROVE  SumFunctionOnSet(f, S) = (CHOOSE g : Sums(f, g, SUBSET S))[S]
BY Zenon DEF SumFunctionOnSet, FoldFunctionOnSet, MapThenFoldSet, Pick, Sums

\* What the first element leaves is a smaller set.
LEMMA Smaller ==
  ASSUME NEW S, IsFiniteSet(S), NEW s \in SUBSET S, s # {}
  PROVE  /\ Pick(s) \in s /\ s \ {Pick(s)} \in SUBSET S
         /\ Cardinality(s) \in Nat \ {0} /\ Cardinality(s \ {Pick(s)}) = Cardinality(s) - 1
<1>1. Pick(s) \in s
  BY DEF Pick
<1>2. IsFiniteSet(s)
  BY FS_Subset
<1>3. Cardinality(s) \in Nat /\ Cardinality(s) # 0
  BY <1>2, FS_CardinalityType, FS_EmptySet
<1>4. Cardinality(s \ {Pick(s)}) = Cardinality(s) - 1
  BY <1>1, <1>2, FS_RemoveElement
<1> HIDE DEF Pick
<1> QED BY <1>1, <1>3, <1>4

\* Some function sums f over all subsets of a finite set.
LEMMA SumsExist ==
  ASSUME NEW S, IsFiniteSet(S), NEW f, \A x \in S : f[x] \in Int
  PROVE  \E g \in [SUBSET S -> Int] : Sums(f, g, SUBSET S)
<1> DEFINE N == Cardinality(S)
           Small(n) == {s \in SUBSET S : Cardinality(s) <= n}
           good == {n \in 0 .. N : \E g \in [Small(n) -> Int] : Sums(f, g, Small(n))}
<1>1. N \in Nat /\ \A s \in SUBSET S : Cardinality(s) \in Nat /\ Cardinality(s) <= N
  BY FS_CardinalityType, FS_Subset
<1>2. 0 \in good
  <2> DEFINE g == [s \in Small(0) |-> 0]
  <2>1. \A s \in Small(0) : s = {}
    <3> SUFFICES ASSUME NEW s \in Small(0), s # {} PROVE FALSE
      OBVIOUS
    <3>1. Cardinality(s) \in Nat \ {0}
      BY Smaller
    <3> QED BY <3>1
  <2>2. g \in [Small(0) -> Int] /\ Sums(f, g, Small(0))
    BY <2>1 DEF Sums
  <2> HIDE DEF g, Small
  <2>3. 0 \in 0 .. N
    BY <1>1
  <2> QED BY <2>2, <2>3
<1>3. ASSUME NEW n \in 0 .. N - 1, n \in good PROVE n + 1 \in good
  <2>1. PICK g \in [Small(n) -> Int] : Sums(f, g, Small(n))
    BY <1>3
  <2> DEFINE h == [s \in Small(n + 1) |-> IF s = {} THEN 0 ELSE f[Pick(s)] + g[s \ {Pick(s)}]]
  <2>2. ASSUME NEW s \in Small(n + 1), s # {}
        PROVE  /\ s \ {Pick(s)} \in Small(n) /\ s \ {Pick(s)} \in Small(n + 1)
               /\ f[Pick(s)] \in Int
    <3>1. /\ Pick(s) \in s /\ s \ {Pick(s)} \in SUBSET S
          /\ Cardinality(s) \in Nat \ {0} /\ Cardinality(s \ {Pick(s)}) = Cardinality(s) - 1
      BY <2>2, Smaller
    <3> QED BY <3>1, <1>1
  <2>3. h \in [Small(n + 1) -> Int]
    <3> HIDE DEF Small
    <3>1. ASSUME NEW s \in Small(n + 1), s # {} PROVE f[Pick(s)] + g[s \ {Pick(s)}] \in Int
      <4>1. g[s \ {Pick(s)}] \in Int /\ f[Pick(s)] \in Int
        BY <2>1, <2>2, <3>1
      <4> QED BY <4>1
    <3> QED BY <3>1
  <2>4. \A s \in Small(n) : s \in Small(n + 1) /\ h[s] = g[s]
    <3>1. ASSUME NEW s \in Small(n) PROVE s \in Small(n + 1)
      BY <1>1
    <3> HIDE DEF Small
    <3> QED BY <2>1, <3>1 DEF Sums
  <2>5. Sums(f, h, Small(n + 1))
    <3>1. ASSUME NEW s \in Small(n + 1), s # {} PROVE h[s \ {Pick(s)}] = g[s \ {Pick(s)}]
      BY <3>1, <2>2, <2>4
    <3> HIDE DEF Small
    <3>2. h = [s \in Small(n + 1) |-> IF s = {} THEN 0 ELSE f[Pick(s)] + h[s \ {Pick(s)}]]
      BY <3>1
    <3> QED BY <3>2 DEF Sums
  <2>6. n + 1 \in 0 .. N
    BY <1>1
  <2> HIDE DEF h, Small
  <2> QED BY <2>3, <2>5, <2>6
<1>4. N \in good
  <2>1. good \in SUBSET (0 .. N)
    OBVIOUS
  <2> HIDE DEF good, N
  <2>2. 0 \in Int /\ N \in Int /\ N \in 0 .. N
    BY <1>1
  <2>3. \A n \in 0 .. N : n \in good
    BY <1>2, <1>3, <2>1, <2>2, IntervalInduction
  <2> QED BY <2>2, <2>3
<1>5. Small(N) = SUBSET S
  BY <1>1
<1> HIDE DEF Small
<1> QED BY <1>4, <1>5

\* Two functions that sum f agree.
LEMMA SumsAgree ==
  ASSUME NEW S, IsFiniteSet(S), NEW f, NEW T \in SUBSET S,
         NEW g, Sums(f, g, SUBSET S), NEW h, Sums(f, h, SUBSET T)
  PROVE  g[T] = h[T]
<1> DEFINE N == Cardinality(T)
           good == {n \in 0 .. N : \A s \in SUBSET T : Cardinality(s) = n => g[s] = h[s]}
<1>1. IsFiniteSet(T) /\ N \in Nat
  BY FS_Subset, FS_CardinalityType
<1>2. ASSUME NEW s \in SUBSET T
      PROVE  /\ g[s] = IF s = {} THEN 0 ELSE f[Pick(s)] + g[s \ {Pick(s)}]
             /\ h[s] = IF s = {} THEN 0 ELSE f[Pick(s)] + h[s \ {Pick(s)}]
  <2>1. s \in SUBSET S
    OBVIOUS
  <2> QED BY <2>1 DEF Sums
<1>3. 0 \in good
  <2>1. ASSUME NEW s \in SUBSET T, Cardinality(s) = 0 PROVE s = {}
    BY <1>1, <2>1, Smaller
  <2>2. {} \in SUBSET T /\ 0 \in 0 .. N
    BY <1>1
  <2> QED BY <1>2, <2>1, <2>2
<1>4. ASSUME NEW n \in 0 .. N - 1, n \in good PROVE n + 1 \in good
  <2>1. ASSUME NEW s \in SUBSET T, Cardinality(s) = n + 1 PROVE g[s] = h[s]
    <3>1. s # {}
      <4>1. Cardinality({}) = 0 /\ n + 1 # 0
        BY FS_EmptySet
      <4> QED BY <2>1, <4>1
    <3>2. s \ {Pick(s)} \in SUBSET T /\ Cardinality(s \ {Pick(s)}) = n
      BY <1>1, <2>1, <3>1, Smaller
    <3>3. g[s \ {Pick(s)}] = h[s \ {Pick(s)}]
      BY <1>4, <3>2
    <3> QED BY <1>2, <3>1, <3>3
  <2> QED BY <1>1, <2>1
<1>5. N \in good
  <2>1. good \in SUBSET (0 .. N)
    OBVIOUS
  <2> HIDE DEF good, N
  <2>2. 0 \in Int /\ N \in Int /\ N \in 0 .. N
    BY <1>1
  <2>3. \A n \in 0 .. N : n \in good
    BY <1>3, <1>4, <2>1, <2>2, IntervalInduction
  <2> QED BY <2>2, <2>3
<1> QED BY <1>5

\* A sum is taken element by element, in some order.
LEMMA SumUnfold ==
  ASSUME NEW S, IsFiniteSet(S), NEW f, \A x \in S : f[x] \in Int
  PROVE  /\ SumFunctionOnSet(f, S) \in Int
         /\ SumFunctionOnSet(f, S) =
              IF S = {} THEN 0 ELSE f[Pick(S)] + SumFunctionOnSet(f, S \ {Pick(S)})
<1> DEFINE G(T) == CHOOSE g : Sums(f, g, SUBSET T)
<1>1. ASSUME NEW T \in SUBSET S
      PROVE  /\ Sums(f, G(T), SUBSET T) /\ SumFunctionOnSet(f, T) = G(T)[T]
             /\ SumFunctionOnSet(f, T) \in Int
  <2>1. IsFiniteSet(T) /\ \A x \in T : f[x] \in Int
    BY FS_Subset
  <2>2. PICK g \in [SUBSET T -> Int] : Sums(f, g, SUBSET T)
    BY <2>1, SumsExist
  <2>3. Sums(f, G(T), SUBSET T)
    BY <2>2, Zenon
  <2>4. G(T)[T] = g[T]
    <3> HIDE DEF G
    <3> QED BY <2>1, <2>2, <2>3, SumsAgree, T \in SUBSET T
  <2>5. SumFunctionOnSet(f, T) = G(T)[T]
    BY SumDef
  <2> HIDE DEF G
  <2> QED BY <2>2, <2>3, <2>4, <2>5
<1>2. S \in SUBSET S
  OBVIOUS
<1> HIDE DEF G
<1>3. CASE S = {}
  BY <1>1, <1>2, <1>3 DEF Sums
<1>4. CASE S # {}
  <2> DEFINE T == S \ {Pick(S)}
  <2>1. T \in SUBSET S
    OBVIOUS
  <2>2. G(S)[S] = f[Pick(S)] + G(S)[T]
    BY <1>1, <1>2, <1>4 DEF Sums
  <2>3. G(S)[T] = G(T)[T]
    <3> HIDE DEF T
    <3>1. Sums(f, G(S), SUBSET S) /\ Sums(f, G(T), SUBSET T)
      BY <1>1, <1>2, <2>1
    <3> QED BY <2>1, <3>1, SumsAgree
  <2> QED BY <1>1, <1>2, <1>4, <2>1, <2>2, <2>3
<1> QED BY <1>3, <1>4

\* ... and the order does not matter.
LEMMA SumRemove ==
  ASSUME NEW S, IsFiniteSet(S), NEW f, \A x \in S : f[x] \in Int, NEW y \in S
  PROVE  SumFunctionOnSet(f, S) = f[y] + SumFunctionOnSet(f, S \ {y})
<1> DEFINE N == Cardinality(S)
           Sum(T) == SumFunctionOnSet(f, T)
           good == {n \in 0 .. N : \A T \in SUBSET S : Cardinality(T) = n =>
                                     \A x \in T : Sum(T) = f[x] + Sum(T \ {x})}
<1>1. N \in Nat
  BY FS_CardinalityType
<1>2. ASSUME NEW T \in SUBSET S
      PROVE  Sum(T) \in Int /\ Sum(T) = IF T = {} THEN 0 ELSE f[Pick(T)] + Sum(T \ {Pick(T)})
  <2>1. IsFiniteSet(T) /\ \A x \in T : f[x] \in Int
    BY FS_Subset
  <2> QED BY <2>1, SumUnfold
<1>3. 0 \in good
  <2>1. ASSUME NEW T \in SUBSET S, Cardinality(T) = 0 PROVE T = {}
    BY <2>1, Smaller
  <2>2. 0 \in 0 .. N
    BY <1>1
  <2> HIDE DEF Sum, N
  <2> QED BY <2>1, <2>2
<1>4. ASSUME NEW n \in 0 .. N - 1, n \in good PROVE n + 1 \in good
  <2>1. ASSUME NEW T \in SUBSET S, Cardinality(T) = n + 1, NEW x \in T
        PROVE  Sum(T) = f[x] + Sum(T \ {x})
    <3> DEFINE c == Pick(T)
               R == T \ {c}
    <3>1. /\ c \in T /\ R \in SUBSET S
          /\ Cardinality(T) \in Nat \ {0} /\ Cardinality(R) = Cardinality(T) - 1
      BY Smaller
    <3>2. Sum(T) = f[c] + Sum(R)
      BY <1>2
    <3>3. CASE x = c
      BY <3>2, <3>3
    <3>4. CASE x # c
      <4>1. x \in R /\ Cardinality(R) = n
        BY <2>1, <3>1, <3>4
      <4>2. Sum(R) = f[x] + Sum(R \ {x})
        BY <1>4, <3>1, <4>1
      <4> DEFINE Q == T \ {x}
      <4>3. c \in Q /\ Q \in SUBSET S /\ Q \ {c} = R \ {x} /\ Cardinality(Q) = n
        <5>1. IsFiniteSet(T)
          BY FS_Subset
        <5>2. Cardinality(Q) = Cardinality(T) - 1
          BY <5>1, FS_RemoveElement
        <5>3. Cardinality(Q) = n
          BY <2>1, <5>2
        <5> HIDE DEF c
        <5> QED BY <3>1, <3>4, <5>3
      <4>4. Sum(Q) = f[c] + Sum(Q \ {c})
        BY <1>4, <4>3
      <4>5. f[c] \in Int /\ f[x] \in Int /\ Sum(Q \ {c}) \in Int
        BY <1>2, <3>1, <4>3
      <4> HIDE DEF c, R, Q, Sum
      <4>6. Sum(T) = f[c] + (f[x] + Sum(Q \ {c})) /\ Sum(Q) = f[c] + Sum(Q \ {c})
        BY <3>2, <4>2, <4>3, <4>4, Zenon
      <4>7. Sum(T) = f[x] + Sum(Q)
        BY <4>5, <4>6
      <4> QED BY <4>7 DEF Q
    <3> QED BY <3>3, <3>4
  <2>2. n + 1 \in 0 .. N
    BY <1>1
  <2> HIDE DEF Sum, N
  <2> QED BY <2>1, <2>2
<1>5. N \in good
  <2>1. good \in SUBSET (0 .. N)
    OBVIOUS
  <2> HIDE DEF good, N
  <2>2. 0 \in Int /\ N \in Int /\ N \in 0 .. N
    BY <1>1
  <2>3. \A n \in 0 .. N : n \in good
    BY <1>3, <1>4, <2>1, <2>2, IntervalInduction
  <2> QED BY <2>2, <2>3
<1> QED BY <1>5

LEMMA SumEmpty ==
  ASSUME NEW f
  PROVE  SumFunctionOnSet(f, {}) = 0
BY FS_EmptySet, SumUnfold

LEMMA SumType ==
  ASSUME NEW S, IsFiniteSet(S), NEW f, \A x \in S : f[x] \in Int
  PROVE  SumFunctionOnSet(f, S) \in Int
BY SumUnfold

LEMMA SumAdd ==
  ASSUME NEW S, IsFiniteSet(S), NEW f, \A x \in S : f[x] \in Int, NEW y, y \notin S, f[y] \in Int
  PROVE  SumFunctionOnSet(f, S \cup {y}) = SumFunctionOnSet(f, S) + f[y]
<1>1. IsFiniteSet(S \cup {y}) /\ (S \cup {y}) \ {y} = S
  BY FS_AddElement
<1>2. SumFunctionOnSet(f, S \cup {y}) = f[y] + SumFunctionOnSet(f, S)
  BY <1>1, SumRemove
<1> QED BY <1>2, SumType

\* Induction over the subsets of a finite set.
LEMMA SetInduction ==
  ASSUME NEW S, IsFiniteSet(S), NEW good \in SUBSET (SUBSET S), {} \in good,
         \A T \in SUBSET S : \A x \in S \ T : T \in good => T \cup {x} \in good
  PROVE  S \in good
<1> DEFINE N == Cardinality(S)
           sizes == {n \in 0 .. N : \A T \in SUBSET S : Cardinality(T) = n => T \in good}
<1>1. N \in Nat
  BY FS_CardinalityType
<1>2. 0 \in sizes
  <2>1. ASSUME NEW T \in SUBSET S, Cardinality(T) = 0 PROVE T = {}
    BY <2>1, Smaller
  <2>2. 0 \in 0 .. N
    BY <1>1
  <2> HIDE DEF N
  <2> QED BY <2>1, <2>2
<1>3. ASSUME NEW n \in 0 .. N - 1, n \in sizes PROVE n + 1 \in sizes
  <2>1. ASSUME NEW T \in SUBSET S, Cardinality(T) = n + 1 PROVE T \in good
    <3>1. T # {}
      <4>1. Cardinality({}) = 0 /\ n + 1 # 0
        BY FS_EmptySet
      <4> QED BY <2>1, <4>1
    <3> DEFINE R == T \ {Pick(T)}
    <3>2. Pick(T) \in T /\ R \in SUBSET S /\ Cardinality(R) = n
      BY <2>1, <3>1, Smaller
    <3> HIDE DEF Pick
    <3>3. R \in good /\ Pick(T) \in S \ R /\ T = R \cup {Pick(T)}
      BY <1>3, <3>2
    <3> QED BY <3>2, <3>3
  <2> QED BY <1>1, <2>1
<1>4. N \in sizes
  <2>1. sizes \in SUBSET (0 .. N)
    OBVIOUS
  <2> HIDE DEF sizes, N
  <2>2. 0 \in Int /\ N \in Int /\ N \in 0 .. N
    BY <1>1
  <2>3. \A n \in 0 .. N : n \in sizes
    BY <1>2, <1>3, <2>1, <2>2, IntervalInduction
  <2> QED BY <2>2, <2>3
<1> QED BY <1>4

\* Sums of the same terms.
LEMMA SumSame ==
  ASSUME NEW S, IsFiniteSet(S), NEW f, NEW g, \A x \in S : f[x] \in Int /\ g[x] = f[x]
  PROVE  SumFunctionOnSet(g, S) = SumFunctionOnSet(f, S)
<1> DEFINE good == {T \in SUBSET S : SumFunctionOnSet(g, T) = SumFunctionOnSet(f, T)}
<1>1. {} \in good
  BY SumEmpty
<1>2. ASSUME NEW T \in SUBSET S, NEW x \in S \ T, T \in good PROVE T \cup {x} \in good
  <2>1. IsFiniteSet(T)
    BY FS_Subset
  <2>2. /\ SumFunctionOnSet(f, T \cup {x}) = SumFunctionOnSet(f, T) + f[x]
        /\ SumFunctionOnSet(g, T \cup {x}) = SumFunctionOnSet(g, T) + g[x]
    BY <2>1, SumAdd
  <2> QED BY <1>2, <2>2
<1>3. good \in SUBSET (SUBSET S)
  OBVIOUS
<1>4. S \in good
  <2> HIDE DEF good
  <2> QED BY <1>1, <1>2, <1>3, SetInduction
<1> QED BY <1>4

\* Only the term of y is changed.
LEMMA SumUpdate ==
  ASSUME NEW S, IsFiniteSet(S), NEW f, NEW g, NEW y \in S, f[y] \in Int, g[y] \in Int,
         \A x \in S \ {y} : f[x] \in Int /\ g[x] = f[x]
  PROVE  SumFunctionOnSet(g, S) = SumFunctionOnSet(f, S) + g[y] - f[y]
<1>1. IsFiniteSet(S \ {y})
  BY FS_RemoveElement
<1>2. /\ SumFunctionOnSet(f, S) = f[y] + SumFunctionOnSet(f, S \ {y})
      /\ SumFunctionOnSet(g, S) = g[y] + SumFunctionOnSet(g, S \ {y})
  BY SumRemove
<1>3. SumFunctionOnSet(g, S \ {y}) = SumFunctionOnSet(f, S \ {y})
  BY <1>1, SumSame
<1>4. SumFunctionOnSet(f, S \ {y}) \in Int
  BY <1>1, SumType
<1> QED BY <1>2, <1>3, <1>4

\* Terms that grow by at most m times a weight.
LEMMA SumGrowth ==
  ASSUME NEW S, IsFiniteSet(S), NEW f, NEW g, NEW w, NEW m \in Int,
         \A x \in S : f[x] \in Int /\ g[x] \in Int /\ w[x] \in Int /\ g[x] <= f[x] + m * w[x]
  PROVE  SumFunctionOnSet(g, S) <= SumFunctionOnSet(f, S) + m * SumFunctionOnSet(w, S)
<1> DEFINE Sum(h, T) == SumFunctionOnSet(h, T)
           good == {T \in SUBSET S : Sum(g, T) <= Sum(f, T) + m * Sum(w, T)}
<1>1. {} \in good
  BY SumEmpty
<1>2. ASSUME NEW T \in SUBSET S, NEW x \in S \ T, T \in good PROVE T \cup {x} \in good
  <2>1. IsFiniteSet(T)
    BY FS_Subset
  <2>2. Sum(f, T) \in Int /\ Sum(g, T) \in Int /\ Sum(w, T) \in Int
    BY <2>1, SumType
  <2>3. /\ Sum(f, T \cup {x}) = Sum(f, T) + f[x]
        /\ Sum(g, T \cup {x}) = Sum(g, T) + g[x]
        /\ Sum(w, T \cup {x}) = Sum(w, T) + w[x]
    BY <2>1, SumAdd
  <2>4. Sum(g, T) <= Sum(f, T) + m * Sum(w, T)
    BY <1>2
  <2>5. f[x] \in Int /\ g[x] \in Int /\ w[x] \in Int /\ g[x] <= f[x] + m * w[x]
    OBVIOUS
  <2> HIDE DEF Sum
  <2>6. ASSUME NEW a \in Int, NEW b \in Int PROVE m * (a + b) = m * a + m * b /\ m * a \in Int
    OBVIOUS
  <2>7. m * (Sum(w, T) + w[x]) = m * Sum(w, T) + m * w[x]
        /\ m * Sum(w, T) \in Int /\ m * w[x] \in Int
    BY <2>2, <2>5, <2>6
  <2>8. Sum(g, T \cup {x}) <= Sum(f, T \cup {x}) + m * Sum(w, T \cup {x})
    BY <2>2, <2>3, <2>4, <2>5, <2>7
  <2> QED BY <2>8
<1>3. good \in SUBSET (SUBSET S)
  OBVIOUS
<1>4. S \in good
  <2> HIDE DEF good
  <2> QED BY <1>1, <1>2, <1>3, SetInduction
<1> QED BY <1>4

\* Terms of one sign.
LEMMA SumNatural ==
  ASSUME NEW S, IsFiniteSet(S), NEW f, \A x \in S : f[x] \in Nat
  PROVE  SumFunctionOnSet(f, S) \in Nat
<1> DEFINE good == {T \in SUBSET S : SumFunctionOnSet(f, T) \in Nat}
<1>1. {} \in good
  BY SumEmpty
<1>2. ASSUME NEW T \in SUBSET S, NEW x \in S \ T, T \in good PROVE T \cup {x} \in good
  <2>1. IsFiniteSet(T)
    BY FS_Subset
  <2>2. SumFunctionOnSet(f, T \cup {x}) = SumFunctionOnSet(f, T) + f[x]
    BY <2>1, SumAdd
  <2> QED BY <1>2, <2>2
<1>3. good \in SUBSET (SUBSET S)
  OBVIOUS
<1>4. S \in good
  <2> HIDE DEF good
  <2> QED BY <1>1, <1>2, <1>3, SetInduction
<1> QED BY <1>4

\* Bounded terms.
LEMMA SumBounded ==
  ASSUME NEW S, IsFiniteSet(S), NEW f, NEW m \in Nat, \A x \in S : f[x] \in Int /\ f[x] <= m
  PROVE  SumFunctionOnSet(f, S) <= m * Cardinality(S)
<1> DEFINE good == {T \in SUBSET S : SumFunctionOnSet(f, T) <= m * Cardinality(T)}
<1>1. {} \in good
  BY SumEmpty, FS_EmptySet
<1>2. ASSUME NEW T \in SUBSET S, NEW x \in S \ T, T \in good PROVE T \cup {x} \in good
  <2>1. IsFiniteSet(T)
    BY FS_Subset
  <2>2. SumFunctionOnSet(f, T \cup {x}) = SumFunctionOnSet(f, T) + f[x]
    BY <2>1, SumAdd
  <2>3. Cardinality(T \cup {x}) = Cardinality(T) + 1 /\ Cardinality(T) \in Nat
    BY <2>1, FS_AddElement, FS_CardinalityType
  <2>4. ASSUME NEW c \in Nat PROVE m * (c + 1) = m * c + m /\ m * c \in Int
    OBVIOUS
  <2>5. SumFunctionOnSet(f, T) \in Int /\ SumFunctionOnSet(f, T) <= m * Cardinality(T)
    BY <1>2, <2>1, SumType
  <2>6. SumFunctionOnSet(f, T) + f[x] <= m * (Cardinality(T) + 1)
    BY <2>3, <2>4, <2>5
  <2> QED BY <2>2, <2>3, <2>6
<1>3. good \in SUBSET (SUBSET S)
  OBVIOUS
<1>4. S \in good
  <2> HIDE DEF good
  <2> QED BY <1>1, <1>2, <1>3, SetInduction
<1> QED BY <1>4

\* ... and bounded from below.
LEMMA SumBoundedBelow ==
  ASSUME NEW S, IsFiniteSet(S), NEW f, NEW m \in Nat, \A x \in S : f[x] \in Int /\ -m <= f[x]
  PROVE  -(m * Cardinality(S)) <= SumFunctionOnSet(f, S)
<1> DEFINE good == {T \in SUBSET S : -(m * Cardinality(T)) <= SumFunctionOnSet(f, T)}
<1>1. {} \in good
  BY SumEmpty, FS_EmptySet
<1>2. ASSUME NEW T \in SUBSET S, NEW x \in S \ T, T \in good PROVE T \cup {x} \in good
  <2>1. IsFiniteSet(T)
    BY FS_Subset
  <2>2. SumFunctionOnSet(f, T \cup {x}) = SumFunctionOnSet(f, T) + f[x]
    BY <2>1, SumAdd
  <2>3. Cardinality(T \cup {x}) = Cardinality(T) + 1 /\ Cardinality(T) \in Nat
    BY <2>1, FS_AddElement, FS_CardinalityType
  <2>4. ASSUME NEW c \in Nat PROVE m * (c + 1) = m * c + m /\ m * c \in Int
    OBVIOUS
  <2>5. SumFunctionOnSet(f, T) \in Int /\ -(m * Cardinality(T)) <= SumFunctionOnSet(f, T)
    BY <1>2, <2>1, SumType
  <2>6. -(m * (Cardinality(T) + 1)) <= SumFunctionOnSet(f, T) + f[x]
    BY <2>3, <2>4, <2>5
  <2> QED BY <2>2, <2>3, <2>6
<1>3. good \in SUBSET (SUBSET S)
  OBVIOUS
<1>4. S \in good
  <2> HIDE DEF good
  <2> QED BY <1>1, <1>2, <1>3, SetInduction
<1> QED BY <1>4

\* A sum over two disjoint sets.
LEMMA SumUnion ==
  ASSUME NEW S, IsFiniteSet(S), NEW R, IsFiniteSet(R), S \cap R = {},
         NEW f, \A x \in S \cup R : f[x] \in Int
  PROVE  SumFunctionOnSet(f, S \cup R) = SumFunctionOnSet(f, S) + SumFunctionOnSet(f, R)
<1> DEFINE Sum(T) == SumFunctionOnSet(f, T)
           good == {T \in SUBSET S : Sum(T \cup R) = Sum(T) + Sum(R)}
<1>1. {} \in good
  <2>1. {} \cup R = R /\ Sum({}) = 0 /\ Sum(R) \in Int
    BY SumEmpty, SumType
  <2> HIDE DEF Sum
  <2> QED BY <2>1
<1>2. ASSUME NEW T \in SUBSET S, NEW x \in S \ T, T \in good PROVE T \cup {x} \in good
  <2>1. IsFiniteSet(T) /\ IsFiniteSet(T \cup R)
    BY FS_Subset, FS_Union
  <2>2. /\ Sum(T \cup {x}) = Sum(T) + f[x]
        /\ Sum((T \cup R) \cup {x}) = Sum(T \cup R) + f[x]
    BY <2>1, SumAdd
  <2>3. (T \cup R) \cup {x} = (T \cup {x}) \cup R
    OBVIOUS
  <2>4. Sum(T) \in Int /\ Sum(R) \in Int /\ f[x] \in Int
    BY <2>1, SumType
  <2> HIDE DEF Sum
  <2>5. Sum(T \cup R) = Sum(T) + Sum(R)
    BY <1>2
  <2>6. Sum((T \cup {x}) \cup R) = (Sum(T) + Sum(R)) + f[x]
    BY <2>2, <2>3, <2>5, Zenon
  <2>7. Sum((T \cup {x}) \cup R) = Sum(T \cup {x}) + Sum(R)
    BY <2>2, <2>4, <2>6
  <2> QED BY <2>7
<1>3. good \in SUBSET (SUBSET S)
  OBVIOUS
<1>4. S \in good
  <2> HIDE DEF good
  <2> QED BY <1>1, <1>2, <1>3, SetInduction
<1> QED BY <1>4

\* Of the entries in K only that of y is added, changed or removed.
LEMMA SumEntry ==
  ASSUME NEW f, IsFiniteSet(DOMAIN f), \A x \in DOMAIN f : f[x] \in Int,
         NEW g, IsFiniteSet(DOMAIN g), \A x \in DOMAIN g : g[x] \in Int,
         NEW y, NEW K, DOMAIN g \ {y} = DOMAIN f \ {y},
         \A x \in DOMAIN f \ {y} : g[x] = f[x]
  PROVE  SumFunctionOnSet(g, DOMAIN g \cap K) =
           SumFunctionOnSet(f, DOMAIN f \cap K)
             + IF y \in K THEN (IF y \in DOMAIN g THEN g[y] ELSE 0)
                                 - (IF y \in DOMAIN f THEN f[y] ELSE 0) ELSE 0
<1> DEFINE R == (DOMAIN f \ {y}) \cap K
<1>1. IsFiniteSet(R) /\ R \subseteq DOMAIN f /\ R \subseteq DOMAIN g /\ y \notin R
  BY FS_Subset
<1>2. SumFunctionOnSet(g, R) = SumFunctionOnSet(f, R) /\ SumFunctionOnSet(f, R) \in Int
  <2>1. \A x \in R : f[x] \in Int /\ g[x] = f[x]
    BY <1>1
  <2> HIDE DEF R
  <2> QED BY <1>1, <2>1, SumSame, SumType
<1>3. /\ DOMAIN f \cap K = IF y \in K /\ y \in DOMAIN f THEN R \cup {y} ELSE R
      /\ DOMAIN g \cap K = IF y \in K /\ y \in DOMAIN g THEN R \cup {y} ELSE R
  OBVIOUS
<1> HIDE DEF R
<1>4. SumFunctionOnSet(f, DOMAIN f \cap K) =
        SumFunctionOnSet(f, R) + IF y \in K /\ y \in DOMAIN f THEN f[y] ELSE 0
  <2>1. CASE y \in K /\ y \in DOMAIN f
    <3>1. SumFunctionOnSet(f, R \cup {y}) = SumFunctionOnSet(f, R) + f[y]
      BY <1>1, <2>1, SumAdd
    <3> QED BY <1>3, <2>1, <3>1
  <2>2. CASE ~(y \in K /\ y \in DOMAIN f)
    <3>1. DOMAIN f \cap K = R
      BY <1>3, <2>2
    <3>2. SumFunctionOnSet(f, DOMAIN f \cap K) = SumFunctionOnSet(f, R)
      BY <3>1
    <3> QED BY <1>2, <2>2, <3>2
  <2> QED BY <2>1, <2>2
<1>5. SumFunctionOnSet(g, DOMAIN g \cap K) =
        SumFunctionOnSet(g, R) + IF y \in K /\ y \in DOMAIN g THEN g[y] ELSE 0
  <2>1. CASE y \in K /\ y \in DOMAIN g
    <3>1. SumFunctionOnSet(g, R \cup {y}) = SumFunctionOnSet(g, R) + g[y]
      BY <1>1, <2>1, SumAdd
    <3> QED BY <1>3, <2>1, <3>1
  <2>2. CASE ~(y \in K /\ y \in DOMAIN g)
    <3>1. DOMAIN g \cap K = R
      BY <1>3, <2>2
    <3>2. SumFunctionOnSet(g, DOMAIN g \cap K) = SumFunctionOnSet(g, R)
      BY <3>1
    <3> QED BY <1>2, <2>2, <3>2
  <2> QED BY <2>1, <2>2
<1>6. (y \in DOMAIN f => f[y] \in Int) /\ (y \in DOMAIN g => g[y] \in Int)
  OBVIOUS
<1> QED BY <1>2, <1>4, <1>5, <1>6

\* Terms that are zero do not count.
LEMMA SumZeros ==
  ASSUME NEW S, IsFiniteSet(S), NEW T \in SUBSET S, NEW f, \A x \in S : f[x] \in Int,
         \A x \in S \ T : f[x] = 0
  PROVE  SumFunctionOnSet(f, S) = SumFunctionOnSet(f, T)
<1> DEFINE R == S \ T
<1>1. IsFiniteSet(T) /\ IsFiniteSet(R) /\ T \cap R = {} /\ T \cup R = S
  BY FS_Subset
<1>2. SumFunctionOnSet(f, R) = 0
  <2>1. \A x \in R : f[x] = 0
    OBVIOUS
  <2> HIDE DEF R
  <2>2. Cardinality(R) \in Nat
    BY <1>1, FS_CardinalityType
  <2>3. SumFunctionOnSet(f, R) \in Nat
    BY <1>1, <2>1, SumNatural
  <2>4. SumFunctionOnSet(f, R) <= 0 * Cardinality(R)
    BY <1>1, <2>1, SumBounded
  <2> QED BY <2>2, <2>3, <2>4
<1>3. SumFunctionOnSet(f, T \cup R) = SumFunctionOnSet(f, T) + SumFunctionOnSet(f, R)
  <2> HIDE DEF R
  <2> QED BY <1>1, SumUnion
<1>4. SumFunctionOnSet(f, T) \in Int
  BY <1>1, SumType
<1>5. SumFunctionOnSet(f, S) = SumFunctionOnSet(f, T \cup R)
  BY <1>1
<1> HIDE DEF R
<1> QED BY <1>2, <1>3, <1>4, <1>5

\* A term of a sum of naturals is at most the sum.
LEMMA SumTerm ==
  ASSUME NEW S, IsFiniteSet(S), NEW f, \A x \in S : f[x] \in Nat, NEW y \in S
  PROVE  f[y] <= SumFunctionOnSet(f, S)
<1>1. IsFiniteSet(S \ {y})
  BY FS_RemoveElement
<1>2. SumFunctionOnSet(f, S) = f[y] + SumFunctionOnSet(f, S \ {y})
  BY SumRemove
<1>3. SumFunctionOnSet(f, S \ {y}) \in Nat
  BY <1>1, SumNatural
<1> QED BY <1>2, <1>3

-----------------------------------------------------------------------------
(* Powers of two.  The provers do not know what an exponent does; the library  *)
(* says how many subsets a finite set has, and the recurrence follows.         *)

LEMMA SubsetCount ==
  ASSUME NEW n \in Nat
  PROVE  IsFiniteSet(SUBSET (1 .. n)) /\ Cardinality(SUBSET (1 .. n)) = 2^n
<1>1. IsFiniteSet(1 .. n) /\ Cardinality(1 .. n) = n
  BY FS_Interval
<1> QED BY <1>1, FS_SUBSET

LEMMA PowType ==
  ASSUME NEW n \in Nat
  PROVE  2^n \in Nat \ {0}
<1> DEFINE P == SUBSET (1 .. n)
<1>1. IsFiniteSet(P) /\ Cardinality(P) = 2^n /\ {} \in P
  BY SubsetCount
<1> HIDE DEF P
<1> QED BY <1>1, FS_CardinalityType, FS_EmptySet

LEMMA PowNext ==
  ASSUME NEW n \in Nat
  PROVE  2^(n + 1) = 2 * 2^n
<1> DEFINE S == 1 .. n
           x == n + 1
           With == {B \cup {x} : B \in SUBSET S}
           f == [B \in SUBSET S |-> B \cup {x}]
<1>1. SUBSET (1 .. n + 1) = (SUBSET S) \cup With
  <2>1. ASSUME NEW T \in SUBSET (1 .. n + 1) PROVE T \in (SUBSET S) \cup With
    <3>1. CASE x \in T
      <4>1. T \ {x} \in SUBSET S /\ T = (T \ {x}) \cup {x}
        BY <3>1
      <4> QED BY <4>1
    <3>2. CASE x \notin T
      BY <3>2
    <3> QED BY <3>1, <3>2
  <2>2. ASSUME NEW T \in (SUBSET S) \cup With PROVE T \in SUBSET (1 .. n + 1)
    <3>1. S \cup {x} \subseteq 1 .. n + 1
      OBVIOUS
    <3> QED BY <3>1, <2>2
  <2> QED BY <2>1, <2>2
<1>2. f \in Bijection(SUBSET S, With)
  <2>1. f \in [SUBSET S -> With]
    OBVIOUS
  <2>2. \A A, B \in SUBSET S : f[A] = f[B] => A = B
    <3> SUFFICES ASSUME NEW A \in SUBSET S, NEW B \in SUBSET S, f[A] = f[B] PROVE A = B
      OBVIOUS
    <3>1. x \notin A /\ x \notin B /\ A \cup {x} = B \cup {x}
      OBVIOUS
    <3> QED BY <3>1
  <2>3. \A T \in With : \E A \in SUBSET S : f[A] = T
    OBVIOUS
  <2> QED BY <2>1, <2>2, <2>3 DEF Bijection, Injection, Surjection, IsInjective
<1>3. IsFiniteSet(SUBSET S) /\ Cardinality(SUBSET S) = 2^n
  BY SubsetCount
<1>4. IsFiniteSet(With) /\ Cardinality(With) = 2^n
  <2>1. ExistsBijection(SUBSET S, With)
    BY <1>2 DEF ExistsBijection
  <2> HIDE DEF With
  <2> QED BY <1>3, <2>1, FS_Bijection
<1>5. (SUBSET S) \cap With = {}
  OBVIOUS
<1>6. Cardinality((SUBSET S) \cup With) = 2^n + 2^n
  <2>1. Cardinality({}) = 0
    BY FS_EmptySet
  <2> DEFINE P == SUBSET S
  <2> HIDE DEF With, P
  <2>2. IsFiniteSet(P) /\ Cardinality(P) = 2^n /\ P \cap With = {}
    BY <1>3, <1>5 DEF P
  <2>3. Cardinality(P) \in Nat
    BY <2>2, FS_CardinalityType
  <2>4. Cardinality(P \cup With) = Cardinality(P) + Cardinality(With) - Cardinality(P \cap With)
    BY <1>4, <2>2, FS_Union
  <2> DEFINE c == 2^n
  <2>5. c \in Nat
    BY PowType
  <2>6. Cardinality(P \cup With) = c + c - 0
    BY <1>4, <2>1, <2>2, <2>4
  <2> HIDE DEF c
  <2>7. Cardinality(P \cup With) = c + c
    BY <2>5, <2>6
  <2> QED BY <2>7 DEF P, c
<1>7. Cardinality(SUBSET (1 .. n + 1)) = 2^(n + 1)
  BY SubsetCount
<1>8. 2^(n + 1) = 2^n + 2^n
  BY <1>1, <1>6, <1>7
<1>9. 2^n \in Nat
  BY PowType
<1> HIDE DEF With
<1> QED BY <1>8, <1>9

LEMMA PowZero == 2^0 = 1
OBVIOUS

LEMMA PowAdd ==
  ASSUME NEW m \in Nat, NEW n \in Nat
  PROVE  2^(m + n) = 2^m * 2^n
<1> DEFINE good == {k \in 0 .. n : 2^(m + k) = 2^m * 2^k}
<1>1. 0 \in good
  BY PowZero, PowType
<1>2. ASSUME NEW k \in 0 .. n - 1, k \in good PROVE k + 1 \in good
  <2>1. 2^(k + 1) = 2 * 2^k /\ 2^((m + k) + 1) = 2 * 2^(m + k)
    BY PowNext
  <2>2. 2^k \in Nat /\ 2^m \in Nat /\ 2^(m + k) = 2^m * 2^k
    BY PowType, <1>2
  <2>3. m + (k + 1) = (m + k) + 1
    OBVIOUS
  <2>4. 2^m * (2 * 2^k) = 2 * (2^m * 2^k)
    BY <2>2
  <2> QED BY <2>1, <2>2, <2>3, <2>4
<1>3. \A k \in 0 .. n : k \in good
  <2>1. good \in SUBSET (0 .. n)
    OBVIOUS
  <2> HIDE DEF good
  <2> QED BY <1>1, <1>2, <2>1, IntervalInduction
<1> QED BY <1>3

\* A larger exponent: a multiple.
LEMMA PowSplit ==
  ASSUME NEW m \in Nat, NEW n \in Nat, m <= n
  PROVE  /\ 2^n = 2^m * 2^(n - m) /\ 2^m <= 2^n
         /\ m < n => 2 * 2^m <= 2^n
<1>1. n - m \in Nat /\ m + (n - m) = n
  OBVIOUS
<1>2. 2^n = 2^m * 2^(n - m)
  BY <1>1, PowAdd
<1>3. 2^m \in Nat \ {0} /\ 2^(n - m) \in Nat \ {0}
  BY <1>1, PowType
<1>4. 2^m <= 2^n
  BY <1>2, <1>3
<1>5. ASSUME m < n PROVE 2 * 2^m <= 2^n
  <2>1. n - m - 1 \in Nat /\ n - m = (n - m - 1) + 1
    BY <1>5
  <2>2. 2^(n - m) = 2 * 2^(n - m - 1) /\ 2^(n - m - 1) \in Nat \ {0}
    BY <2>1, PowNext, PowType
  <2>3. 2^(n - m) >= 2
    BY <2>2
  <2> QED BY <1>2, <1>3, <2>3
<1> QED BY <1>2, <1>4, <1>5

-----------------------------------------------------------------------------
(* Quotients, once more                                                        *)

\* Quotient and remainder are the only pair that fits.
LEMMA QuotientIs ==
  ASSUME NEW n \in Int, NEW d \in Nat \ {0}, NEW q \in Int, NEW r \in 0 .. d - 1, n = d * q + r
  PROVE  n \div d = q /\ n % d = r
<1>1. n \div d \in Int /\ \A k \in Int : k <= n \div d <=> d * k <= n
  BY RoundsDown
<1>2. d * q <= n
  OBVIOUS
<1>3. ~(d * (q + 1) <= n)
  OBVIOUS
<1>4. q <= n \div d
  BY <1>1, <1>2
<1>5. ~(q + 1 <= n \div d)
  <2>1. q + 1 \in Int
    OBVIOUS
  <2> QED BY <1>1, <1>3, <2>1
<1>6. n \div d = q
  BY <1>1, <1>4, <1>5
<1>7. n = d * (n \div d) + (n % d) /\ n % d \in Int
  BY Remainder
<1> QED BY <1>6, <1>7

\* Rounding up adds one unless the quotient is exact.
LEMMA CeilingIs ==
  ASSUME NEW n \in Int, NEW d \in Nat \ {0}
  PROVE  (n + d - 1) \div d = n \div d + (IF n % d # 0 THEN 1 ELSE 0)
<1> DEFINE q == n \div d
           r == n % d
<1>1. n = d * q + r /\ r \in 0 .. d - 1 /\ q \in Int
  BY Remainder, DivFloor
<1> HIDE DEF q, r
<1>2. CASE r = 0
  <2>1. n + d - 1 = d * q + (d - 1) /\ d - 1 \in 0 .. d - 1 /\ n + d - 1 \in Int
    BY <1>1, <1>2
  <2>2. (n + d - 1) \div d = q
    BY <1>1, <2>1, QuotientIs
  <2> QED BY <1>1, <1>2, <2>2 DEF q, r
<1>3. CASE r # 0
  <2>1. n + d - 1 = d * (q + 1) + (r - 1) /\ r - 1 \in 0 .. d - 1 /\ n + d - 1 \in Int
        /\ q + 1 \in Int
    BY <1>1, <1>3
  <2>2. (n + d - 1) \div d = q + 1
    BY <2>1, QuotientIs
  <2> QED BY <1>3, <2>2 DEF q, r
<1> QED BY <1>2, <1>3

\* The remainder modulo m differs from the number by a multiple of m.
LEMMA ModuloMultiple ==
  ASSUME NEW n \in Int, NEW m \in Nat \ {0}
  PROVE  n % m \in Int /\ n % m \in 0 .. m - 1 /\ \E i \in Int : n % m = n + i * m
<1>1. n = m * (n \div m) + (n % m) /\ n % m \in 0 .. m - 1 /\ n \div m \in Int
  BY Remainder, DivFloor
<1>2. -(n \div m) \in Int /\ n % m = n + (-(n \div m)) * m
  BY <1>1
<1> DEFINE r == n % m
<1>3. r \in 0 .. m - 1 /\ \E i \in Int : r = n + i * m
  BY <1>1, <1>2
<1> HIDE DEF r
<1>4. r \in Int
  BY <1>3
<1> QED BY <1>3, <1>4 DEF r

\* ... and tells it from its neighbours.
LEMMA ModuloIs ==
  ASSUME NEW n \in Int, NEW m \in Nat \ {0}, NEW q \in 0 .. m - 1, NEW i \in Int, n = q + i * m
  PROVE  n % m = q
<1>1. n = m * i + q
  OBVIOUS
<1> QED BY <1>1, QuotientIs

-----------------------------------------------------------------------------
(* A function defined by recursion on an interval exists.                      *)

IsIteration(f, N, a, g) == \A k \in 0 .. N : f[k] = IF k = 0 THEN a ELSE g[k][f[k - 1]]

LEMMA Iterates ==
  ASSUME NEW N \in Nat, NEW S, NEW a \in S, NEW g \in [0 .. N -> [S -> S]]
  PROVE  \E f \in [0 .. N -> S] : IsIteration(f, N, a, g)
<1> DEFINE P(n, f) == \A k \in 0 .. n : f[k] = IF k = 0 THEN a ELSE g[k][f[k - 1]]
           good == {n \in 0 .. N : \E f \in [0 .. n -> S] : P(n, f)}
<1>1. 0 \in good
  <2> DEFINE f == [k \in 0 .. 0 |-> a]
  <2>1. f \in [0 .. 0 -> S] /\ P(0, f)
    OBVIOUS
  <2>2. 0 \in 0 .. N
    OBVIOUS
  <2> HIDE DEF f, P
  <2> QED BY <2>1, <2>2
<1>2. ASSUME NEW n \in 0 .. N - 1, n \in good PROVE n + 1 \in good
  <2>1. PICK f \in [0 .. n -> S] : P(n, f)
    BY <1>2
  <2> DEFINE h == [k \in 0 .. n + 1 |-> IF k <= n THEN f[k] ELSE g[k][f[n]]]
  <2>2. n + 1 \in 0 .. N /\ n \in 0 .. n
    OBVIOUS
  <2>3. g[n + 1][f[n]] \in S
    BY <2>2
  <2>4. h \in [0 .. n + 1 -> S]
    BY <2>3
  <2>5. \A k \in 0 .. n : h[k] = f[k]
    OBVIOUS
  <2>6. h[n + 1] = g[n + 1][h[n]]
    BY <2>2
  <2>7. ASSUME NEW k \in 0 .. n + 1 PROVE h[k] = IF k = 0 THEN a ELSE g[k][h[k - 1]]
    <3>1. CASE k = n + 1
      BY <2>6, <3>1
    <3>2. CASE k # n + 1
      <4>1. k \in 0 .. n /\ (k # 0 => k - 1 \in 0 .. n)
        BY <3>2
      <4> HIDE DEF h
      <4> QED BY <2>1, <2>5, <4>1
    <3> QED BY <3>1, <3>2
  <2> HIDE DEF h
  <2> QED BY <2>2, <2>4, <2>7
<1>3. N \in good
  <2>1. good \in SUBSET (0 .. N) /\ N \in 0 .. N
    OBVIOUS
  <2> HIDE DEF good
  <2>2. \A n \in 0 .. N : n \in good
    BY <1>1, <1>2, <2>1, IntervalInduction
  <2> QED BY <2>1, <2>2
<1> QED BY <1>3 DEF IsIteration

=============================================================================
