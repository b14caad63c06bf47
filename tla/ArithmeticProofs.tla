-------------------------- MODULE ArithmeticProofs --------------------------
(***************************************************************************)
(* The pool's arithmetic, for every width, unit and range.  First the      *)
(* swap step and the tokens a range of liquidity holds (RangeSwaps), then  *)
(* what the step is built from: division of double words by a Newton       *)
(* inverse (FullMath), limb by limb (SmallRatio), and the keys of ticks    *)
(* (TickSlabIndexer).                                                      *)
(***************************************************************************)
EXTENDS RangeSwaps, Numerics, TickSlabIndexer, BasicLemmas

-----------------------------------------------------------------------------
(* Amounts between two prices                                                  *)

LEMMA PriceType ==
  ASSUME NEW p \in Prices
  PROVE  p \in Nat \ {0}
BY SqrtPriceAssumption DEF Prices

LEMMA GapType ==
  ASSUME NEW a \in Prices, NEW b \in Prices
  PROVE  Gap(a, b) \in Nat /\ Gap(a, b) = Gap(b, a)
         /\ (a >= b => Gap(a, b) = a - b)
BY PriceType DEF Gap

\* Rounded up: the least amount that is not less than the exact one.
LEMMA Amount0Up ==
  ASSUME NEW a \in Prices, NEW b \in Prices, NEW l \in Nat
  PROVE  /\ Amount0(a, b, l, TRUE) \in Nat
         /\ \A k \in Int : Amount0(a, b, l, TRUE) <= k <=> l * Gap(a, b) * Q96 <= (a * b) * k
<1> DEFINE n == l * Gap(a, b) * Q96
           d == a * b
           c == (n + d - 1) \div d
<1>1. n \in Nat /\ d \in Nat \ {0}
  <2>1. a \in Nat \ {0} /\ b \in Nat \ {0} /\ Gap(a, b) \in Nat /\ Q96 \in Nat
    BY PriceType, GapType, SqrtPriceAssumption
  <2>2. d \in Nat \ {0}
    BY <2>1
  <2>3. l * Gap(a, b) \in Nat
    BY <2>1, Product
  <2> QED BY <2>1, <2>2, <2>3, Product
<1>2. Amount0(a, b, l, TRUE) = c
  BY DEF Amount0, Divide
<1> HIDE DEF n, d
<1>3. c \in Int /\ \A k \in Int : c <= k <=> n <= d * k
  BY <1>1, RoundsUp
<1>4. ~(c <= -1)
  <2>1. -1 \in Int /\ ~(n <= d * (-1))
    BY <1>1
  <2> QED BY <1>3, <2>1
<1> HIDE DEF c
<1>5. c \in Nat
  BY <1>3, <1>4
<1> QED BY <1>2, <1>3, <1>5 DEF n, d

\* Rounded down: the greatest amount that is not more than the exact one.
LEMMA Amount0Down ==
  ASSUME NEW a \in Prices, NEW b \in Prices, NEW l \in Nat
  PROVE  /\ Amount0(a, b, l, FALSE) \in Nat
         /\ \A k \in Int : k <= Amount0(a, b, l, FALSE) <=> (a * b) * k <= l * Gap(a, b) * Q96
<1> DEFINE n == l * Gap(a, b) * Q96
           d == a * b
           c == n \div d
<1>1. n \in Nat /\ d \in Nat \ {0}
  <2>1. a \in Nat \ {0} /\ b \in Nat \ {0} /\ Gap(a, b) \in Nat /\ Q96 \in Nat
    BY PriceType, GapType, SqrtPriceAssumption
  <2>2. d \in Nat \ {0}
    BY <2>1
  <2>3. l * Gap(a, b) \in Nat
    BY <2>1, Product
  <2> QED BY <2>1, <2>2, <2>3, Product
<1>2. Amount0(a, b, l, FALSE) = c
  BY DEF Amount0, Divide
<1> HIDE DEF n, d
<1>3. c \in Int /\ \A k \in Int : k <= c <=> d * k <= n
  BY <1>1, RoundsDown
<1>4. 0 <= c
  <2>1. 0 \in Int /\ d * 0 <= n
    BY <1>1
  <2> QED BY <1>3, <2>1
<1> HIDE DEF c
<1>5. c \in Nat
  BY <1>3, <1>4
<1> QED BY <1>2, <1>3, <1>5 DEF n, d

LEMMA Amount1Up ==
  ASSUME NEW a \in Prices, NEW b \in Prices, NEW l \in Nat
  PROVE  /\ Amount1(a, b, l, TRUE) \in Nat
         /\ \A k \in Int : Amount1(a, b, l, TRUE) <= k <=> l * Gap(a, b) <= Q96 * k
<1> DEFINE n == l * Gap(a, b)
           c == (n + Q96 - 1) \div Q96
<1>1. n \in Nat /\ Q96 \in Nat \ {0}
  BY GapType, SqrtPriceAssumption, Product
<1>2. Amount1(a, b, l, TRUE) = c
  BY DEF Amount1, Divide
<1> HIDE DEF n
<1>3. c \in Int /\ \A k \in Int : c <= k <=> n <= Q96 * k
  BY <1>1, RoundsUp
<1>4. ~(c <= -1)
  <2>1. -1 \in Int /\ ~(n <= Q96 * (-1))
    BY <1>1
  <2> QED BY <1>3, <2>1
<1> HIDE DEF c
<1>5. c \in Nat
  BY <1>3, <1>4
<1> QED BY <1>2, <1>3, <1>5 DEF n

LEMMA Amount1Down ==
  ASSUME NEW a \in Prices, NEW b \in Prices, NEW l \in Nat
  PROVE  /\ Amount1(a, b, l, FALSE) \in Nat
         /\ \A k \in Int : k <= Amount1(a, b, l, FALSE) <=> Q96 * k <= l * Gap(a, b)
<1> DEFINE n == l * Gap(a, b)
           c == n \div Q96
<1>1. n \in Nat /\ Q96 \in Nat \ {0}
  BY GapType, SqrtPriceAssumption, Product
<1>2. Amount1(a, b, l, FALSE) = c
  BY DEF Amount1, Divide
<1> HIDE DEF n
<1>3. c \in Int /\ \A k \in Int : k <= c <=> Q96 * k <= n
  BY <1>1, RoundsDown
<1>4. 0 <= c
  <2>1. 0 \in Int /\ Q96 * 0 <= n
    BY <1>1
  <2> QED BY <1>3, <2>1
<1> HIDE DEF c
<1>5. c \in Nat
  BY <1>3, <1>4
<1> QED BY <1>2, <1>3, <1>5 DEF n

\* Amount k is at least what the price moves between a and b take, or at most.
Covers0(a, b, l, k) == l * Gap(a, b) * Q96 <= (a * b) * k
Within0(a, b, l, k) == (a * b) * k <= l * Gap(a, b) * Q96
Covers1(a, b, l, k) == l * Gap(a, b) <= Q96 * k
Within1(a, b, l, k) == Q96 * k <= l * Gap(a, b)

-----------------------------------------------------------------------------
(* The next price                                                              *)

LEMMA Exact0 ==
  ASSUME NEW a \in Prices, NEW b \in Prices, a >= b, NEW l \in Nat, NEW n \in Nat, n = l * Q96
  PROVE  l * Gap(a, b) * Q96 = n * a - n * b /\ l * Gap(b, a) * Q96 = n * a - n * b
<1>1. Gap(a, b) = a - b /\ Gap(b, a) = a - b
  BY GapType
<1>2. a \in Int /\ b \in Int /\ Q96 \in Int
  BY PriceType, SqrtPriceAssumption
<1> QED BY <1>1, <1>2

\* Token0 in, by either formula: the price stays above the target, and the
\* amount pays for its fall.
LEMMA AddAmount0 ==
  ASSUME NEW p \in Prices, NEW t \in Prices, t <= p, NEW l \in Nat \ {0}, NEW x \in Nat \ {0},
         ~Covers0(p, t, l, x)
  PROVE  \E q \in Prices : /\ t <= q /\ q <= p
                           /\ NextFromAmount0Add(p, l, x) = {q} /\ Covers0(p, q, l, x)
<1> DEFINE n == l * Q96
<1>1. n \in Nat \ {0} /\ p \in Nat \ {0} /\ t \in Nat \ {0}
  BY SqrtPriceAssumption, PriceType
<1>2. l * Q96 * p = n * p
  OBVIOUS
<1>3. (p * t) * x < n * p - n * t
  <2>1. l * Gap(p, t) * Q96 = n * p - n * t
    BY <1>1, Exact0
  <2>2. n * p - n * t \in Int /\ (p * t) * x \in Int
    BY <1>1
  <2> QED BY <2>1, <2>2 DEF Covers0
<1>4. ASSUME NEW q \in Int, t <= q, q <= p, n * p <= n * q + (p * q) * x
      PROVE  q \in Prices /\ Covers0(p, q, l, x)
  <2>1. q \in Prices
    BY <1>4, SqrtPriceAssumption DEF Prices
  <2>2. l * Gap(p, q) * Q96 = n * p - n * q
    BY <1>1, <1>4, <2>1, Exact0
  <2>3. n * p - n * q <= (p * q) * x
    BY <1>1, <1>4
  <2> QED BY <2>1, <2>2, <2>3 DEF Covers0
<1>5. CASE x * p + n <= U256Max
  <2> DEFINE d == n + x * p
             m == n * p
             q == (m + d - 1) \div d
  <2>1. NextFromAmount0Add(p, l, x) = {q} \cap Prices
    BY <1>2, <1>5 DEF NextFromAmount0Add, LiquidityPriceRatio, Divide, InPriceRange
  <2>2. d \in Nat \ {0} /\ m \in Int
    BY <1>1
  <2>3. d * p = n * p + (p * p) * x /\ d * t = n * t + (p * t) * x /\ d * (t - 1) = d * t - d
    BY <1>1
  <2>4. d * p >= m /\ d * (t - 1) < m
    BY <1>1, <1>3, <2>2, <2>3
  <2>5. ASSUME NEW k \in Int PROVE d * k = n * k + (p * k) * x
    BY <1>1
  <2> HIDE DEF d, m
  <2>6. q \in Int /\ m <= d * q /\ \A k \in Int : q <= k <=> m <= d * k
    BY <2>2, RoundsUp
  <2> HIDE DEF q
  <2>7. q <= p
    BY <1>1, <2>4, <2>6
  <2>8. ~(q <= t - 1)
    <3>1. t - 1 \in Int /\ d * (t - 1) \in Int
      BY <1>1, <2>2
    <3> QED BY <2>2, <2>4, <2>6, <3>1
  <2>9. n * p <= n * q + (p * q) * x
    <3>1. d * q = n * q + (p * q) * x
      BY <2>5, <2>6
    <3> QED BY <2>6, <3>1 DEF m
  <2>10. t <= q
    BY <1>1, <2>6, <2>8
  <2> QED BY <1>4, <2>1, <2>6, <2>7, <2>9, <2>10
<1>6. CASE ~(x * p + n <= U256Max)
  <2> DEFINE w == n \div p
             d == w + x
             q == (n + d - 1) \div d
  <2>1. NextFromAmount0Add(p, l, x) = {q} \cap Prices
    BY <1>6 DEF NextFromAmount0Add, Divide, InPriceRange
  <2>2. w \in Int /\ p * w <= n /\ n < p * w + p
    <3>1. w \in Int /\ p * w <= n /\ \A k \in Int : k <= w <=> p * k <= n
      BY <1>1, RoundsDown
    <3> HIDE DEF w
    <3>2. w + 1 \in Int /\ p * (w + 1) = p * w + p /\ ~(w + 1 <= w)
      BY <1>1, <3>1
    <3>3. ~(p * (w + 1) <= n)
      BY <3>1, <3>2
    <3> QED BY <1>1, <3>1, <3>2, <3>3
  <2>3. w \in Nat
    <3> HIDE DEF w, n
    <3>1. ~(w <= -1)
      <4>1. SUFFICES ASSUME w <= -1 PROVE FALSE
        OBVIOUS
      <4>2. p * w <= p * (-1)
        BY <1>1, <2>2, <4>1
      <4> QED BY <1>1, <2>2, <4>2
    <3> QED BY <2>2, <3>1
  <2>4. d \in Nat \ {0} /\ n \in Int
    BY <1>1, <2>3
  <2>5. n <= d * p
    <3> HIDE DEF w, n
    <3>1. d * p = p * w + x * p
      BY <1>1, <2>3
    <3>2. x * p >= p
      BY <1>1
    <3> QED BY <1>1, <2>2, <2>3, <3>1, <3>2
  <2>6. d * t < n
    <3> HIDE DEF w, n
    <3>1. p * (d * t) = (p * w) * t + (p * t) * x
      BY <1>1, <2>3
    <3>2. (p * w) * t <= n * t
      BY <1>1, <2>2, <2>3, Product, Monotone
    <3>3. p * (d * t) < p * n
      <4>1. p * n = n * p
        BY <1>1
      <4> QED BY <1>1, <1>3, <2>3, <2>4, <3>1, <3>2, <4>1
    <3> HIDE DEF d
    <3>4. d * t \in Int
      BY <1>1, <2>4
    <3> QED BY <1>1, <3>3, <3>4, CancelFactor
  <2>7. ASSUME NEW k \in Nat, n <= d * k PROVE n * p <= n * k + (p * k) * x
    <3> HIDE DEF w, n
    <3>1. p * (d * k) = (p * w) * k + (p * k) * x
      BY <1>1, <2>3
    <3>2. (p * w) * k <= n * k
      BY <1>1, <2>2, <2>3, Product, Monotone
    <3>3. p * n <= p * (d * k)
      <4> HIDE DEF d
      <4>1. d * k \in Int
        BY <2>4
      <4> QED BY <1>1, <2>7, <4>1, CancelFactor
    <3>4. p * n = n * p
      BY <1>1
    <3> QED BY <1>1, <2>3, <2>4, <3>1, <3>2, <3>3, <3>4
  <2> HIDE DEF d, n
  <2>8. q \in Int /\ n <= d * q /\ \A k \in Int : q <= k <=> n <= d * k
    BY <2>4, RoundsUp
  <2> HIDE DEF q
  <2>9. q <= p
    BY <1>1, <2>5, <2>8
  <2>10. ~(q <= t - 1)
    <3>1. t - 1 \in Int /\ d * (t - 1) \in Int /\ d * (t - 1) = d * t - d
      BY <1>1, <2>4
    <3>2. d * t \in Int
      BY <1>1, <2>4
    <3>3. ~(n <= d * (t - 1))
      BY <2>4, <2>6, <3>1, <3>2
    <3> QED BY <2>8, <3>1, <3>3
  <2>11. t <= q
    BY <1>1, <2>8, <2>10
  <2>12. q \in Nat
    BY <1>1, <2>8, <2>11
  <2>13. n * p <= n * q + (p * q) * x
    BY <2>7, <2>8, <2>12
  <2> QED BY <1>4, <2>1, <2>8, <2>9, <2>11, <2>13
<1> QED BY <1>5, <1>6

\* Token0 out: the price stays below the target, and its rise is paid for in
\* full; the reserve is never asked for more than it has.
LEMMA SubAmount0 ==
  ASSUME NEW p \in Prices, NEW t \in Prices, p <= t, NEW l \in Nat \ {0}, NEW x \in Nat \ {0},
         l * Q96 <= U256Max, Within0(p, t, l, x)
  PROVE  \E q \in Prices : /\ p <= q /\ q <= t
                           /\ NextFromAmount0Sub(p, l, x) = {q} /\ Within0(p, q, l, x)
<1> DEFINE n == l * Q96
           d == n - x * p
           m == n * p
           q == (m + d - 1) \div d
<1>1. n \in Nat \ {0} /\ p \in Nat \ {0} /\ t \in Nat \ {0} /\ n <= U256Max
  BY SqrtPriceAssumption, PriceType
<1>2. l * Q96 * p = n * p /\ U256Max \in Nat
  BY SqrtPriceAssumption
<1>3. (p * t) * x <= n * t - n * p
  BY <1>1, Exact0 DEF Within0
<1>4. x * p < n
  <2> HIDE DEF n
  <2>1. t * (x * p) = (p * t) * x /\ t * n = n * t /\ n * p > 0
    BY <1>1
  <2>2. t * (x * p) < t * n
    BY <1>1, <1>3, <2>1
  <2> QED BY <1>1, <2>2, CancelFactor
<1>5. NextFromAmount0Sub(p, l, x) = {q} \cap Prices
  <2>1. ~(x * p > U256Max) /\ ~(n <= x * p)
    BY <1>1, <1>2, <1>4
  <2> QED BY <1>2, <2>1 DEF NextFromAmount0Sub, LiquidityPriceRatio, Divide, InPriceRange
<1> HIDE DEF n
<1>6. d \in Nat \ {0} /\ m \in Int
  BY <1>1, <1>4
<1>7. ASSUME NEW k \in Int PROVE d * k = n * k - (p * k) * x
  BY <1>1
<1>8. m <= d * t
  <2>1. d * t = n * t - (p * t) * x
    BY <1>1, <1>7
  <2> QED BY <1>1, <1>3, <2>1
<1>9. ~(m <= d * (p - 1))
  <2>1. d * p = n * p - (p * p) * x /\ d * (p - 1) = d * p - d /\ (p * p) * x \in Nat
    BY <1>1
  <2> QED BY <1>1, <1>6, <2>1
<1> HIDE DEF d
<1>10. q \in Int /\ m <= d * q /\ \A k \in Int : q <= k <=> m <= d * k
  BY <1>6, RoundsUp
<1> HIDE DEF q
<1>11. p <= q /\ q <= t
  <2>1. p - 1 \in Int /\ t \in Int
    BY <1>1
  <2>2. ~(q <= p - 1)
    BY <1>9, <1>10, <2>1
  <2>3. q <= t
    BY <1>8, <1>10, <2>1
  <2> QED BY <1>1, <1>10, <2>2, <2>3
<1>12. q \in Prices
  BY <1>10, <1>11, SqrtPriceAssumption DEF Prices
<1>13. Within0(p, q, l, x)
  <2>1. l * Gap(p, q) * Q96 = n * q - n * p
    BY <1>1, <1>11, <1>12, Exact0 DEF n
  <2>2. n * p <= n * q - (p * q) * x
    BY <1>7, <1>10 DEF m
  <2>3. (p * q) * x \in Int /\ n * q \in Int /\ n * p \in Int
    BY <1>1, <1>10
  <2>4. (p * q) * x <= n * q - n * p
    BY <2>2, <2>3
  <2> QED BY <2>1, <2>4 DEF Within0
<1> QED BY <1>5, <1>11, <1>12, <1>13

\* Token1 in: the price stays below the target.
LEMMA AddAmount1 ==
  ASSUME NEW p \in Prices, NEW t \in Prices, p <= t, NEW l \in Nat \ {0}, NEW x \in Nat \ {0},
         ~Covers1(p, t, l, x)
  PROVE  \E q \in Prices : /\ p <= q /\ q <= t
                           /\ NextFromAmount1Add(p, l, x) = {q} /\ Covers1(p, q, l, x)
<1> DEFINE m == x * Q96
           w == m \div l
           q == p + w
<1>1. m \in Nat /\ p \in Nat \ {0} /\ t \in Nat \ {0} /\ Q96 \in Nat /\ m = Q96 * x
  BY SqrtPriceAssumption, PriceType, Product
<1>2. NextFromAmount1Add(p, l, x) = {q} \cap Prices
  BY DEF NextFromAmount1Add, Divide, InPriceRange
<1>3. m < l * (t - p)
  <2>1. Gap(p, t) = t - p
    BY GapType
  <2>2. l * (t - p) \in Int
    BY <1>1
  <2> HIDE DEF m
  <2> QED BY <1>1, <2>1, <2>2 DEF Covers1
<1> HIDE DEF m
<1>4. w \in Int /\ l * w <= m /\ \A k \in Int : k <= w <=> l * k <= m
  <2>1. m \in Int
    BY <1>1
  <2> QED BY <2>1, RoundsDown
<1> HIDE DEF w
<1>5. 0 <= w
  <2>1. 0 \in Int /\ l * 0 <= m
    BY <1>1
  <2> QED BY <1>4, <2>1
<1>6. w < t - p
  <2>1. t - p \in Int /\ l * (t - p) \in Int
    BY <1>1
  <2>2. ~(t - p <= w)
    BY <1>1, <1>3, <1>4, <2>1
  <2> QED BY <1>4, <2>1, <2>2
<1>7. q \in Int /\ p <= q /\ q <= t /\ q - p = w
  BY <1>1, <1>4, <1>5, <1>6
<1> HIDE DEF q
<1>8. q \in Prices
  BY <1>7, SqrtPriceAssumption DEF Prices
<1>9. Gap(p, q) = w
  BY <1>7, <1>8, GapType
<1> QED BY <1>1, <1>2, <1>4, <1>7, <1>8, <1>9 DEF Covers1

\* Token1 out: the price stays above the target.
LEMMA SubAmount1 ==
  ASSUME NEW p \in Prices, NEW t \in Prices, t <= p, NEW l \in Nat \ {0}, NEW x \in Nat \ {0},
         Within1(p, t, l, x)
  PROVE  \E q \in Prices : /\ t <= q /\ q <= p
                           /\ NextFromAmount1Sub(p, l, x) = {q} /\ Within1(p, q, l, x)
<1> DEFINE m == x * Q96
           w == (m + l - 1) \div l
           q == p - w
<1>1. m \in Nat /\ p \in Nat \ {0} /\ t \in Nat \ {0} /\ Q96 \in Nat /\ m = Q96 * x
  BY SqrtPriceAssumption, PriceType, Product
<1>2. NextFromAmount1Sub(p, l, x) = IF p <= w THEN {} ELSE {q} \cap Prices
  BY DEF NextFromAmount1Sub, Divide, InPriceRange
<1>3. m <= l * (p - t)
  <2>1. Gap(p, t) = p - t
    BY GapType
  <2> HIDE DEF m
  <2> QED BY <1>1, <2>1 DEF Within1
<1> HIDE DEF m
<1>4. w \in Int /\ m <= l * w /\ \A k \in Int : w <= k <=> m <= l * k
  <2>1. m \in Int /\ l \in Nat \ {0}
    BY <1>1
  <2> QED BY <2>1, RoundsUp
<1> HIDE DEF w
<1>5. 0 <= w
  <2>1. SUFFICES ASSUME ~(0 <= w) PROVE FALSE
    OBVIOUS
  <2>2. w <= 0 /\ w <= -1
    BY <1>4, <2>1
  <2>3. m <= l * (-1)
    BY <1>4, <2>2
  <2> QED BY <1>1, <2>3
<1>6. w <= p - t
  <2>1. p - t \in Int
    BY <1>1
  <2> QED BY <1>3, <1>4, <2>1
<1>7. q \in Int /\ t <= q /\ q <= p /\ p - q = w /\ ~(p <= w)
  BY <1>1, <1>4, <1>5, <1>6
<1> HIDE DEF q
<1>8. q \in Prices
  BY <1>7, SqrtPriceAssumption DEF Prices
<1>9. Gap(p, q) = w
  BY <1>7, <1>8, GapType
<1> QED BY <1>1, <1>2, <1>4, <1>7, <1>8, <1>9 DEF Within1

-----------------------------------------------------------------------------
(* Fees                                                                        *)

LEMMA CeilIs ==
  ASSUME NEW n \in Int, NEW d \in Nat \ {0}, NEW c \in Int, n <= d * c, d * c - d < n
  PROVE  CeilDiv(n, d) = c
<1> DEFINE x == (n + d - 1) \div d
<1>1. x \in Int /\ \A k \in Int : x <= k <=> n <= d * k
  BY RoundsUp
<1>2. CeilDiv(n, d) = x
  BY DEF CeilDiv
<1> HIDE DEF x
<1>3. x <= c
  BY <1>1
<1>4. ~(x <= c - 1)
  <2>1. c - 1 \in Int /\ d * (c - 1) = d * c - d /\ d * (c - 1) \in Int
    OBVIOUS
  <2>2. ~(n <= d * (c - 1))
    BY <2>1
  <2> QED BY <1>1, <2>1, <2>2
<1> QED BY <1>1, <1>2, <1>3, <1>4

\* What a partial fill leaves over: the rate of all that was paid.
LEMMA FeeLeftOver ==
  ASSUME NEW f \in Fees, NEW r \in Nat
  PROVE  /\ AmountLessFee(r, f) \in 0 .. r
         /\ r - AmountLessFee(r, f) = CeilDiv(f * r, MaxFee)
         /\ \A k \in Int : k <= AmountLessFee(r, f) <=> MaxFee * k <= r * (MaxFee - f)
<1> DEFINE n == r * (MaxFee - f)
           i == n \div MaxFee
           F == MaxFee
<1>1. F \in Nat \ {0} /\ f \in 0 .. F /\ f \in Nat
  BY FeeAssumption DEF Fees
<1>2. AmountLessFee(r, f) = i
  BY DEF AmountLessFee
<1>3. n \in Nat /\ n = r * F - f * r /\ f * r \in Nat /\ r * F \in Nat
  BY <1>1, Product
<1> HIDE DEF n
<1>4. i \in Int /\ F * i <= n /\ \A k \in Int : k <= i <=> F * k <= n
  <2>1. n \in Int /\ MaxFee \in Nat \ {0}
    BY <1>1, <1>3
  <2> QED BY <2>1, RoundsDown
<1> HIDE DEF i
<1>5. 0 <= i
  <2>1. 0 \in Int /\ F * 0 <= n
    BY <1>1, <1>3
  <2> QED BY <1>4, <2>1
<1> HIDE DEF F
<1>6. ~(F * (i + 1) <= n)
  <2>1. i + 1 \in Int /\ ~(i + 1 <= i)
    BY <1>4
  <2> QED BY <1>4, <2>1
<1>7. F * (i + 1) = F * i + F /\ F * (r - i) = r * F - F * i /\ F * (r + 1) = r * F + F /\ F * i \in Int
  BY <1>1, <1>4
<1>8. i <= r
  <2>1. r + 1 \in Int /\ ~(F * (r + 1) <= n)
    BY <1>1, <1>3, <1>7
  <2>2. ~(r + 1 <= i)
    BY <1>4, <2>1
  <2> QED BY <1>4, <2>2
<1>9. f * r <= F * (r - i) /\ F * (r - i) - F < f * r
  BY <1>1, <1>3, <1>4, <1>6, <1>7
<1>10. r - i = CeilDiv(f * r, F)
  <2>1. f * r \in Int /\ r - i \in Int
    BY <1>3, <1>4
  <2> QED BY <1>1, <1>9, <2>1, CeilIs
<1> QED BY <1>2, <1>4, <1>5, <1>8, <1>10 DEF F, n

\* The fee on top of an input: the rate of both, and no more than what an
\* exact input, of which the net input is left, has to spend.
LEMMA FeeOnTop ==
  ASSUME NEW f \in Fees, f # MaxFee, NEW i \in Nat
  PROVE  /\ FeeOnInput(i, f) \in Nat
         /\ FeeOnInput(i, f) = CeilDiv(f * (i + FeeOnInput(i, f)), MaxFee)
         /\ \A r \in Nat : i <= AmountLessFee(r, f) => i + FeeOnInput(i, f) <= r
<1> DEFINE F == MaxFee
           g == MaxFee - f
           n == i * f
           e == (n + g - 1) \div g
<1>1. F \in Nat \ {0} /\ f \in Nat /\ g \in Nat \ {0} /\ F = g + f
  BY FeeAssumption DEF Fees
<1>2. FeeOnInput(i, f) = e
  BY DEF FeeOnInput, CeilDiv
<1>3. n \in Nat /\ n = f * i
  BY <1>1, Product
<1> HIDE DEF n, g
<1>4. e \in Int /\ n <= g * e /\ \A k \in Int : e <= k <=> n <= g * k
  <2>1. n \in Int
    BY <1>3
  <2> QED BY <1>1, <2>1, RoundsUp
<1> HIDE DEF e
<1>5. 0 <= e
  <2>1. -1 \in Int /\ ~(n <= g * (-1))
    BY <1>1, <1>3
  <2>2. ~(e <= -1)
    BY <1>4, <2>1
  <2> QED BY <1>4, <2>2
<1>6. e \in Nat
  BY <1>4, <1>5
<1>7. ~(n <= g * e - g)
  <2>1. e - 1 \in Int /\ ~(e <= e - 1) /\ g * (e - 1) = g * e - g
    BY <1>1, <1>6
  <2> QED BY <1>4, <2>1
<1>8. e = CeilDiv(f * (i + e), F)
  <2>1. f * (i + e) = n + f * e /\ F * e = g * e + f * e /\ f * e \in Nat /\ g * e \in Nat
    BY <1>1, <1>3, <1>6
  <2>2. f * (i + e) \in Int
    BY <1>3, <2>1
  <2>3. f * (i + e) <= F * e /\ F * e - F < f * (i + e)
    BY <1>1, <1>3, <1>4, <1>7, <2>1
  <2> QED BY <1>1, <1>6, <2>2, <2>3, CeilIs
<1>9. ASSUME NEW r \in Nat, i <= AmountLessFee(r, f) PROVE i + e <= r
  <2>1. F * i <= r * g
    BY <1>9, FeeLeftOver DEF g
  <2>2. F * i = g * i + n /\ r * g - g * i = g * (r - i) /\ g * i \in Int /\ r * g \in Int
    BY <1>1, <1>3
  <2>3. n <= g * (r - i)
    BY <1>3, <2>1, <2>2
  <2>4. r - i \in Int
    OBVIOUS
  <2>5. e <= r - i
    BY <1>4, <2>3, <2>4
  <2> QED BY <1>6, <2>5
<1> QED BY <1>2, <1>6, <1>8, <1>9

\* Two legal fees combine to a legal fee that is not below the protocol's.
LEMMA CombinedFee ==
  ASSUME NEW c \in Fees, NEW lp \in Fees
  PROVE  \E f \in Fees : CalculateSwapFee(c, lp) = {f} /\ c <= f
<1> DEFINE F == MaxFee
           w == (c * lp) \div MaxFee
           f == c + lp - w
<1>1. F \in Nat \ {0} /\ c \in 0 .. F /\ lp \in 0 .. F /\ c \in Nat /\ lp \in Nat
  BY FeeAssumption DEF Fees
<1>2. CASE c = 0
  BY <1>1, <1>2 DEF CalculateSwapFee
<1>3. CASE c # 0
  <2>1. CalculateSwapFee(c, lp) = {f} \cap Fees
    BY <1>3 DEF CalculateSwapFee
  <2>2. c * lp \in Nat
    BY <1>1, Product
  <2>3. w \in Int /\ \A k \in Int : k <= w <=> F * k <= c * lp
    <3>1. c * lp \in Int /\ MaxFee \in Nat \ {0}
      BY <1>1, <2>2
    <3> QED BY <3>1, RoundsDown
  <2> HIDE DEF w, F
  <2>4. w <= lp
    <3>1. ~(F * (lp + 1) <= c * lp)
      <4>1. F * (lp + 1) = F * lp + F /\ c * lp <= F * lp
        BY <1>1, Monotone
      <4> QED BY <1>1, <4>1
    <3>2. ~(lp + 1 <= w)
      BY <1>1, <2>3, <3>1
    <3> QED BY <1>1, <2>3, <3>2
  <2>5. c + lp - F <= w
    <3>1. (F - c) * (F - lp) \in Nat
      BY <1>1, Product
    <3>2. (F - c) * (F - lp) = F * F - F * lp - F * c + c * lp
          /\ F * (c + lp - F) = F * c + F * lp - F * F
      BY <1>1
    <3>3. F * (c + lp - F) <= c * lp
      <4>1. F * c \in Nat /\ F * lp \in Nat /\ F * F \in Nat
        BY <1>1, Product
      <4> QED BY <2>2, <3>1, <3>2, <4>1
    <3>4. c + lp - F \in Int
      BY <1>1
    <3> QED BY <2>3, <3>3, <3>4
  <2>6. 0 <= w
    <3>1. F * 0 <= c * lp
      BY <1>1, <2>2
    <3> QED BY <2>3, <3>1
  <2>7. f \in 0 .. F /\ c <= f
    BY <1>1, <2>3, <2>4, <2>5
  <2> HIDE DEF f
  <2>8. f \in Fees
    BY <2>7 DEF Fees, F
  <2> QED BY <2>1, <2>7, <2>8
<1> QED BY <1>2, <1>3

\* The protocol's share is part of the fee.
LEMMA ShareOfFee ==
  ASSUME NEW c \in Fees, NEW f \in Fees, c <= f, NEW in \in Nat, NEW fee \in Nat,
         fee = CeilDiv(f * (in + fee), MaxFee)
  PROVE  ProtocolShare(in, fee, f, c) \in Nat /\ ProtocolShare(in, fee, f, c) <= fee
<1> DEFINE F == MaxFee
           x == in + fee
           w == (x * c) \div MaxFee
<1>1. F \in Nat \ {0} /\ f \in Nat /\ c \in Nat /\ x \in Nat
  BY FeeAssumption DEF Fees
<1>2. ProtocolShare(in, fee, f, c) \in {0, fee, w}
  BY DEF ProtocolShare
<1>3. x * c \in Nat /\ f * x \in Nat /\ x * c <= f * x
  BY <1>1, Product, Monotone
<1> HIDE DEF x
<1>4. w \in Int /\ F * w <= x * c /\ \A k \in Int : k <= w <=> F * k <= x * c
  <2>1. x * c \in Int /\ MaxFee \in Nat \ {0}
    BY <1>1, <1>3
  <2> QED BY <2>1, RoundsDown
<1>5. f * x <= F * fee
  <2> DEFINE n == f * x
             e == (n + MaxFee - 1) \div MaxFee
  <2>1. fee = e
    BY DEF CeilDiv, x
  <2>2. n \in Int /\ MaxFee \in Nat \ {0}
    BY <1>1, <1>3
  <2> HIDE DEF n
  <2>3. n <= MaxFee * e
    BY <2>2, RoundsUp
  <2> HIDE DEF e
  <2> QED BY <2>1, <2>3 DEF n
<1> HIDE DEF w, F
<1>6. w <= fee
  <2>1. F * w <= F * fee
    BY <1>1, <1>3, <1>4, <1>5
  <2> QED BY <1>1, <1>4, <2>1, CancelFactor
<1>7. 0 <= w
  <2>1. F * 0 <= x * c
    BY <1>1, <1>3
  <2> QED BY <1>4, <2>1
<1> QED BY <1>2, <1>4, <1>6, <1>7

-----------------------------------------------------------------------------
(* A step                                                                      *)

\* x pays for the move from p to q, and the move pays for y.
PaysIn(p, q, l, x) == IF q < p THEN Covers0(p, q, l, x) ELSE Covers1(p, q, l, x)
PaysOut(p, q, l, y) == IF q < p THEN Within1(p, q, l, y) ELSE Within0(p, q, l, y)

\* What a step owes its callers, for an amount that is not zero.
GoodStep(s, p, t, l, amount, f) ==
  /\ s.price \in Prices /\ Between(s.price, p, t)
  /\ s.in \in Nat /\ s.out \in Nat /\ s.fee \in Nat
  /\ s.fee = CeilDiv(f * (s.in + s.fee), MaxFee)
  /\ IF amount < 0 THEN s.in + s.fee <= -amount ELSE s.out <= amount
  /\ s.price # t => IF amount < 0 THEN s.in + s.fee = -amount ELSE s.out = amount
  /\ p = t => s.in = 0 /\ s.fee = 0 /\ s.out = 0
  /\ PaysIn(p, s.price, l, s.in) /\ PaysOut(p, s.price, l, s.out)

\* The amounts of a move in either direction.
LEMMA MoveIn ==
  ASSUME NEW p \in Prices, NEW q \in Prices, NEW t \in Prices, NEW l \in Nat,
         IF p >= t THEN q <= p ELSE p <= q
  PROVE  /\ InDelta(p, q, l, p >= t) \in Nat
         /\ PaysIn(p, q, l, InDelta(p, q, l, p >= t))
         /\ p = q => InDelta(p, q, l, p >= t) = 0
         /\ \A k \in Int : k < InDelta(p, q, l, p >= t) =>
              IF p >= t THEN ~Covers0(p, q, l, k) ELSE ~Covers1(p, q, l, k)
<1> DEFINE a == Amount0(p, q, l, TRUE)
           b == Amount1(p, q, l, TRUE)
<1>1. p \in Nat \ {0} /\ q \in Nat \ {0} /\ t \in Nat \ {0} /\ Q96 \in Nat \ {0}
  BY PriceType, SqrtPriceAssumption
<1>2. /\ a \in Nat /\ \A k \in Int : a <= k <=> Covers0(p, q, l, k)
      /\ b \in Nat /\ \A k \in Int : b <= k <=> Covers1(p, q, l, k)
  BY Amount0Up, Amount1Up DEF Covers0, Covers1
<1>3. InDelta(p, q, l, p >= t) = IF p >= t THEN a ELSE b
  BY DEF InDelta
<1> HIDE DEF a, b
<1>4. Covers0(p, q, l, a) /\ Covers1(p, q, l, b)
  BY <1>2
<1>5. p = q => Covers0(p, q, l, 0) /\ Covers1(p, q, l, 0) /\ \A k \in Nat : Covers1(p, q, l, k)
  <2> SUFFICES ASSUME p = q
               PROVE Covers0(p, q, l, 0) /\ \A k \in Nat : Covers1(p, q, l, k)
    OBVIOUS
  <2>1. Gap(p, q) = 0
    BY <1>1 DEF Gap
  <2>2. l * 0 = 0 /\ 0 * Q96 = 0 /\ p * q * 0 = 0 /\ \A k \in Nat : 0 <= Q96 * k
    BY <1>1
  <2> QED BY <2>1, <2>2 DEF Covers0, Covers1
<1>6. p = q => a = 0 /\ b = 0
  BY <1>2, <1>5
<1>7. \A k \in Int : (k < a => ~Covers0(p, q, l, k)) /\ (k < b => ~Covers1(p, q, l, k))
  BY <1>2
<1> QED BY <1>1, <1>2, <1>3, <1>4, <1>5, <1>6, <1>7 DEF PaysIn

LEMMA MoveOut ==
  ASSUME NEW p \in Prices, NEW q \in Prices, NEW t \in Prices, NEW l \in Nat,
         IF p >= t THEN q <= p ELSE p <= q
  PROVE  /\ OutDelta(p, q, l, p >= t) \in Nat
         /\ PaysOut(p, q, l, OutDelta(p, q, l, p >= t))
         /\ p = q => OutDelta(p, q, l, p >= t) = 0
         /\ \A k \in Int : k <= OutDelta(p, q, l, p >= t) =>
              IF p >= t THEN Within1(p, q, l, k) ELSE Within0(p, q, l, k)
<1> DEFINE a == Amount0(p, q, l, FALSE)
           b == Amount1(p, q, l, FALSE)
<1>1. p \in Nat \ {0} /\ q \in Nat \ {0} /\ t \in Nat \ {0} /\ Q96 \in Nat \ {0}
  BY PriceType, SqrtPriceAssumption
<1>2. /\ a \in Nat /\ \A k \in Int : k <= a <=> Within0(p, q, l, k)
      /\ b \in Nat /\ \A k \in Int : k <= b <=> Within1(p, q, l, k)
  BY Amount0Down, Amount1Down DEF Within0, Within1
<1>3. OutDelta(p, q, l, p >= t) = IF p >= t THEN b ELSE a
  BY DEF OutDelta
<1> HIDE DEF a, b
<1>4. Within0(p, q, l, a) /\ Within1(p, q, l, b)
  BY <1>2
<1>5. p = q => Within0(p, q, l, 0) /\ ~Within0(p, q, l, 1) /\ ~Within1(p, q, l, 1)
  <2> SUFFICES ASSUME p = q
               PROVE Within0(p, q, l, 0) /\ ~Within0(p, q, l, 1) /\ ~Within1(p, q, l, 1)
    OBVIOUS
  <2>1. Gap(p, q) = 0
    BY <1>1 DEF Gap
  <2>2. l * Gap(p, q) = 0 /\ l * Gap(p, q) * Q96 = 0
    BY <1>1, <2>1
  <2>3. (p * q) * 0 = 0 /\ (p * q) * 1 > 0 /\ Q96 * 1 > 0
    BY <1>1
  <2> QED BY <1>1, <2>2, <2>3 DEF Within0, Within1
<1>6. p = q => a = 0 /\ b = 0
  BY <1>2, <1>5
<1> QED BY <1>1, <1>2, <1>3, <1>4, <1>5, <1>6 DEF PaysOut

\* A price that stands still takes nothing and gives nothing.
LEMMA StandsStill ==
  ASSUME NEW p \in Prices, NEW l \in Nat
  PROVE  /\ PaysIn(p, p, l, 0) /\ PaysOut(p, p, l, 0)
         /\ \A k \in Nat : PaysIn(p, p, l, k)
         /\ \A k \in Nat \ {0} : ~Within1(p, p, l, k)
<1>1. p \in Nat \ {0} /\ Q96 \in Nat \ {0} /\ Gap(p, p) = 0
  BY PriceType, SqrtPriceAssumption DEF Gap
<1>2. l * Gap(p, p) = 0 /\ l * Gap(p, p) * Q96 = 0 /\ (p * p) * 0 = 0
  BY <1>1
<1>3. \A k \in Nat : Q96 * k >= 0 /\ (k # 0 => Q96 * k > 0)
  BY <1>1
<1> QED BY <1>1, <1>2, <1>3 DEF PaysIn, PaysOut, Covers1, Within0, Within1

LEMMA ExactInStep ==
  ASSUME NEW p \in Prices, NEW t \in Prices, NEW l \in Nat \ {0}, NEW r \in Nat \ {0}, NEW f \in Fees
  PROVE  \E s : ComputeExactIn(p, t, l, r, f) = {s} /\ GoodStep(s, p, t, l, -r, f)
<1> DEFINE net    == AmountLessFee(r, f)
           maxIn  == InDelta(p, t, l, p >= t)
           out(q) == OutDelta(p, q, l, p >= t)
           ends   == NextFromInput(p, l, net, p >= t)
           still  == [price |-> p, in |-> 0, out |-> 0, fee |-> IF p = t THEN 0 ELSE r]
           full   == [price |-> t, in |-> maxIn, out |-> out(t), fee |-> FeeOnInput(maxIn, f)]
           part(q) == [price |-> q, in |-> net, out |-> out(q), fee |-> r - net]
<1>1. p \in Nat \ {0} /\ t \in Nat \ {0} /\ MaxFee \in Nat \ {0} /\ f \in Nat
      /\ -r < 0 /\ -(-r) = r /\ r > 0
  BY PriceType, FeeAssumption DEF Fees
<1>2. ComputeExactIn(p, t, l, r, f) =
        CASE net = 0 -> {still}
          [] net # 0 /\ net >= maxIn -> {full}
          [] OTHER -> {part(q) : q \in ends}
  BY DEF ComputeExactIn
<1>3. net \in 0 .. r /\ r - net = CeilDiv(f * r, MaxFee)
      /\ \A k \in Int : k <= net <=> MaxFee * k <= r * (MaxFee - f)
  BY FeeLeftOver
<1>4. maxIn \in Nat /\ (p = t => maxIn = 0) /\ PaysIn(p, t, l, maxIn)
      /\ \A k \in Int : k < maxIn => IF p >= t THEN ~Covers0(p, t, l, k) ELSE ~Covers1(p, t, l, k)
  BY <1>1, MoveIn
<1>5. ASSUME NEW q \in Prices, IF p >= t THEN q <= p ELSE p <= q
      PROVE  out(q) \in Nat /\ PaysOut(p, q, l, out(q)) /\ (p = q => out(q) = 0)
  BY <1>5, MoveOut
<1> HIDE DEF net, maxIn, out, ends
<1>6. CASE net = 0
  <2>1. still.price = p /\ still.in = 0 /\ still.out = 0 /\ still.fee = IF p = t THEN 0 ELSE r
    OBVIOUS
  <2> HIDE DEF still
  <2>2. still.fee \in Nat /\ 0 + still.fee = still.fee /\ still.fee <= r /\ (p # t => still.fee = r)
    BY <2>1
  <2>3. CeilDiv(f * 0, MaxFee) = 0
    BY <1>1, CeilIs
  <2>4. still.fee = CeilDiv(f * (0 + still.fee), MaxFee)
    BY <1>3, <1>6, <2>1, <2>2, <2>3
  <2>5. Between(p, p, t)
    BY <1>1 DEF Between
  <2>6. GoodStep(still, p, t, l, -r, f)
    BY <1>1, <2>1, <2>2, <2>4, <2>5, StandsStill DEF GoodStep
  <2> QED BY <1>2, <1>6, <2>6
<1>7. CASE net # 0 /\ net >= maxIn
  <2> DEFINE e == FeeOnInput(maxIn, f)
  <2>1. full.price = t /\ full.in = maxIn /\ full.out = out(t) /\ full.fee = e
    OBVIOUS
  <2>2. f # MaxFee
    <3>1. SUFFICES ASSUME f = MaxFee PROVE FALSE
      OBVIOUS
    <3>2. r * (MaxFee - f) = 0
      BY <1>1, <3>1
    <3>3. 1 <= net
      BY <1>3, <1>7
    <3>4. MaxFee * 1 <= 0
      BY <1>3, <3>2, <3>3
    <3> QED BY <1>1, <3>4
  <2>3. /\ e \in Nat /\ e = CeilDiv(f * (maxIn + e), MaxFee)
        /\ \A k \in Nat : maxIn <= AmountLessFee(k, f) => maxIn + e <= k
    BY <1>4, <2>2, FeeOnTop
  <2>4. maxIn + e <= r
    BY <1>7, <1>3, <1>4, <2>3 DEF net
  <2>5. p = t => maxIn = 0 /\ e = 0
    <3>1. AmountLessFee(0, f) = 0
      BY FeeLeftOver
    <3>2. maxIn = 0 => maxIn + e <= 0
      BY <2>3, <3>1
    <3> QED BY <1>4, <2>3, <3>2
  <2>6. out(t) \in Nat /\ PaysOut(p, t, l, out(t)) /\ (p = t => out(t) = 0)
    BY <1>1, <1>5
  <2>7. Between(t, p, t)
    BY <1>1 DEF Between
  <2> HIDE DEF full, e
  <2>8. GoodStep(full, p, t, l, -r, f)
    BY <1>1, <1>4, <2>1, <2>3, <2>4, <2>5, <2>6, <2>7 DEF GoodStep
  <2> QED BY <1>2, <1>7, <2>8
<1>8. CASE net # 0 /\ ~(net >= maxIn)
  <2>1. p # t /\ net < maxIn /\ net \in Nat \ {0} /\ net <= r
    BY <1>1, <1>3, <1>4, <1>8
  <2>2. \E q \in Prices : /\ ends = {q} /\ Between(q, p, t) /\ PaysIn(p, q, l, net)
                          /\ IF p >= t THEN q <= p ELSE p <= q
    <3>1. CASE p >= t
      <4>1. ~Covers0(p, t, l, net)
        BY <1>4, <2>1, <3>1
      <4>2. PICK q \in Prices : /\ t <= q /\ q <= p
                                /\ NextFromAmount0Add(p, l, net) = {q} /\ Covers0(p, q, l, net)
        BY <1>1, <2>1, <3>1, <4>1, AddAmount0
      <4>3. ends = {q}
        BY <3>1, <4>2 DEF ends, NextFromInput, NextFromAmount0
      <4>4. PaysIn(p, q, l, net)
        <5>1. q \in Nat
          BY PriceType
        <5>2. CASE q < p
          BY <4>2, <5>2 DEF PaysIn
        <5>3. CASE q = p
          BY <2>1, <5>3, StandsStill
        <5> QED BY <1>1, <4>2, <5>1, <5>2, <5>3
      <4> QED BY <3>1, <4>2, <4>3, <4>4 DEF Between
    <3>2. CASE ~(p >= t)
      <4>1. ~Covers1(p, t, l, net) /\ p <= t
        BY <1>1, <1>4, <2>1, <3>2
      <4>2. PICK q \in Prices : /\ p <= q /\ q <= t
                                /\ NextFromAmount1Add(p, l, net) = {q} /\ Covers1(p, q, l, net)
        BY <2>1, <4>1, AddAmount1
      <4>3. ends = {q}
        BY <3>2, <4>2 DEF ends, NextFromInput, NextFromAmount1
      <4>4. PaysIn(p, q, l, net)
        BY <1>1, <4>2, PriceType DEF PaysIn
      <4> QED BY <3>2, <4>2, <4>3, <4>4 DEF Between
    <3> QED BY <3>1, <3>2
  <2>3. PICK q \in Prices : /\ ends = {q} /\ Between(q, p, t) /\ PaysIn(p, q, l, net)
                            /\ IF p >= t THEN q <= p ELSE p <= q
    BY <2>2
  <2> DEFINE s == part(q)
  <2>4. s.price = q /\ s.in = net /\ s.out = out(q) /\ s.fee = r - net
    OBVIOUS
  <2>5. {part(x) : x \in ends} = {s}
    BY <2>3
  <2>6. ComputeExactIn(p, t, l, r, f) = {s}
    BY <1>2, <1>8, <2>5
  <2> HIDE DEF s
  <2>7. out(q) \in Nat /\ PaysOut(p, q, l, out(q))
    BY <1>5, <2>3
  <2>8. r - net \in Nat /\ net + (r - net) = r
    BY <2>1
  <2>9. GoodStep(s, p, t, l, -r, f)
    BY <1>1, <1>3, <2>1, <2>3, <2>4, <2>7, <2>8 DEF GoodStep
  <2> QED BY <2>6, <2>9
<1> QED BY <1>6, <1>7, <1>8

LEMMA ExactOutStep ==
  ASSUME NEW p \in Prices, NEW t \in Prices, NEW l \in Nat \ {0}, NEW r \in Nat \ {0}, NEW f \in Fees,
         l * Q96 <= U256Max, f # MaxFee
  PROVE  \E s : ComputeExactOut(p, t, l, r, f) = {s} /\ GoodStep(s, p, t, l, r, f)
<1> DEFINE maxOut == OutDelta(p, t, l, p >= t)
           in(q)  == InDelta(p, q, l, p >= t)
           next   == NextFromOutput(p, l, r, p >= t)
           step(q, y) == [price |-> q, in |-> in(q), out |-> y, fee |-> FeeOnInput(in(q), f)]
<1>1. p \in Nat \ {0} /\ t \in Nat \ {0} /\ ~(r < 0)
  BY PriceType
<1>2. ComputeExactOut(p, t, l, r, f) =
        {step(q, IF r >= maxOut THEN maxOut ELSE r) : q \in IF r >= maxOut THEN {t} ELSE next}
  BY DEF ComputeExactOut
<1>3. maxOut \in Nat /\ (p = t => maxOut = 0) /\ PaysOut(p, t, l, maxOut)
      /\ \A k \in Int : k <= maxOut => IF p >= t THEN Within1(p, t, l, k) ELSE Within0(p, t, l, k)
  BY <1>1, MoveOut
<1>4. ASSUME NEW q \in Prices, IF p >= t THEN q <= p ELSE p <= q
      PROVE  in(q) \in Nat /\ PaysIn(p, q, l, in(q)) /\ (p = q => in(q) = 0)
  BY <1>4, MoveIn
<1>5. ASSUME NEW i \in Nat
      PROVE  /\ FeeOnInput(i, f) \in Nat
             /\ FeeOnInput(i, f) = CeilDiv(f * (i + FeeOnInput(i, f)), MaxFee)
             /\ i = 0 => FeeOnInput(i, f) = 0
  <2>1. /\ FeeOnInput(i, f) \in Nat
        /\ FeeOnInput(i, f) = CeilDiv(f * (i + FeeOnInput(i, f)), MaxFee)
        /\ \A k \in Nat : i <= AmountLessFee(k, f) => i + FeeOnInput(i, f) <= k
    BY FeeOnTop
  <2>2. AmountLessFee(0, f) = 0
    BY FeeLeftOver
  <2>3. i = 0 => i + FeeOnInput(i, f) <= 0
    BY <2>1, <2>2
  <2> QED BY <2>1, <2>3
<1> HIDE DEF maxOut, in, next
<1>6. ASSUME NEW q \in Prices, IF p >= t THEN q <= p ELSE p <= q, Between(q, p, t),
             NEW y \in Nat, y <= r, q # t => y = r, p = t => q = t /\ y = 0, PaysOut(p, q, l, y)
      PROVE  GoodStep(step(q, y), p, t, l, r, f)
  <2> DEFINE s == step(q, y)
             fee == FeeOnInput(in(q), f)
  <2>1. s.price = q /\ s.in = in(q) /\ s.out = y /\ s.fee = fee
    OBVIOUS
  <2>2. in(q) \in Nat /\ PaysIn(p, q, l, in(q)) /\ (p = t => in(q) = 0)
    BY <1>4, <1>6
  <2>3. fee \in Nat /\ fee = CeilDiv(f * (in(q) + fee), MaxFee) /\ (p = t => fee = 0)
    BY <1>5, <2>2
  <2> HIDE DEF s, fee
  <2>4. GoodStep(s, p, t, l, r, f)
    BY <1>1, <1>6, <2>1, <2>2, <2>3 DEF GoodStep
  <2> QED BY <2>4 DEF s
<1>7. CASE r >= maxOut
  <2>1. ComputeExactOut(p, t, l, r, f) = {step(t, maxOut)}
    BY <1>2, <1>7
  <2>2. GoodStep(step(t, maxOut), p, t, l, r, f)
    <3>1. (IF p >= t THEN t <= p ELSE p <= t) /\ Between(t, p, t)
      BY <1>1 DEF Between
    <3> HIDE DEF step
    <3> QED BY <1>3, <1>6, <1>7, <3>1
  <2> QED BY <2>1, <2>2
<1>8. CASE ~(r >= maxOut)
  <2>1. p # t /\ r <= maxOut
    BY <1>1, <1>3, <1>8
  <2>2. \E q \in Prices : /\ next = {q} /\ Between(q, p, t) /\ PaysOut(p, q, l, r)
                          /\ IF p >= t THEN q <= p ELSE p <= q
    <3>1. CASE p >= t
      <4>1. Within1(p, t, l, r)
        BY <1>3, <2>1, <3>1
      <4>2. PICK q \in Prices : /\ t <= q /\ q <= p
                                /\ NextFromAmount1Sub(p, l, r) = {q} /\ Within1(p, q, l, r)
        BY <1>1, <3>1, <4>1, SubAmount1
      <4>3. next = {q}
        BY <3>1, <4>2 DEF next, NextFromOutput, NextFromAmount1
      <4>4. PaysOut(p, q, l, r)
        <5>1. q # p
          BY <4>2, StandsStill
        <5>2. q < p
          BY <1>1, <4>2, <5>1, PriceType
        <5> QED BY <4>2, <5>2 DEF PaysOut
      <4> QED BY <3>1, <4>2, <4>3, <4>4 DEF Between
    <3>2. CASE ~(p >= t)
      <4>1. Within0(p, t, l, r) /\ p <= t
        BY <1>1, <1>3, <2>1, <3>2
      <4>2. PICK q \in Prices : /\ p <= q /\ q <= t
                                /\ NextFromAmount0Sub(p, l, r) = {q} /\ Within0(p, q, l, r)
        BY <4>1, SubAmount0
      <4>3. next = {q}
        BY <3>2, <4>2 DEF next, NextFromOutput, NextFromAmount0
      <4>4. PaysOut(p, q, l, r)
        BY <1>1, <4>2, PriceType DEF PaysOut
      <4> QED BY <3>2, <4>2, <4>3, <4>4 DEF Between
    <3> QED BY <3>1, <3>2
  <2>3. PICK q \in Prices : /\ next = {q} /\ Between(q, p, t) /\ PaysOut(p, q, l, r)
                            /\ IF p >= t THEN q <= p ELSE p <= q
    BY <2>2
  <2>4. ComputeExactOut(p, t, l, r, f) = {step(q, r)}
    BY <1>2, <1>8, <2>3
  <2>5. GoodStep(step(q, r), p, t, l, r, f)
    <3> HIDE DEF step
    <3> QED BY <1>6, <2>1, <2>3
  <2> QED BY <2>4, <2>5
<1> QED BY <1>7, <1>8

-----------------------------------------------------------------------------
(* What the pool holds                                                         *)

\* The tokens h are worth at least the exact principal at price p.
Backed(h, p) ==
  /\ h \in [{0, 1} -> Int]
  /\ Covers0(p, MaxPrice, liquidity, h[0]) /\ Covers1(MinPrice, p, liquidity, h[1])

\* What the pool will hold if the swap ends here.
Pending ==
  [i \in {0, 1} |-> held[i] - SwapDelta[i] - (IF i = InToken THEN swap.charged ELSE 0)]

Locals ==
  [running : BOOLEAN, zeroForOne : BOOLEAN, limit : Prices, amount : Int, sqrtPrice : Prices,
   target : Prices, remaining : Int, calculated : Int, charged : Int, toProtocol : Int]

RangeInv ==
  /\ liquidity \in Liquidities /\ fees \in FeeConfigs /\ sqrtPrice \in Prices /\ swap \in Locals
  /\ Backed(held, sqrtPrice)
  /\ AmountNotExceeded
  /\ swap.running =>
       /\ swap.amount # 0
       /\ IF swap.zeroForOne THEN swap.limit <= swap.sqrtPrice ELSE swap.sqrtPrice <= swap.limit
       /\ Backed(Pending, swap.sqrtPrice)

\* The terms of a principal times p, gathered from before and after a move.
LEMMA MoveTerms ==
  ASSUME NEW h \in Int, NEW k \in Int, NEW n \in Int, NEW p \in Int, NEW q \in Int, NEW m \in Int
  PROVE  /\ p * ((h + k) * (q * m)) = q * (h * (p * m)) + m * (k * (p * q))
         /\ p * (n * (m - q)) = q * (n * (m - p)) + m * (n * (p - q))
OBVIOUS

\* After a move the tokens are worth the principal at the new price.
LEMMA BackedMove ==
  ASSUME NEW p \in Prices, NEW q \in Prices, NEW l \in Nat \ {0}, NEW a \in Int, NEW b \in Int,
         NEW x \in Nat, NEW y \in Nat,
         Covers0(p, MaxPrice, l, a), Covers1(MinPrice, p, l, b), PaysIn(p, q, l, x), PaysOut(p, q, l, y)
  PROVE  /\ q <= p => Covers0(q, MaxPrice, l, a + x) /\ Covers1(MinPrice, q, l, b - y)
         /\ p <= q => Covers0(q, MaxPrice, l, a - y) /\ Covers1(MinPrice, q, l, b + x)
<1> DEFINE m == MaxPrice
           n == l * Q96
<1>1. /\ m \in Prices /\ MinPrice \in Prices /\ m \in Nat \ {0} /\ MinPrice \in Nat
      /\ p \in Nat \ {0} /\ q \in Nat \ {0} /\ Q96 \in Nat \ {0}
      /\ p <= m /\ q <= m /\ MinPrice <= p /\ MinPrice <= q
  BY SqrtPriceAssumption DEF Prices
<1>2. n \in Nat
  BY <1>1, Product
<1>3. n * (m - p) <= a * (p * m)
  <2>1. l * Gap(p, m) * Q96 = n * m - n * p
    BY <1>1, <1>2, Exact0
  <2>2. n * (m - p) = n * m - n * p /\ (p * m) * a = a * (p * m)
    BY <1>1, <1>2
  <2> QED BY <2>1, <2>2 DEF Covers0
<1>4. l * p - l * MinPrice <= Q96 * b
  <2>1. Gap(MinPrice, p) = p - MinPrice
    BY <1>1, GapType
  <2>2. l * (p - MinPrice) = l * p - l * MinPrice
    BY <1>1
  <2> QED BY <2>1, <2>2 DEF Covers1
<1>5. ASSUME NEW k \in Int, n * (m - q) <= k * (q * m) PROVE Covers0(q, MaxPrice, l, k)
  <2>1. l * Gap(q, m) * Q96 = n * m - n * q
    BY <1>1, <1>2, Exact0
  <2>2. n * (m - q) = n * m - n * q /\ (q * m) * k = k * (q * m)
    BY <1>1, <1>2
  <2> QED BY <1>5, <2>1, <2>2 DEF Covers0
<1>6. ASSUME NEW k \in Int, l * q - l * MinPrice <= Q96 * k PROVE Covers1(MinPrice, q, l, k)
  <2>1. Gap(MinPrice, q) = q - MinPrice
    BY <1>1, GapType
  <2>2. l * (q - MinPrice) = l * q - l * MinPrice
    BY <1>1
  <2> QED BY <1>6, <2>1, <2>2 DEF Covers1
<1>7. ASSUME NEW k \in Int, n * (p - q) <= k * (p * q) PROVE n * (m - q) <= (a + k) * (q * m)
  <2>1. /\ p * ((a + k) * (q * m)) = q * (a * (p * m)) + m * (k * (p * q))
        /\ p * (n * (m - q)) = q * (n * (m - p)) + m * (n * (p - q))
    BY <1>1, <1>2, MoveTerms
  <2> DEFINE a1 == n * (m - p)
             a2 == a * (p * m)
             b1 == n * (p - q)
             b2 == k * (p * q)
             c1 == n * (m - q)
             c2 == (a + k) * (q * m)
  <2>2. a1 \in Int /\ a2 \in Int /\ b1 \in Int /\ b2 \in Int /\ c1 \in Int /\ c2 \in Int
    BY <1>1, <1>2
  <2>3. p * c2 = q * a2 + m * b2 /\ p * c1 = q * a1 + m * b1 /\ a1 <= a2 /\ b1 <= b2
    BY <1>3, <1>7, <2>1
  <2> HIDE DEF a1, a2, b1, b2, c1, c2, m, n
  <2>4. q * a1 <= q * a2 /\ m * b1 <= m * b2
    BY <1>1, <2>2, <2>3, CancelFactor
  <2>5. p * c1 <= p * c2
    BY <1>1, <2>2, <2>3, <2>4
  <2>6. c1 <= c2
    BY <1>1, <2>2, <2>5, CancelFactor
  <2> QED BY <2>6 DEF c1, c2
<1>8. ASSUME q = p PROVE y = 0
  <2>1. Gap(p, p) = 0
    BY <1>1 DEF Gap
  <2>2. (p * p) * y <= l * 0 * Q96
    BY <1>1, <1>8, <2>1 DEF PaysOut, Within0
  <2>3. p * p \in Nat \ {0} /\ l * 0 * Q96 = 0
    BY <1>1
  <2> DEFINE s == p * p
  <2> HIDE DEF s
  <2>4. s * y <= 0 /\ s \in Nat \ {0}
    BY <2>2, <2>3 DEF s
  <2> QED BY <2>4
<1>9. CASE q = p
  <2>1. y = 0
    BY <1>8, <1>9
  <2>2. Covers0(p, MaxPrice, l, a + x)
    <3>1. a * (p * m) <= (a + x) * (p * m)
      <4>1. x * (p * m) >= 0 /\ (a + x) * (p * m) = a * (p * m) + x * (p * m) /\ a * (p * m) \in Int
        BY <1>1
      <4> QED BY <1>1, <4>1
    <3>2. n * (m - p) <= (a + x) * (p * m)
      <4>1. n * (m - p) \in Int /\ a * (p * m) \in Int /\ (a + x) * (p * m) \in Int
        BY <1>1, <1>2
      <4> QED BY <1>3, <3>1, <4>1
    <3>3. a + x \in Int
      OBVIOUS
    <3> QED BY <1>5, <1>9, <3>2, <3>3
  <2>3. Covers1(MinPrice, p, l, b + x)
    <3>1. Q96 * (b + x) = Q96 * b + Q96 * x /\ Q96 * x >= 0 /\ Q96 * b \in Int /\ b + x \in Int
      BY <1>1
    <3>2. l * p \in Int /\ l * MinPrice \in Int
      BY <1>1
    <3>3. l * p - l * MinPrice <= Q96 * (b + x)
      BY <1>1, <1>4, <3>1, <3>2
    <3> QED BY <1>6, <1>9, <3>1, <3>3
  <2>4. a - y = a /\ b - y = b
    BY <2>1
  <2> QED BY <1>9, <2>2, <2>3, <2>4
<1>10. CASE q < p
  <2>1. Covers0(q, MaxPrice, l, a + x)
    <3>1. Covers0(p, q, l, x)
      BY <1>10 DEF PaysIn
    <3>2. l * Gap(p, q) * Q96 = n * p - n * q
      BY <1>1, <1>2, <1>10, Exact0
    <3>3. n * (p - q) = n * p - n * q /\ (p * q) * x = x * (p * q)
      BY <1>1, <1>2
    <3>4. n * (p - q) <= x * (p * q)
      BY <3>1, <3>2, <3>3 DEF Covers0
    <3> QED BY <1>5, <1>7, <3>4
  <2>2. Covers1(MinPrice, q, l, b - y)
    <3>1. Q96 * y <= l * (p - q)
      BY <1>1, <1>10, GapType DEF PaysOut, Within1
    <3>2. Q96 * (b - y) = Q96 * b - Q96 * y /\ l * (p - q) = l * p - l * q
          /\ Q96 * b \in Int /\ Q96 * y \in Int /\ l * p \in Int /\ l * q \in Int /\ l * MinPrice \in Int
      BY <1>1
    <3>3. l * q - l * MinPrice <= Q96 * (b - y)
      BY <1>4, <3>1, <3>2
    <3> QED BY <1>6, <3>3
  <2> QED BY <1>1, <1>10, <2>1, <2>2
<1>11. CASE p < q
  <2>1. Covers0(q, MaxPrice, l, a - y)
    <3>1. Within0(p, q, l, y)
      BY <1>1, <1>11 DEF PaysOut
    <3>2. l * Gap(p, q) * Q96 = n * q - n * p
      BY <1>1, <1>2, <1>11, Exact0
    <3>3. n * (p - q) = n * p - n * q /\ (p * q) * y = -((-y) * (p * q))
          /\ n * p \in Int /\ n * q \in Int /\ (-y) * (p * q) \in Int
      BY <1>1, <1>2
    <3>4. (p * q) * y <= n * q - n * p
      BY <3>1, <3>2 DEF Within0
    <3>5. n * (p - q) <= (-y) * (p * q)
      BY <3>3, <3>4
    <3>6. n * (m - q) <= (a + (-y)) * (q * m)
      BY <1>7, <3>5
    <3>7. a + (-y) = a - y
      OBVIOUS
    <3> QED BY <1>5, <3>6, <3>7
  <2>2. Covers1(MinPrice, q, l, b + x)
    <3>1. l * (q - p) <= Q96 * x
      BY <1>1, <1>11, GapType DEF PaysIn, Covers1
    <3>2. Q96 * (b + x) = Q96 * b + Q96 * x /\ l * (q - p) = l * q - l * p
          /\ Q96 * b \in Int /\ Q96 * x \in Int /\ l * p \in Int /\ l * q \in Int /\ l * MinPrice \in Int
      BY <1>1
    <3>3. l * q - l * MinPrice <= Q96 * (b + x)
      BY <1>4, <3>1, <3>2
    <3> QED BY <1>6, <3>3
  <2> QED BY <1>1, <1>11, <2>1, <2>2
<1> QED BY <1>1, <1>9, <1>10, <1>11

-----------------------------------------------------------------------------
(* The swaps                                                                   *)

\* The pool's fees and its liquidity.
LEMMA Configured ==
  ASSUME RangeInv
  PROVE  /\ liquidity \in Nat \ {0} /\ liquidity * Q96 <= U256Max
         /\ fees[1] \in Fees /\ fees[2] \in Fees
         /\ SwapFeePips \in Fees /\ fees[1] <= SwapFeePips
<1>1. liquidity \in Nat \ {0} /\ liquidity * Q96 <= U256Max /\ fees \in Fees \X Fees
  BY RangeAssumption DEF RangeInv
<1>2. fees[1] \in Fees /\ fees[2] \in Fees
  BY <1>1
<1>3. PICK f \in Fees : CalculateSwapFee(fees[1], fees[2]) = {f} /\ fees[1] <= f
  BY <1>2, CombinedFee
<1>4. SwapFeePips = f
  BY <1>3 DEF SwapFeePips
<1> QED BY <1>1, <1>2, <1>3, <1>4

LEMMA InitRange == Init => RangeInv
<1> SUFFICES ASSUME Init PROVE RangeInv
  OBVIOUS
<1> DEFINE h == Principal(sqrtPrice, TRUE)
<1>1. /\ liquidity \in Liquidities /\ fees \in FeeConfigs /\ sqrtPrice \in Prices
      /\ held = h /\ swap = NoSwap
  BY DEF Init
<1>2. MinPrice \in Prices /\ MaxPrice \in Prices /\ liquidity \in Nat
  BY <1>1, SqrtPriceAssumption, RangeAssumption DEF Prices
<1> DEFINE a == Amount0(sqrtPrice, MaxPrice, liquidity, TRUE)
           b == Amount1(MinPrice, sqrtPrice, liquidity, TRUE)
<1>3. /\ a \in Nat /\ \A k \in Int : a <= k <=> Covers0(sqrtPrice, MaxPrice, liquidity, k)
      /\ b \in Nat /\ \A k \in Int : b <= k <=> Covers1(MinPrice, sqrtPrice, liquidity, k)
  BY <1>1, <1>2, Amount0Up, Amount1Up DEF Covers0, Covers1
<1>4. Backed(h, sqrtPrice)
  <2>1. h = [i \in {0, 1} |-> IF i = 0 THEN a ELSE b]
    BY DEF Principal
  <2> HIDE DEF a, b, h
  <2>2. h[0] = a /\ h[1] = b
    BY <2>1
  <2>3. h \in [{0, 1} -> Int]
    BY <1>3, <2>1
  <2>4. Covers0(sqrtPrice, MaxPrice, liquidity, a) /\ Covers1(MinPrice, sqrtPrice, liquidity, b)
    BY <1>3
  <2> QED BY <2>2, <2>3, <2>4 DEF Backed
<1> HIDE DEF h
<1>5. swap \in Locals /\ ~swap.running
  BY <1>1, <1>2 DEF NoSwap, Locals
<1> QED BY <1>1, <1>4, <1>5 DEF RangeInv, AmountNotExceeded

\* Specified and calculated amounts, told apart by the kind of the swap and by
\* its direction.
PendingParts ==
  /\ Pending \in [{0, 1} -> Int]
  /\ swap.amount < 0 =>
       IF swap.zeroForOne
       THEN /\ Pending[0] = held[0] - (swap.amount - swap.remaining) - swap.charged
            /\ Pending[1] = held[1] - swap.calculated
       ELSE /\ Pending[0] = held[0] - swap.calculated
            /\ Pending[1] = held[1] - (swap.amount - swap.remaining) - swap.charged
  /\ swap.amount > 0 =>
       IF swap.zeroForOne
       THEN /\ Pending[0] = held[0] - swap.calculated - swap.charged
            /\ Pending[1] = held[1] - (swap.amount - swap.remaining)
       ELSE /\ Pending[0] = held[0] - (swap.amount - swap.remaining)
            /\ Pending[1] = held[1] - swap.calculated - swap.charged

LEMMA PendingIs == swap \in Locals /\ held \in [{0, 1} -> Int] => PendingParts
<1> SUFFICES ASSUME swap \in Locals, held \in [{0, 1} -> Int] PROVE PendingParts
  OBVIOUS
<1>1. swap \in Locals /\ held \in [{0, 1} -> Int]
  OBVIOUS
<1>2. /\ swap.amount \in Int /\ swap.remaining \in Int /\ swap.calculated \in Int
      /\ swap.charged \in Int /\ swap.zeroForOne \in BOOLEAN
  BY <1>1 DEF Locals
<1>3. held[0] \in Int /\ held[1] \in Int
  BY <1>1
<1>4. /\ Pending[0] = held[0] - SwapDelta[0] - (IF 0 = InToken THEN swap.charged ELSE 0)
      /\ Pending[1] = held[1] - SwapDelta[1] - (IF 1 = InToken THEN swap.charged ELSE 0)
      /\ Pending = [i \in {0, 1} |-> Pending[i]]
  BY DEF Pending
<1>5. /\ SwapDelta[0] = IF (TRUE = (swap.zeroForOne = (swap.amount < 0)))
                        THEN swap.amount - swap.remaining ELSE swap.calculated
      /\ SwapDelta[1] = IF (FALSE = (swap.zeroForOne = (swap.amount < 0)))
                        THEN swap.amount - swap.remaining ELSE swap.calculated
  BY DEF SwapDelta
<1>6. InToken = IF swap.zeroForOne THEN 0 ELSE 1
  BY DEF InToken
<1>7. SwapDelta[0] \in Int /\ SwapDelta[1] \in Int
  BY <1>2, <1>5
<1>8. Pending[0] \in Int /\ Pending[1] \in Int
  BY <1>2, <1>3, <1>4, <1>7
<1>9. Pending \in [{0, 1} -> Int]
  <2> DEFINE g == Pending
  <2> HIDE DEF g
  <2>1. g = [i \in {0, 1} |-> g[i]] /\ g[0] \in Int /\ g[1] \in Int
    BY <1>4, <1>8 DEF g
  <2>2. g \in [{0, 1} -> Int]
    BY <2>1
  <2> QED BY <2>2 DEF g
<1>10. /\ swap.amount < 0 => SwapDelta[0] = (IF swap.zeroForOne THEN swap.amount - swap.remaining ELSE swap.calculated)
                          /\ SwapDelta[1] = (IF swap.zeroForOne THEN swap.calculated ELSE swap.amount - swap.remaining)
       /\ swap.amount > 0 => SwapDelta[0] = (IF swap.zeroForOne THEN swap.calculated ELSE swap.amount - swap.remaining)
                          /\ SwapDelta[1] = (IF swap.zeroForOne THEN swap.amount - swap.remaining ELSE swap.calculated)
  BY <1>2, <1>5
<1>11. CASE swap.zeroForOne
  BY <1>2, <1>3, <1>4, <1>6, <1>9, <1>10, <1>11 DEF PendingParts
<1>12. CASE ~swap.zeroForOne
  BY <1>2, <1>3, <1>4, <1>6, <1>9, <1>10, <1>12 DEF PendingParts
<1> QED BY <1>11, <1>12

\* A step that can be taken is a good one, and pays the protocol its share.
LEMMA StepIsGood ==
  ASSUME RangeInv, swap.running, LoopRuns, NEW t \in Targets
  PROVE  /\ swap.sqrtPrice \in Prices /\ t \in Prices /\ swap.remaining \in Int \ {0}
         /\ swap.remaining < 0 <=> swap.amount < 0
         /\ SwapFeePips = MaxFee /\ swap.amount > 0 => StepTo(t) = {}
         /\ ~(SwapFeePips = MaxFee /\ swap.amount > 0) =>
              \E s : /\ StepTo(t) = {s} /\ Share(s) \in Nat /\ Share(s) <= s.fee
                     /\ GoodStep(s, swap.sqrtPrice, t, liquidity, swap.remaining, SwapFeePips)
<1> DEFINE p == swap.sqrtPrice
           r == swap.remaining
           f == SwapFeePips
           l == liquidity
<1>1. swap \in Locals /\ swap.amount # 0 /\ AmountNotExceeded
      /\ IF swap.zeroForOne THEN swap.limit <= p ELSE p <= swap.limit
  BY DEF RangeInv
<1>2. /\ p \in Prices /\ swap.limit \in Prices /\ r \in Int /\ swap.amount \in Int
      /\ MinPrice \in Int /\ MaxPrice \in Int
  BY <1>1, SqrtPriceAssumption DEF Locals
<1>3. t \in Prices
  <2>1. t \in swap.limit .. p \/ t \in p .. swap.limit
    BY DEF Targets
  <2> HIDE DEF p
  <2> QED BY <1>2, <2>1 DEF Prices
<1>4. r # 0
  BY DEF LoopRuns
<1>5. IF swap.amount > 0 THEN r \in 0 .. swap.amount ELSE r \in swap.amount .. 0
  BY <1>1 DEF AmountNotExceeded
<1>6. r < 0 <=> swap.amount < 0
  <2> HIDE DEF r
  <2> QED BY <1>1, <1>2, <1>4, <1>5
<1>7. l \in Nat \ {0} /\ l * Q96 <= U256Max /\ fees[1] \in Fees /\ f \in Fees /\ fees[1] <= f
  BY Configured
<1>8. StepTo(t) = CASE r = 0 -> {[price |-> p, in |-> 0, out |-> 0, fee |-> 0]}
                    [] r < 0 -> ComputeExactIn(p, t, l, -r, f)
                    [] r > 0 /\ f = MaxFee -> {}
                    [] OTHER -> ComputeExactOut(p, t, l, r, f)
  BY DEF StepTo, ComputeSwapStep
<1> HIDE DEF p, r, f, l
<1>9. ASSUME NEW s, GoodStep(s, p, t, l, r, f)
      PROVE  Share(s) \in Nat /\ Share(s) <= s.fee
  <2>1. s.in \in Nat /\ s.fee \in Nat /\ s.fee = CeilDiv(f * (s.in + s.fee), MaxFee)
    BY <1>9 DEF GoodStep
  <2>2. ProtocolShare(s.in, s.fee, f, fees[1]) \in Nat /\ ProtocolShare(s.in, s.fee, f, fees[1]) <= s.fee
    BY <1>7, <2>1, ShareOfFee
  <2> QED BY <2>2 DEF Share, f
<1>10. ASSUME r < 0 PROVE \E s : StepTo(t) = {s} /\ GoodStep(s, p, t, l, r, f)
  <2> DEFINE k == -r
  <2>1. k \in Nat \ {0} /\ -k = r /\ StepTo(t) = ComputeExactIn(p, t, l, k, f)
    BY <1>2, <1>8, <1>10
  <2> HIDE DEF k
  <2>2. \E s : ComputeExactIn(p, t, l, k, f) = {s} /\ GoodStep(s, p, t, l, -k, f)
    BY <1>2, <1>3, <1>7, <2>1, ExactInStep
  <2> QED BY <2>1, <2>2
<1>11. ASSUME r > 0, f # MaxFee PROVE \E s : StepTo(t) = {s} /\ GoodStep(s, p, t, l, r, f)
  <2>1. r \in Nat \ {0} /\ StepTo(t) = ComputeExactOut(p, t, l, r, f)
    BY <1>2, <1>8, <1>11
  <2> QED BY <1>2, <1>3, <1>7, <1>11, <2>1, ExactOutStep
<1>12. ASSUME r > 0, f = MaxFee PROVE StepTo(t) = {}
  BY <1>2, <1>8, <1>12
<1>13. swap.amount > 0 <=> r > 0
  BY <1>1, <1>2, <1>4, <1>6
<1>14. ASSUME ~(f = MaxFee /\ swap.amount > 0)
       PROVE  \E s : /\ StepTo(t) = {s} /\ Share(s) \in Nat /\ Share(s) <= s.fee
                     /\ GoodStep(s, p, t, l, r, f)
  <2>1. \E s : StepTo(t) = {s} /\ GoodStep(s, p, t, l, r, f)
    BY <1>2, <1>4, <1>10, <1>11, <1>13, <1>14
  <2> QED BY <1>9, <2>1
<1> QED BY <1>2, <1>3, <1>4, <1>6, <1>12, <1>13, <1>14 DEF p, r, f, l

\* What a step of a swap changes.
LEMMA StepEffect ==
  ASSUME RangeInv, NEW t \in Targets, SwapStep(t)
  PROVE  \E s :
           /\ GoodStep(s, swap.sqrtPrice, t, liquidity, swap.remaining, SwapFeePips)
           /\ swap.running /\ swap.sqrtPrice \in Prices /\ t \in Prices
           /\ swap.remaining \in Int \ {0} /\ (swap.remaining < 0 <=> swap.amount < 0)
           /\ swap' \in Locals /\ swap'.running
           /\ swap'.zeroForOne = swap.zeroForOne /\ swap'.limit = swap.limit
           /\ swap'.amount = swap.amount /\ swap'.sqrtPrice = s.price /\ swap'.target = t
           /\ swap'.remaining = IF swap.amount > 0 THEN swap.remaining - s.out
                                ELSE swap.remaining + s.in + s.fee
           /\ swap'.calculated = IF swap.amount > 0 THEN swap.calculated - (s.in + s.fee)
                                 ELSE swap.calculated + s.out
           /\ swap'.charged = swap.charged + s.fee
           /\ UNCHANGED <<liquidity, fees, sqrtPrice, held>>
<1>1. swap.running /\ LoopRuns /\ UNCHANGED <<liquidity, fees, sqrtPrice, held>>
  BY DEF SwapStep
<1>2. PICK s \in StepTo(t) :
        swap' = [swap EXCEPT
            !.sqrtPrice  = s.price,
            !.target     = t,
            !.remaining  = IF swap.amount > 0 THEN @ - s.out ELSE @ + s.in + s.fee,
            !.calculated = IF swap.amount > 0 THEN @ - (s.in + s.fee) ELSE @ + s.out,
            !.charged    = @ + s.fee,
            !.toProtocol = @ + Share(s)]
  BY DEF SwapStep
<1>3. /\ swap.sqrtPrice \in Prices /\ t \in Prices /\ swap.remaining \in Int \ {0}
      /\ swap.remaining < 0 <=> swap.amount < 0
      /\ Share(s) \in Nat
      /\ GoodStep(s, swap.sqrtPrice, t, liquidity, swap.remaining, SwapFeePips)
  <2>1. ~(SwapFeePips = MaxFee /\ swap.amount > 0)
    BY <1>1, <1>2, StepIsGood
  <2>2. PICK u : /\ StepTo(t) = {u} /\ Share(u) \in Nat /\ Share(u) <= u.fee
                 /\ GoodStep(u, swap.sqrtPrice, t, liquidity, swap.remaining, SwapFeePips)
    BY <1>1, <2>1, StepIsGood
  <2>3. s = u
    BY <1>2, <2>2
  <2> QED BY <1>1, <2>2, <2>3, StepIsGood
<1>4. s.price \in Prices /\ s.in \in Nat /\ s.out \in Nat /\ s.fee \in Nat
  BY <1>3 DEF GoodStep
<1> DEFINE share == Share(s)
           r == IF swap.amount > 0 THEN swap.remaining - s.out ELSE swap.remaining + s.in + s.fee
           c == IF swap.amount > 0 THEN swap.calculated - (s.in + s.fee) ELSE swap.calculated + s.out
           g == swap.charged + s.fee
           o == swap.toProtocol + share
<1>5. swap' = [swap EXCEPT !.sqrtPrice = s.price, !.target = t, !.remaining = r, !.calculated = c,
                           !.charged = g, !.toProtocol = o]
  BY <1>2
<1>6. swap \in Locals
  BY DEF RangeInv
<1> HIDE DEF share
<1>7. r \in Int /\ c \in Int /\ g \in Int /\ o \in Int
  <2>1. share \in Int
    BY <1>3 DEF share
  <2> QED BY <1>4, <1>6, <2>1 DEF Locals
<1> HIDE DEF r, c, g, o
<1>8. /\ swap' \in Locals /\ swap'.running = swap.running
      /\ swap'.zeroForOne = swap.zeroForOne /\ swap'.limit = swap.limit
      /\ swap'.amount = swap.amount /\ swap'.sqrtPrice = s.price /\ swap'.target = t
      /\ swap'.remaining = r /\ swap'.calculated = c /\ swap'.charged = g
  BY <1>3, <1>4, <1>5, <1>6, <1>7 DEF Locals
<1> QED BY <1>1, <1>3, <1>8 DEF r, c, g

LEMMA SwapStepRange ==
  ASSUME RangeInv, NEW t \in Targets, SwapStep(t)
  PROVE  RangeInv'
<1> DEFINE p == swap.sqrtPrice
           zeroForOne == swap.zeroForOne
<1>1. PICK s :
           /\ GoodStep(s, p, t, liquidity, swap.remaining, SwapFeePips)
           /\ swap.running /\ p \in Prices /\ t \in Prices
           /\ swap.remaining \in Int \ {0} /\ (swap.remaining < 0 <=> swap.amount < 0)
           /\ swap' \in Locals /\ swap'.running
           /\ swap'.zeroForOne = swap.zeroForOne /\ swap'.limit = swap.limit
           /\ swap'.amount = swap.amount /\ swap'.sqrtPrice = s.price /\ swap'.target = t
           /\ swap'.remaining = IF swap.amount > 0 THEN swap.remaining - s.out
                                ELSE swap.remaining + s.in + s.fee
           /\ swap'.calculated = IF swap.amount > 0 THEN swap.calculated - (s.in + s.fee)
                                 ELSE swap.calculated + s.out
           /\ swap'.charged = swap.charged + s.fee
           /\ UNCHANGED <<liquidity, fees, sqrtPrice, held>>
  BY StepEffect
<1>2. /\ s.price \in Prices /\ Between(s.price, p, t) /\ s.in \in Nat /\ s.out \in Nat /\ s.fee \in Nat
      /\ IF swap.remaining < 0 THEN s.in + s.fee <= -swap.remaining ELSE s.out <= swap.remaining
      /\ PaysIn(p, s.price, liquidity, s.in) /\ PaysOut(p, s.price, liquidity, s.out)
  BY <1>1 DEF GoodStep
<1>3. swap \in Locals /\ swap.amount # 0 /\ AmountNotExceeded /\ Backed(held, sqrtPrice)
      /\ (IF zeroForOne THEN swap.limit <= p ELSE p <= swap.limit)
      /\ Backed(Pending, p)
  BY <1>1 DEF RangeInv
<1>4. /\ swap.amount \in Int /\ swap.remaining \in Int /\ swap.calculated \in Int /\ swap.charged \in Int
      /\ swap.limit \in Prices /\ zeroForOne \in BOOLEAN
      /\ held[0] \in Int /\ held[1] \in Int
  BY <1>3 DEF Locals, Backed
<1>5. AmountNotExceeded'
  <2>1. IF swap.amount > 0 THEN swap.remaining \in 0 .. swap.amount ELSE swap.remaining \in swap.amount .. 0
    BY <1>1, <1>3 DEF AmountNotExceeded
  <2>2. IF swap'.amount > 0 THEN swap'.remaining \in 0 .. swap'.amount
                            ELSE swap'.remaining \in swap'.amount .. 0
    <3> HIDE DEF p, zeroForOne
    <3>1. CASE swap.amount > 0
      BY <1>1, <1>2, <1>4, <2>1, <3>1
    <3>2. CASE ~(swap.amount > 0)
      <4>1. swap.remaining < 0
        BY <1>1, <1>3, <1>4, <3>2
      <4> QED BY <1>1, <1>2, <1>4, <2>1, <3>2, <4>1
    <3> QED BY <3>1, <3>2
  <2> QED BY <2>2 DEF AmountNotExceeded
<1>6. IF zeroForOne THEN swap.limit <= s.price /\ s.price <= p ELSE p <= s.price /\ s.price <= swap.limit
  <2>1. IF zeroForOne THEN t \in swap.limit .. p ELSE t \in p .. swap.limit
    BY DEF Targets
  <2>2. p \in Nat /\ swap.limit \in Nat /\ s.price \in Nat /\ t \in Nat
    BY <1>1, <1>2, <1>4, PriceType
  <2> HIDE DEF p, zeroForOne
  <2> QED BY <1>2, <1>4, <2>1, <2>2 DEF Between
<1>7. /\ Pending' \in [{0, 1} -> Int]
      /\ IF zeroForOne THEN Pending'[0] = Pending[0] + s.in /\ Pending'[1] = Pending[1] - s.out
                       ELSE Pending'[0] = Pending[0] - s.out /\ Pending'[1] = Pending[1] + s.in
  <2>1. held' = held /\ held \in [{0, 1} -> Int]
    BY <1>1, <1>3 DEF Backed
  <2>2. PendingParts
    BY <1>3, <2>1, PendingIs
  <2>3. (swap \in Locals /\ held \in [{0, 1} -> Int])'
    BY <1>1, <2>1
  <2>4. PendingParts'
    BY <2>3, PendingIs, PTL
  <2> HIDE DEF p, zeroForOne
  <2>5. CASE swap.amount < 0
    <3>1. swap'.remaining = swap.remaining + s.in + s.fee /\ swap'.calculated = swap.calculated + s.out
      BY <1>1, <1>4, <2>5
    <3>2. CASE swap.zeroForOne
      BY <1>1, <1>2, <1>4, <2>1, <2>2, <2>4, <2>5, <3>1, <3>2 DEF PendingParts, zeroForOne
    <3>3. CASE ~swap.zeroForOne
      BY <1>1, <1>2, <1>4, <2>1, <2>2, <2>4, <2>5, <3>1, <3>3 DEF PendingParts, zeroForOne
    <3> QED BY <3>2, <3>3
  <2>6. CASE swap.amount > 0
    <3>1. swap'.remaining = swap.remaining - s.out /\ swap'.calculated = swap.calculated - (s.in + s.fee)
      BY <1>1, <1>4, <2>6
    <3>2. CASE swap.zeroForOne
      BY <1>1, <1>2, <1>4, <2>1, <2>2, <2>4, <2>6, <3>1, <3>2 DEF PendingParts, zeroForOne
    <3>3. CASE ~swap.zeroForOne
      BY <1>1, <1>2, <1>4, <2>1, <2>2, <2>4, <2>6, <3>1, <3>3 DEF PendingParts, zeroForOne
    <3> QED BY <3>2, <3>3
  <2> QED BY <1>3, <1>4, <2>5, <2>6
<1>8. Covers0(s.price, MaxPrice, liquidity, Pending'[0])
      /\ Covers1(MinPrice, s.price, liquidity, Pending'[1])
  <2> DEFINE a == Pending[0]
             b == Pending[1]
             q == s.price
             l == liquidity
  <2>1. Covers0(p, MaxPrice, l, a) /\ Covers1(MinPrice, p, l, b) /\ a \in Int /\ b \in Int
    BY <1>3 DEF Backed
  <2>2. l \in Nat \ {0}
    BY Configured
  <2>3. q \in Prices /\ PaysIn(p, q, l, s.in) /\ PaysOut(p, q, l, s.out)
    BY <1>2
  <2> HIDE DEF a, b, q, l, p
  <2>4. /\ q <= p => Covers0(q, MaxPrice, l, a + s.in) /\ Covers1(MinPrice, q, l, b - s.out)
        /\ p <= q => Covers0(q, MaxPrice, l, a - s.out) /\ Covers1(MinPrice, q, l, b + s.in)
    BY <1>1, <1>2, <2>1, <2>2, <2>3, BackedMove
  <2>5. CASE zeroForOne
    <3>1. q <= p
      BY <1>6, <2>5 DEF q
    <3> QED BY <1>7, <2>4, <2>5, <3>1 DEF a, b, q, l
  <2>6. CASE ~zeroForOne
    <3>1. p <= q
      BY <1>6, <2>6 DEF q
    <3> QED BY <1>7, <2>4, <2>6, <3>1 DEF a, b, q, l
  <2> QED BY <2>5, <2>6
<1>9. Backed(Pending, swap.sqrtPrice)'
  BY <1>1, <1>7, <1>8 DEF Backed
<1>10. Backed(held, sqrtPrice)'
  BY <1>1, <1>3 DEF Backed
<1>11. liquidity' \in Liquidities /\ fees' \in FeeConfigs /\ sqrtPrice' \in Prices
  BY <1>1 DEF RangeInv
<1>12. swap'.amount # 0
       /\ IF swap'.zeroForOne THEN swap'.limit <= swap'.sqrtPrice ELSE swap'.sqrtPrice <= swap'.limit
  BY <1>1, <1>3, <1>6
<1> QED BY <1>1, <1>5, <1>9, <1>10, <1>11, <1>12 DEF RangeInv

LEMMA NoSwapType == NoSwap \in Locals /\ NoSwap.running = FALSE
<1>1. MinPrice \in Prices
  BY SqrtPriceAssumption DEF Prices
<1> QED BY <1>1 DEF NoSwap, Locals

LEMMA SwapBeginRange ==
  ASSUME RangeInv, NEW zeroForOne \in BOOLEAN, NEW amount \in Amounts, NEW limit \in Limits,
         SwapBegin(zeroForOne, amount, limit)
  PROVE  RangeInv'
<1>1. /\ ~swap.running /\ UNCHANGED <<liquidity, fees, sqrtPrice, held>>
      /\ IF zeroForOne THEN limit < sqrtPrice ELSE limit > sqrtPrice
      /\ swap' = [NoSwap EXCEPT !.running = TRUE, !.zeroForOne = zeroForOne,
                !.limit = limit, !.amount = amount, !.remaining = amount,
                !.sqrtPrice = sqrtPrice, !.target = sqrtPrice]
  BY DEF SwapBegin
<1>2. amount \in Int \ {0} /\ limit \in Prices /\ sqrtPrice \in Prices /\ Backed(held, sqrtPrice)
  BY RangeAssumption DEF RangeInv
<1>3. limit \in Nat /\ sqrtPrice \in Nat
  BY <1>2, PriceType
<1>4. /\ swap' \in Locals /\ swap'.zeroForOne = zeroForOne /\ swap'.limit = limit
      /\ swap'.amount = amount /\ swap'.remaining = amount /\ swap'.sqrtPrice = sqrtPrice
      /\ swap'.calculated = 0 /\ swap'.charged = 0
  BY <1>1, <1>2, NoSwapType DEF Locals, NoSwap
<1>5. (swap \in Locals /\ held \in [{0, 1} -> Int])'
  BY <1>1, <1>2, <1>4 DEF Backed
<1>6. PendingParts'
  BY <1>5, PendingIs, PTL
<1>7. Pending'[0] = held[0] /\ Pending'[1] = held[1] /\ Pending' \in [{0, 1} -> Int]
  <2>1. held' = held /\ held[0] \in Int /\ held[1] \in Int
    BY <1>1, <1>2 DEF Backed
  <2>2. amount < 0 \/ amount > 0
    BY <1>2
  <2>3. CASE amount < 0
    BY <1>2, <1>4, <1>6, <2>1, <2>3 DEF PendingParts
  <2>4. CASE amount > 0
    BY <1>2, <1>4, <1>6, <2>1, <2>4 DEF PendingParts
  <2> QED BY <2>2, <2>3, <2>4
<1>8. Backed(Pending, swap.sqrtPrice)' /\ Backed(held, sqrtPrice)'
  BY <1>1, <1>2, <1>4, <1>7 DEF Backed
<1>9. AmountNotExceeded'
  BY <1>2, <1>4 DEF AmountNotExceeded
<1>10. IF swap'.zeroForOne THEN swap'.limit <= swap'.sqrtPrice ELSE swap'.sqrtPrice <= swap'.limit
  BY <1>1, <1>3, <1>4
<1> QED BY <1>1, <1>2, <1>4, <1>8, <1>9, <1>10 DEF RangeInv

LEMMA SwapFailRange == RangeInv /\ SwapFail => RangeInv'
<1> SUFFICES ASSUME RangeInv, SwapFail PROVE RangeInv'
  OBVIOUS
<1>1. swap' = NoSwap /\ UNCHANGED <<liquidity, fees, sqrtPrice, held>>
  BY DEF SwapFail
<1>2. swap' \in Locals /\ ~swap'.running
  BY <1>1, NoSwapType
<1> QED BY <1>1, <1>2 DEF RangeInv, Backed, AmountNotExceeded

LEMMA SwapCommitRange == RangeInv /\ SwapCommit => RangeInv'
<1> SUFFICES ASSUME RangeInv, SwapCommit PROVE RangeInv'
  OBVIOUS
<1>1. /\ swap.running /\ swap' = NoSwap /\ UNCHANGED <<liquidity, fees>>
      /\ sqrtPrice' = swap.sqrtPrice /\ held' = Pending
  BY DEF SwapCommit, Pending
<1>2. swap' \in Locals /\ ~swap'.running
  BY <1>1, NoSwapType
<1>3. swap.sqrtPrice \in Prices /\ Backed(Pending, swap.sqrtPrice)
  BY <1>1 DEF RangeInv, Locals
<1>4. Backed(held, sqrtPrice)'
  BY <1>1, <1>3 DEF Backed
<1> QED BY <1>1, <1>2, <1>3, <1>4 DEF RangeInv, AmountNotExceeded

LEMMA NextRange == RangeInv /\ [Next]_vars => RangeInv'
<1> SUFFICES ASSUME RangeInv, [Next]_vars PROVE RangeInv'
  OBVIOUS
<1>1. ASSUME NEW zeroForOne \in BOOLEAN, NEW amount \in Amounts, NEW limit \in Limits,
             SwapBegin(zeroForOne, amount, limit)
      PROVE  RangeInv'
  BY <1>1, SwapBeginRange
<1>2. ASSUME NEW t \in Targets, SwapStep(t) PROVE RangeInv'
  BY <1>2, SwapStepRange
<1>3. CASE SwapFail
  BY <1>3, SwapFailRange
<1>4. CASE SwapCommit
  BY <1>4, SwapCommitRange
<1>5. CASE UNCHANGED vars
  BY <1>5 DEF vars, RangeInv, Backed, AmountNotExceeded, Pending, SwapDelta, InToken
<1> QED BY <1>1, <1>2, <1>3, <1>4, <1>5 DEF Next

LEMMA RangeInvariant == Spec => []RangeInv
BY InitRange, NextRange, PTL DEF Spec

-----------------------------------------------------------------------------
\* For every price range, fixed-point unit, liquidity, fee, amount and limit,
\* and wherever the steps of the swaps end: the pool can pay its position back.
\* What a swap pays is rounded up and what it receives rounded down, and each
\* price is rounded to the pool's side: sqrt_price.rs, swap.rs.
THEOREM StaysSolvent == Spec => []Solvent
<1>1. RangeInv => Solvent
  <2> SUFFICES ASSUME RangeInv PROVE \A i \in {0, 1} : held[i] >= Principal(sqrtPrice, FALSE)[i]
    BY DEF Solvent
  <2> DEFINE a == Amount0(sqrtPrice, MaxPrice, liquidity, FALSE)
             b == Amount1(MinPrice, sqrtPrice, liquidity, FALSE)
             d == sqrtPrice * MaxPrice
             n == liquidity * Gap(sqrtPrice, MaxPrice) * Q96
             m == liquidity * Gap(MinPrice, sqrtPrice)
  <2>1. /\ sqrtPrice \in Prices /\ MaxPrice \in Prices /\ MinPrice \in Prices
        /\ liquidity \in Nat /\ held[0] \in Int /\ held[1] \in Int /\ Q96 \in Nat \ {0}
        /\ n <= d * held[0] /\ m <= Q96 * held[1]
    BY SqrtPriceAssumption, Configured DEF RangeInv, Backed, Prices, Covers0, Covers1
  <2>2. d \in Nat \ {0} /\ n \in Int /\ m \in Int
    BY <2>1, PriceType, GapType
  <2>3. a \in Nat /\ d * a <= n
    <3>1. a \in Nat /\ \A k \in Int : k <= a <=> d * k <= n
      BY <2>1, Amount0Down
    <3> HIDE DEF a, d, n
    <3> QED BY <3>1
  <2>4. b \in Nat /\ Q96 * b <= m
    <3>1. b \in Nat /\ \A k \in Int : k <= b <=> Q96 * k <= m
      BY <2>1, Amount1Down
    <3> HIDE DEF b, m
    <3> QED BY <3>1
  <2>5. Principal(sqrtPrice, FALSE)[0] = a /\ Principal(sqrtPrice, FALSE)[1] = b
    BY DEF Principal
  <2> HIDE DEF a, b, d, n, m
  <2>6. a <= held[0]
    <3>1. d * a <= d * held[0]
      BY <2>1, <2>2, <2>3
    <3> QED BY <2>1, <2>2, <2>3, <3>1, CancelFactor
  <2>7. b <= held[1]
    <3>1. Q96 * b <= Q96 * held[1]
      BY <2>1, <2>2, <2>4
    <3> QED BY <2>1, <2>4, <3>1, CancelFactor
  <2> QED BY <2>1, <2>3, <2>4, <2>5, <2>6, <2>7
<1> QED BY <1>1, RangeInvariant, PTL

\* No swap takes or pays out more of the amount it was given, however its steps
\* end: amount_specified_remaining never changes its sign.
THEOREM ExactAmountsKept == Spec => []AmountNotExceeded
<1>1. RangeInv => AmountNotExceeded
  BY DEF RangeInv
<1> QED BY <1>1, RangeInvariant, PTL

\* Inside a range no legal swap fails, at any price and up to any target: the
\* next price exists and lies before the target, the virtual reserve is never
\* asked for more than it has, and the protocol's share is part of the fee.
THEOREM SwapsSucceed == Spec => []StepsSucceed
<1>1. RangeInv => StepsSucceed
  <2> SUFFICES ASSUME RangeInv, swap.running /\ LoopRuns,
                      ~(SwapFeePips = MaxFee /\ swap.amount > 0), NEW t \in Targets
               PROVE  ~StepFails(t)
    BY DEF StepsSucceed
  <2>1. PICK s : /\ StepTo(t) = {s} /\ Share(s) \in Nat /\ Share(s) <= s.fee
                 /\ GoodStep(s, swap.sqrtPrice, t, liquidity, swap.remaining, SwapFeePips)
    BY StepIsGood
  <2>2. s.fee \in Nat
    BY <2>1 DEF GoodStep
  <2>3. ~(Share(s) > s.fee)
    BY <2>1, <2>2
  <2> QED BY <2>1, <2>3, Zenon DEF StepFails
<1> QED BY <1>1, RangeInvariant, PTL

\* Only a step of the loop keeps a swap running.
LEMMA RunningStep ==
  ASSUME RangeInv, [Next]_vars, swap.running, swap'.running
  PROVE  (\E t \in Targets : SwapStep(t)) \/ UNCHANGED vars
<1>1. ~SwapFail /\ ~SwapCommit
  BY NoSwapType DEF SwapFail, SwapCommit
<1>2. ASSUME NEW zeroForOne \in BOOLEAN, NEW amount \in Amounts, NEW limit \in Limits
      PROVE  ~SwapBegin(zeroForOne, amount, limit)
  BY DEF SwapBegin
<1> QED BY <1>1, <1>2 DEF Next

\* What a step does to a running swap, as its caller sees it.
LEMMA StepSeen ==
  ASSUME RangeInv, NEW t \in Targets, SwapStep(t)
  PROVE  /\ Between(swap'.sqrtPrice, swap.sqrtPrice, swap'.target)
         /\ swap'.sqrtPrice # swap'.target => swap'.remaining = 0
         /\ swap.sqrtPrice = swap'.target => swap'.remaining = swap.remaining
         /\ swap'.charged - swap.charged = CeilDiv(SwapFeePips * (Paid' - Paid), MaxFee)
<1>1. PICK s :
           /\ GoodStep(s, swap.sqrtPrice, t, liquidity, swap.remaining, SwapFeePips)
           /\ swap.running /\ swap.sqrtPrice \in Prices /\ t \in Prices
           /\ swap.remaining \in Int \ {0} /\ (swap.remaining < 0 <=> swap.amount < 0)
           /\ swap' \in Locals /\ swap'.running
           /\ swap'.zeroForOne = swap.zeroForOne /\ swap'.limit = swap.limit
           /\ swap'.amount = swap.amount /\ swap'.sqrtPrice = s.price /\ swap'.target = t
           /\ swap'.remaining = IF swap.amount > 0 THEN swap.remaining - s.out
                                ELSE swap.remaining + s.in + s.fee
           /\ swap'.calculated = IF swap.amount > 0 THEN swap.calculated - (s.in + s.fee)
                                 ELSE swap.calculated + s.out
           /\ swap'.charged = swap.charged + s.fee
           /\ UNCHANGED <<liquidity, fees, sqrtPrice, held>>
  BY StepEffect
<1>2. /\ s.price \in Prices /\ Between(s.price, swap.sqrtPrice, t)
      /\ s.in \in Nat /\ s.out \in Nat /\ s.fee \in Nat
      /\ s.fee = CeilDiv(SwapFeePips * (s.in + s.fee), MaxFee)
      /\ s.price # t => IF swap.remaining < 0 THEN s.in + s.fee = -swap.remaining
                                              ELSE s.out = swap.remaining
      /\ swap.sqrtPrice = t => s.in = 0 /\ s.fee = 0 /\ s.out = 0
  BY <1>1 DEF GoodStep
<1>3. swap.amount \in Int \ {0} /\ swap.remaining \in Int /\ swap.calculated \in Int /\ swap.charged \in Int
  BY <1>1 DEF RangeInv, Locals
<1>4. Paid' - Paid = s.in + s.fee
  <2>1. CASE swap.amount < 0
    <3>1. Paid = swap.remaining - swap.amount /\ Paid' = swap'.remaining - swap.amount
      BY <1>1, <2>1 DEF Paid
    <3>2. swap'.remaining = swap.remaining + s.in + s.fee
      BY <1>1, <1>3, <2>1
    <3> QED BY <1>2, <1>3, <3>1, <3>2
  <2>2. CASE ~(swap.amount < 0)
    <3>1. Paid = -swap.calculated /\ Paid' = -swap'.calculated
      BY <1>1, <2>2 DEF Paid
    <3>2. swap'.calculated = swap.calculated - (s.in + s.fee)
      BY <1>1, <1>3, <2>2
    <3> QED BY <1>2, <1>3, <3>1, <3>2
  <2> QED BY <2>1, <2>2
<1>5. swap'.charged - swap.charged = s.fee
  BY <1>1, <1>2, <1>3
<1>6. s.price # t => swap'.remaining = 0
  BY <1>1, <1>2, <1>3
<1>7. swap.sqrtPrice = t => swap'.remaining = swap.remaining
  BY <1>1, <1>2, <1>3
<1> QED BY <1>1, <1>2, <1>4, <1>5, <1>6, <1>7

\* The contract module Pool assumes of a step, whatever the prices, the
\* liquidity and the fees: the step ends between its start and its target,
\* short of the target only when the amount is used up, and an empty step uses
\* nothing.  The rounding of the next price never overshoots: compute_swap_step.
THEOREM ContractHonoured == Spec => StepHonoursContract
<1>1. RangeInv /\ [Next]_vars =>
        [swap.running /\ swap'.running =>
           /\ Between(swap'.sqrtPrice, swap.sqrtPrice, swap'.target)
           /\ swap'.sqrtPrice # swap'.target => swap'.remaining = 0
           /\ swap.sqrtPrice = swap'.target => swap'.remaining = swap.remaining]_vars
  BY RunningStep, StepSeen
<1> QED BY <1>1, RangeInvariant, PTL DEF Spec, StepHonoursContract

\* Every step charges the rate of what the caller pays in it, rounded up once:
\* the fee on top of a full fill's input and the change a partial fill leaves
\* over come to the same.
THEOREM FeeIsRate == Spec => FeeIsRateOfPayment
<1>1. RangeInv /\ [Next]_vars =>
        [swap.running /\ swap'.running =>
           swap'.charged - swap.charged = CeilDiv(SwapFeePips * (Paid' - Paid), MaxFee)]_vars
  BY RunningStep, StepSeen
<1> QED BY <1>1, RangeInvariant, PTL DEF Spec, FeeIsRateOfPayment

-----------------------------------------------------------------------------
(* The wide arithmetic: words and trailing zeros                               *)

LEMMA WordType == Word \in Nat \ {0, 1} /\ Width \in Nat \ {0} /\ Words = 0 .. Word - 1
<1>1. Width \in Nat \ {0}
  BY FullMathAssumption
<1>2. Width - 1 \in Nat /\ Width = (Width - 1) + 1
  BY <1>1
<1>3. 2^Width = 2 * 2^(Width - 1) /\ 2^(Width - 1) \in Nat \ {0}
  BY <1>2, PowNext, PowType
<1> QED BY <1>1, <1>3 DEF Word, Words

\* A word is a power of two times an odd number.
LEMMA OddPart ==
  ASSUME NEW x \in 1 .. Word - 1
  PROVE  /\ TrailingZeros(x) \in 0 .. Width - 1
         /\ \E m \in Nat : x = 2^TrailingZeros(x) * m /\ m % 2 = 1
<1> DEFINE Bad == {k \in 0 .. Width : x % 2^k # 0}
<1>1. Width \in Nat /\ \A k \in 0 .. Width : 2^k \in Nat \ {0}
  BY WordType, PowType
<1>2. Width \in Bad
  <2>1. x = Word * 0 + x /\ x \in 0 .. Word - 1 /\ Word \in Nat \ {0} /\ x \in Int
    BY WordType
  <2>2. x % Word = x
    BY <2>1, QuotientIs
  <2> QED BY <1>1, <2>2 DEF Word
<1>3. PICK k \in Bad : \A j \in Bad : k <= j
  <2>1. Bad \in SUBSET Nat
    BY <1>1
  <2> HIDE DEF Bad
  <2> QED BY <1>2, <2>1, LeastNatural
<1>4. k # 0
  <2>1. x = 1 * x + 0 /\ 0 \in 0 .. 1 - 1 /\ x \in Int /\ 1 \in Nat \ {0}
    OBVIOUS
  <2>2. x % 1 = 0
    BY <2>1, QuotientIs
  <2> QED BY <1>3, <2>2, PowZero
<1> DEFINE s == k - 1
<1>5. s \in 0 .. Width - 1 /\ s + 1 = k /\ x % 2^s = 0 /\ x % 2^(s + 1) # 0
  <2>1. s \in 0 .. Width - 1 /\ s + 1 = k
    BY <1>1, <1>3, <1>4
  <2>2. s \notin Bad
    BY <1>3, <2>1
  <2> QED BY <1>1, <1>3, <2>1, <2>2
<1> DEFINE t == TrailingZeros(x)
<1>6. t \in 0 .. Width - 1 /\ x % 2^t = 0 /\ x % 2^(t + 1) # 0
  <2> HIDE DEF s
  <2> QED BY <1>5 DEF TrailingZeros
<1> HIDE DEF t, s, Bad
<1> DEFINE p == 2^t
           m == x \div p
<1>7. p \in Nat \ {0} /\ 2^(t + 1) = 2 * p
  BY <1>1, <1>6, PowType, PowNext
<1>8. x = p * m /\ m \in Nat
  <2>1. x = p * m + (x % p)
    <3>1. p \in Int /\ p > 0 /\ x \in Int
      BY <1>7
    <3> HIDE DEF p
    <3> QED BY <3>1, Remainder
  <2>2. m \in Int /\ 0 <= m
    <3> HIDE DEF p
    <3>1. p * 0 <= x /\ x \in Int
      BY <1>7
    <3> QED BY <1>7, <3>1, DivLower
  <2> HIDE DEF m
  <2> QED BY <1>6, <1>7, <2>1, <2>2
<1>9. m % 2 = 1
  <2> SUFFICES ASSUME m % 2 # 1 PROVE FALSE
    OBVIOUS
  <2> HIDE DEF m
  <2>1. m = 2 * (m \div 2) /\ m \div 2 \in Int
    BY <1>8
  <2> DEFINE h == m \div 2
  <2> HIDE DEF h, p
  <2>2. x = (2 * p) * h + 0 /\ 2 * p \in Nat \ {0} /\ 0 \in 0 .. 2 * p - 1 /\ h \in Int
    BY <1>7, <1>8, <2>1 DEF h
  <2>3. x % (2 * p) = 0
    BY <2>2, QuotientIs
  <2> QED BY <1>6, <1>7, <2>3
<1> HIDE DEF m
<1> QED BY <1>6, <1>8, <1>9 DEF t, p

\* The zeros of a power of two are its exponent.
LEMMA ZerosOfPower ==
  ASSUME NEW s \in 0 .. Width - 1
  PROVE  2^s \in 1 .. Word - 1 /\ TrailingZeros(2^s) = s
<1>1. s \in Nat /\ Width \in Nat /\ s < Width
  BY WordType
<1>2. 2^s \in 1 .. Word - 1
  BY <1>1, PowType, PowSplit, WordType DEF Word
<1> DEFINE t == TrailingZeros(2^s)
<1>3. PICK m \in Nat : 2^s = 2^t * m /\ m % 2 = 1
  BY <1>2, OddPart
<1>4. t \in Nat
  BY <1>2, OddPart
<1> HIDE DEF t
<1>5. 2^t \in Nat \ {0} /\ 2^s \in Nat \ {0}
  BY <1>1, <1>4, PowType
<1>6. CASE t < s
  <2>1. s - t - 1 \in Nat /\ s - t \in Nat /\ s - t = (s - t - 1) + 1
    BY <1>1, <1>4, <1>6
  <2> DEFINE h == 2^(s - t - 1)
  <2>2. 2^s = 2^t * 2^(s - t) /\ 2^(s - t) = 2 * h /\ h \in Nat
    BY <1>1, <1>4, <1>6, <2>1, PowSplit, PowNext, PowType
  <2> HIDE DEF h
  <2> DEFINE p == 2^t
  <2>3. p * m = p * (2 * h) /\ p \in Nat \ {0}
    BY <1>3, <1>5, <2>2
  <2> HIDE DEF p
  <2>4. m = 2 * h
    <3>1. m \in Int /\ 2 * h \in Int
      BY <2>2
    <3>2. p * m <= p * (2 * h) <=> m <= 2 * h
      BY <2>3, <3>1, CancelFactor
    <3>3. p * (2 * h) <= p * m <=> 2 * h <= m
      BY <2>3, <3>1, CancelFactor
    <3>4. p * m \in Int
      BY <2>3
    <3> QED BY <2>3, <3>1, <3>2, <3>3, <3>4
  <2> QED BY <1>3, <2>2, <2>4
<1>7. CASE t > s
  <2>1. 2 * 2^s <= 2^t
    BY <1>1, <1>4, <1>7, PowSplit
  <2>2. m >= 1
    BY <1>3
  <2> DEFINE p == 2^t
             q == 2^s
  <2>3. p \in Nat \ {0} /\ q \in Nat \ {0} /\ q = p * m /\ 2 * q <= p
    BY <1>3, <1>5, <2>1
  <2> HIDE DEF p, q
  <2>4. p * m >= p
    BY <2>2, <2>3
  <2> QED BY <2>3, <2>4
<1> QED BY <1>1, <1>2, <1>4, <1>6, <1>7 DEF t

-----------------------------------------------------------------------------
(* The modular inverse                                                         *)

\* d and inv are inverse to each other as far as e bits go.
InverseMod(d, inv, e) == \E q \in Int : d * inv = 1 + q * 2^e

LEMMA WordSplit ==
  ASSUME NEW e \in 0 .. Width
  PROVE  \E c \in Nat : Word = 2^e * c
<1>1. e \in Nat /\ Width \in Nat /\ e <= Width
  BY WordType
<1>2. Word = 2^e * 2^(Width - e) /\ Width - e \in Nat
  BY <1>1, PowSplit DEF Word
<1>3. 2^(Width - e) \in Nat
  BY <1>2, PowType
<1> QED BY <1>2, <1>3

\* A multiple of a larger power is one of a smaller.
LEMMA InverseDown ==
  ASSUME NEW d \in Int, NEW inv \in Int, NEW e \in Nat, NEW h \in Nat, e <= h, InverseMod(d, inv, h)
  PROVE  InverseMod(d, inv, e)
<1>1. PICK q \in Int : d * inv = 1 + q * 2^h
  BY DEF InverseMod
<1> DEFINE p == 2^e
           c == 2^(h - e)
<1>2. 2^h = p * c /\ p \in Nat /\ c \in Nat
  BY PowSplit, PowType
<1> HIDE DEF p, c
<1>3. d * inv = 1 + (q * c) * p /\ q * c \in Int
  BY <1>1, <1>2
<1> HIDE DEF InverseMod
<1> QED BY <1>3 DEF InverseMod, p

\* The seed: four bits, by the sixteen residues of d.
LEMMA SeedIs ==
  ASSUME NEW d \in Nat, d % 2 = 1
  PROVE  Seed(d) \in Int /\ InverseMod(d, Seed(d), 4)
<1> DEFINE x == (3 * d) % Word
           u == x \div 16
           v == x % 16
           j == d \div 16
           r == d % 16
<1>1. 2^4 = 16
  OBVIOUS
<1>2. PICK c \in Nat : Word = 16 * c
  <2>1. 4 \in 0 .. Width
    BY FullMathAssumption
  <2> QED BY <1>1, <2>1, WordSplit
<1>5. x \in Int /\ \E i \in Int : x = 3 * d + i * Word
  <2>1. 3 * d \in Int /\ Word \in Nat \ {0}
    BY WordType
  <2> DEFINE n == 3 * d
  <2>2. n \in Int
    OBVIOUS
  <2> HIDE DEF n
  <2>3. n % Word \in Int /\ \E i \in Int : n % Word = n + i * Word
    BY <2>1, <2>2, ModuloMultiple
  <2> QED BY <2>3 DEF n
<1>3. /\ d = 16 * j + r /\ r \in 0 .. 15 /\ j \in Int
      /\ x = 16 * u + v /\ v \in 0 .. 15 /\ u \in Int /\ x \in Int
  <2>1. x \in Int /\ 16 \in Int /\ 16 > 0
    BY <1>5
  <2>2. x = 16 * u + v /\ v \in 0 .. 15 /\ u \in Int
    <3> HIDE DEF x
    <3> QED BY <2>1, Remainder, DivFloor
  <2>3. d = 16 * j + r /\ r \in 0 .. 15 /\ j \in Int
    BY Remainder, DivFloor
  <2> QED BY <2>1, <2>2, <2>3
<1>4. Seed(d) = IF (x \div 2) % 2 = 0 THEN x + 2 ELSE x - 2
  BY DEF Seed
<1> HIDE DEF x, u, v, j, r
<1>15. PICK i \in Int : x = 3 * d + i * Word
  BY <1>5
\* What the residues are to each other.
<1>6. r % 2 = 1
  <2>1. d % 2 = 1
    OBVIOUS
  <2> QED BY <1>3, <2>1
<1>7. PICK z \in Int : 3 * r = 16 * z + v
  <2>1. 16 * u + v = 3 * (16 * j + r) + i * (16 * c)
    BY <1>2, <1>3, <1>15
  <2> DEFINE ic == i * c
  <2>2. ic \in Int /\ i * (16 * c) = 16 * ic
    OBVIOUS
  <2> HIDE DEF ic
  <2>3. 3 * r = 16 * (u - 3 * j - ic) + v /\ u - 3 * j - ic \in Int
    BY <1>3, <2>1, <2>2
  <2> QED BY <2>3
<1>8. (x \div 2) % 2 = (v \div 2) % 2
  BY <1>3
\* One residue at a time.
<1>9. \E w \in 0 .. 15, t \in Int : Seed(d) = 16 * u + w /\ r * w = 1 + 16 * t
  <2>1. r \in {1, 3, 5, 7, 9, 11, 13, 15}
    BY <1>3, <1>6
  <2>2. /\ (r = 1 => v = 3)
        /\ (r = 3 => v = 9)
        /\ (r = 5 => v = 15)
        /\ (r = 7 => v = 5)
        /\ (r = 9 => v = 11)
        /\ (r = 11 => v = 1)
        /\ (r = 13 => v = 7)
        /\ (r = 15 => v = 13)
    BY <1>3, <1>7
  <2>3. /\ (v = 3 => (v \div 2) % 2 = 1)
        /\ (v = 9 => (v \div 2) % 2 = 0)
        /\ (v = 15 => (v \div 2) % 2 = 1)
        /\ (v = 5 => (v \div 2) % 2 = 0)
        /\ (v = 11 => (v \div 2) % 2 = 1)
        /\ (v = 1 => (v \div 2) % 2 = 0)
        /\ (v = 7 => (v \div 2) % 2 = 1)
        /\ (v = 13 => (v \div 2) % 2 = 0)
    OBVIOUS
  <2>4. Seed(d) = 16 * u + IF (v \div 2) % 2 = 0 THEN v + 2 ELSE v - 2
    BY <1>3, <1>4, <1>8
  <2>5. CASE r = 1
    <3>1. Seed(d) = 16 * u + 1 /\ r * 1 = 1 + 16 * 0
      <4>1. v = 3 /\ (v \div 2) % 2 = 1
        BY <2>2, <2>3, <2>5
      <4>2. Seed(d) = 16 * u + 1
        BY <1>3, <2>4, <4>1
      <4> QED BY <2>5, <4>2
    <3> QED BY <3>1
  <2>6. CASE r = 3
    <3>1. Seed(d) = 16 * u + 11 /\ r * 11 = 1 + 16 * 2
      <4>1. v = 9 /\ (v \div 2) % 2 = 0
        BY <2>2, <2>3, <2>6
      <4>2. Seed(d) = 16 * u + 11
        BY <1>3, <2>4, <4>1
      <4> QED BY <2>6, <4>2
    <3> QED BY <3>1
  <2>7. CASE r = 5
    <3>1. Seed(d) = 16 * u + 13 /\ r * 13 = 1 + 16 * 4
      <4>1. v = 15 /\ (v \div 2) % 2 = 1
        BY <2>2, <2>3, <2>7
      <4>2. Seed(d) = 16 * u + 13
        BY <1>3, <2>4, <4>1
      <4> QED BY <2>7, <4>2
    <3> QED BY <3>1
  <2>8. CASE r = 7
    <3>1. Seed(d) = 16 * u + 7 /\ r * 7 = 1 + 16 * 3
      <4>1. v = 5 /\ (v \div 2) % 2 = 0
        BY <2>2, <2>3, <2>8
      <4>2. Seed(d) = 16 * u + 7
        BY <1>3, <2>4, <4>1
      <4> QED BY <2>8, <4>2
    <3> QED BY <3>1
  <2>9. CASE r = 9
    <3>1. Seed(d) = 16 * u + 9 /\ r * 9 = 1 + 16 * 5
      <4>1. v = 11 /\ (v \div 2) % 2 = 1
        BY <2>2, <2>3, <2>9
      <4>2. Seed(d) = 16 * u + 9
        BY <1>3, <2>4, <4>1
      <4> QED BY <2>9, <4>2
    <3> QED BY <3>1
  <2>10. CASE r = 11
    <3>1. Seed(d) = 16 * u + 3 /\ r * 3 = 1 + 16 * 2
      <4>1. v = 1 /\ (v \div 2) % 2 = 0
        BY <2>2, <2>3, <2>10
      <4>2. Seed(d) = 16 * u + 3
        BY <1>3, <2>4, <4>1
      <4> QED BY <2>10, <4>2
    <3> QED BY <3>1
  <2>11. CASE r = 13
    <3>1. Seed(d) = 16 * u + 5 /\ r * 5 = 1 + 16 * 4
      <4>1. v = 7 /\ (v \div 2) % 2 = 1
        BY <2>2, <2>3, <2>11
      <4>2. Seed(d) = 16 * u + 5
        BY <1>3, <2>4, <4>1
      <4> QED BY <2>11, <4>2
    <3> QED BY <3>1
  <2>12. CASE r = 15
    <3>1. Seed(d) = 16 * u + 15 /\ r * 15 = 1 + 16 * 14
      <4>1. v = 13 /\ (v \div 2) % 2 = 0
        BY <2>2, <2>3, <2>12
      <4>2. Seed(d) = 16 * u + 15
        BY <1>3, <2>4, <4>1
      <4> QED BY <2>12, <4>2
    <3> QED BY <3>1
  <2> QED BY <2>1, <2>5, <2>6, <2>7, <2>8, <2>9, <2>10, <2>11, <2>12
<1>10. PICK w \in 0 .. 15, t \in Int : Seed(d) = 16 * u + w /\ r * w = 1 + 16 * t
  BY <1>9
<1>11. (16 * j + r) * (16 * u + w) = r * w + 16 * (16 * j * u + j * w + r * u)
  BY <1>3
<1> DEFINE q == 16 * j * u + j * w + r * u + t
<1>12. d * Seed(d) = 1 + q * 16 /\ q \in Int
  <2>1. 16 * j * u \in Int /\ j * w \in Int /\ r * u \in Int
    BY <1>3
  <2>2. d * Seed(d) = r * w + 16 * (16 * j * u + j * w + r * u)
    BY <1>3, <1>10, <1>11
  <2> QED BY <1>10, <2>1, <2>2
<1> HIDE DEF q
<1>13. InverseMod(d, Seed(d), 4)
  BY <1>1, <1>12 DEF InverseMod
<1> QED BY <1>3, <1>10, <1>13

\* A step doubles the bits that are right, up to the width of a word.
LEMMA NewtonDoubles ==
  ASSUME NEW d \in Nat, NEW inv \in Int, NEW e \in 0 .. Width, NEW h \in Nat, e <= 2 * h,
         InverseMod(d, inv, h)
  PROVE  Newton(d, inv) \in Int /\ InverseMod(d, Newton(d, inv), e)
<1>1. PICK q \in Int : d * inv = 1 + q * 2^h
  BY DEF InverseMod
<1> DEFINE a == d * inv
           y == (2 - (a % Word)) % Word
           new == (inv * y) % Word
<1>2. Newton(d, inv) = new
  BY DEF Newton
<1>3. Word \in Nat \ {0} /\ a \in Int
  BY WordType
<1>4. PICK i1 \in Int : a % Word = a + i1 * Word
  <2> HIDE DEF a
  <2> QED BY <1>3, ModuloMultiple
<1>5. PICK i2 \in Int : y = 2 - (a % Word) + i2 * Word
  <2> DEFINE n == 2 - (a % Word)
  <2>1. n \in Int
    <3> HIDE DEF a
    <3> QED BY <1>3
  <2> HIDE DEF n, a
  <2>2. \E i \in Int : n % Word = n + i * Word
    BY <1>3, <2>1, ModuloMultiple
  <2> QED BY <2>2 DEF n
<1>6. y \in Int
  <2>1. i1 * Word \in Int /\ i2 * Word \in Int
    BY <1>3
  <2> HIDE DEF a, y
  <2> QED BY <1>3, <1>4, <1>5, <2>1
<1>7. new \in Int /\ \E i \in Int : new = inv * y + i * Word
  <2> DEFINE n == inv * y
  <2> HIDE DEF y
  <2>1. n \in Int
    BY <1>6
  <2> HIDE DEF n
  <2>2. n % Word \in Int /\ \E i \in Int : n % Word = n + i * Word
    BY <1>3, <2>1, ModuloMultiple
  <2> QED BY <2>2 DEF n
<1>8. PICK i3 \in Int : new = inv * y + i3 * Word
  BY <1>7
<1> HIDE DEF new, y
\* d * new is a * (2 - a) but for multiples of the word.
<1> DEFINE k == a * (i2 - i1) + d * i3
<1>9. d * new = a * (2 - a) + k * Word /\ k \in Int
  <2>1. y = 2 - a + (i2 - i1) * Word
    <3>1. (i2 - i1) * Word = i2 * Word - i1 * Word /\ i1 * Word \in Int /\ i2 * Word \in Int
      BY <1>3
    <3> HIDE DEF a
    <3> QED BY <1>3, <1>4, <1>5, <1>6, <3>1
  <2>2. d * (inv * y + i3 * Word) = (d * inv) * y + (d * i3) * Word
    BY <1>3, <1>6
  <2>3. d * new = a * y + (d * i3) * Word
    BY <1>8, <2>2
  <2> DEFINE b == i2 - i1
             f == d * i3
  <2>4. b \in Int /\ f \in Int /\ y = 2 - a + b * Word
    BY <2>1
  <2> HIDE DEF a, b, f
  <2>5. a * (2 - a + b * Word) = a * (2 - a) + (a * b) * Word
    BY <1>3, <2>4
  <2>6. (a * b + f) * Word = (a * b) * Word + f * Word
    BY <1>3, <2>4
  <2>7. d * new = a * (2 - a) + (a * b + f) * Word
    <3>1. a * (2 - a) \in Int /\ (a * b) * Word \in Int /\ f * Word \in Int
      BY <1>3, <2>4
    <3>2. d * new = a * (2 - a) + (a * b) * Word + f * Word
      BY <2>3, <2>4, <2>5 DEF f
    <3> QED BY <2>6, <3>1, <3>2
  <2>8. a * b + f \in Int
    BY <1>3, <2>4
  <2> QED BY <2>7, <2>8 DEF b, f
\* a * (2 - a) is 1 less the square of what is wrong with a.
<1> DEFINE p == 2^h
<1>10. a = 1 + q * p /\ p \in Nat
  BY <1>1, PowType
<1>11. a * (2 - a) = 1 - (q * q) * (p * p)
  <2> HIDE DEF a, p
  <2>1. (1 + q * p) * (2 - (1 + q * p)) = 1 - (q * p) * (q * p)
    BY <1>10
  <2>2. (q * p) * (q * p) = (q * q) * (p * p)
    BY <1>10
  <2> QED BY <1>10, <2>1, <2>2
\* Both the square and the word are multiples of 2^e.
<1> DEFINE s == 2^e
<1>12. PICK m \in Nat : p * p = s * m
  <2>1. p * p = 2^(h + h) /\ h + h \in Nat /\ e \in Nat /\ e <= h + h
    BY PowAdd
  <2>2. 2^(h + h) = 2^e * 2^(h + h - e)
    BY <2>1, PowSplit
  <2>3. 2^(h + h - e) \in Nat
    <3>1. h + h - e \in Nat
      BY <2>1
    <3> QED BY <3>1, PowType
  <2> QED BY <2>1, <2>2, <2>3
<1>13. PICK c \in Nat : Word = s * c
  BY WordSplit
<1>14. s \in Nat
  BY PowType
<1> HIDE DEF k, p, s, a
<1>15. d * new = 1 + (k * c - (q * q) * m) * s
  <2>1. (q * q) * (s * m) = ((q * q) * m) * s /\ k * (s * c) = (k * c) * s
    BY <1>9, <1>14
  <2>2. d * new = 1 - ((q * q) * m) * s + (k * c) * s
    BY <1>9, <1>11, <1>12, <1>13, <2>1
  <2> DEFINE b == k * c
             f == (q * q) * m
  <2>3. b \in Int /\ f \in Int
    BY <1>9
  <2>4. d * new = 1 - f * s + b * s
    BY <2>2
  <2> HIDE DEF b, f
  <2>5. (b - f) * s = b * s - f * s /\ b * s \in Int /\ f * s \in Int
    BY <1>14, <2>3
  <2>6. d * new = 1 + (b - f) * s
    BY <2>4, <2>5
  <2> QED BY <2>6 DEF b, f
<1>16. k * c - (q * q) * m \in Int
  BY <1>9
<1>17. InverseMod(d, new, e)
  BY <1>15, <1>16 DEF InverseMod, s
<1> QED BY <1>2, <1>7, <1>17 DEF new

\* Half of e bits, rounded up, before each step.
LEMMA HalfBits ==
  ASSUME NEW e \in Nat
  PROVE  \E h \in Nat : e <= 2 * h /\ 2 * h <= e + 1
<1> DEFINE h == (e + 1) \div 2
<1>1. h \in Nat /\ e <= 2 * h /\ 2 * h <= e + 1
  OBVIOUS
<1> HIDE DEF h
<1> QED BY <1>1

\* The inverse is right in every bit of the word.
LEMMA ModInvIs ==
  ASSUME NEW d \in Nat, d % 2 = 1
  PROVE  ModInv(d) \in Int /\ InverseMod(d, ModInv(d), Width)
<1> DEFINE N == NewtonSteps
           step == [x \in Int |-> Newton(d, x)]
           g == [k \in 0 .. N |-> step]
           a == Seed(d)
           Is(f) == f = [k \in 0 .. N |-> IF k = 0 THEN a ELSE Newton(d, f[k - 1])]
<1>1. N \in Nat /\ a \in Int /\ Word \in Nat \ {0} /\ Width \in Nat
  BY FullMathAssumption, WordType, SeedIs
<1>2. \A x \in Int : Newton(d, x) \in Int
  <2> TAKE x \in Int
  <2> DEFINE y == (2 - ((d * x) % Word)) % Word
  <2>1. \A n \in Int : n % Word \in Int
    BY <1>1, ModuloMultiple
  <2>2. d * x \in Int
    OBVIOUS
  <2>3. (d * x) % Word \in Int
    BY <2>1, <2>2
  <2>4. 2 - ((d * x) % Word) \in Int
    BY <2>3
  <2>5. y \in Int
    BY <2>1, <2>4
  <2> HIDE DEF y
  <2>6. x * y \in Int
    BY <2>5
  <2>7. (x * y) % Word \in Int
    BY <2>1, <2>6
  <2> QED BY <2>7 DEF Newton, y
<1>3. step \in [Int -> Int] /\ \A x \in Int : step[x] = Newton(d, x)
  BY <1>2
<1> HIDE DEF step, a
<1>4. g \in [0 .. N -> [Int -> Int]] /\ \A k \in 0 .. N : g[k] = step
  BY <1>3
<1> HIDE DEF g, N
<1> DEFINE S == Int
<1>15. N \in Nat /\ a \in S /\ g \in [0 .. N -> [S -> S]]
  BY <1>1, <1>4
<1> HIDE DEF S, Is
<1>5. PICK f0 \in [0 .. N -> S] : IsIteration(f0, N, a, g)
  BY <1>15, Iterates
<1> USE DEF S, Is
<1>6. Is(f0)
  <2>1. \A k \in 0 .. N : k # 0 => f0[k - 1] \in Int
    BY <1>1
  <2>2. \A k \in 0 .. N : (IF k = 0 THEN a ELSE g[k][f0[k - 1]]) = IF k = 0 THEN a ELSE Newton(d, f0[k - 1])
    BY <1>3, <1>4, <2>1
  <2> QED BY <1>5, <2>2 DEF IsIteration
<1> DEFINE f == CHOOSE f : Is(f)
<1>7. Is(f)
  <2> HIDE DEF Is
  <2> QED BY <1>6
<1>8. ModInv(d) = f[N]
  BY DEF ModInv, N, a
<1> HIDE DEF f
<1>9. f[0] = a /\ \A k \in 0 .. N - 1 : f[k + 1] = Newton(d, f[k])
  <2>1. 0 \in 0 .. N
    BY <1>1
  <2>2. \A k \in 0 .. N - 1 : k + 1 \in 0 .. N /\ k + 1 # 0 /\ (k + 1) - 1 = k
    BY <1>1
  <2> QED BY <1>7, <2>1, <2>2
<1> DEFINE good == {k \in 0 .. N : /\ f[k] \in Int
                                   /\ \A e \in 0 .. Width : e <= 4 * 2^k => InverseMod(d, f[k], e)}
<1>10. 0 \in good
  <2>1. ASSUME NEW e \in 0 .. Width, e <= 4 * 2^0 PROVE InverseMod(d, a, e)
    <3>1. e \in Nat /\ e <= 4
      BY <2>1, <1>1, PowZero
    <3>2. InverseMod(d, a, 4)
      BY SeedIs DEF a
    <3>3. 4 \in Nat /\ d \in Int
      OBVIOUS
    <3> QED BY <1>1, <3>1, <3>2, <3>3, InverseDown
  <2>2. 0 \in 0 .. N
    BY <1>1
  <2> QED BY <1>1, <1>9, <2>1, <2>2
<1>11. ASSUME NEW k \in 0 .. N - 1, k \in good PROVE k + 1 \in good
  <2>1. f[k + 1] = Newton(d, f[k]) /\ f[k] \in Int /\ k + 1 \in 0 .. N /\ k \in Nat
    BY <1>1, <1>9, <1>11
  <2>2. ASSUME NEW e \in 0 .. Width, e <= 4 * 2^(k + 1) PROVE InverseMod(d, f[k + 1], e)
    <3>1. PICK h \in Nat : e <= 2 * h /\ 2 * h <= e + 1
      <4>1. e \in Nat
        BY <1>1
      <4> QED BY <4>1, HalfBits
    <3> DEFINE p == 2^k
    <3>2. 2^(k + 1) = 2 * p /\ p \in Nat \ {0}
      BY <2>1, PowNext, PowType
    <3>3. Width >= 4
      BY FullMathAssumption
    <3>4. h \in 0 .. Width /\ h <= 4 * p
      <4> HIDE DEF p
      <4> QED BY <1>1, <2>2, <3>1, <3>2, <3>3
    <3>5. InverseMod(d, f[k], h)
      BY <1>11, <3>4
    <3> HIDE DEF p
    <3>6. InverseMod(d, Newton(d, f[k]), e)
      BY <2>1, <3>1, <3>5, NewtonDoubles
    <3> QED BY <2>1, <3>6
  <2>3. f[k + 1] \in Int
    BY <1>2, <2>1
  <2> QED BY <2>1, <2>2, <2>3
<1>12. N \in good
  <2>1. good \in SUBSET (0 .. N) /\ N \in 0 .. N
    BY <1>1
  <2> HIDE DEF good
  <2>3. 0 \in Int /\ N \in Int /\ 0 \in good
    BY <1>1, <1>10
  <2>4. \A k \in 0 .. N - 1 : k \in good => k + 1 \in good
    BY <1>11
  <2> HIDE DEF Is
  <2>2. \A n \in 0 .. N : n \in good
    BY <2>1, <2>3, <2>4, IntervalInduction
  <2> QED BY <2>1, <2>2
<1>13. Width \in 0 .. Width /\ Width <= 4 * 2^N
  BY <1>1, FullMathAssumption DEF N
<1> QED BY <1>8, <1>12, <1>13

-----------------------------------------------------------------------------
(* Division of a double word                                                   *)

\* The shift drops the zeros of an exact multiple, but for multiples of the word.
LEMMA ShiftDropsZeros ==
  ASSUME NEW s \in 0 .. Width - 1, NEW high \in Int, NEW low \in Int, NEW x \in Int,
         high * Word + low = 2^s * x
  PROVE  ShiftRight(high, low, s) \in Int /\ \E k \in Int : ShiftRight(high, low, s) = x + k * Word
<1>1. s \in Nat /\ Width \in Nat /\ Width - s \in Nat /\ s <= Width /\ Word \in Nat \ {0}
  BY WordType
<1>2. CASE s = 0
  <2>1. ShiftRight(high, low, s) = low
    BY <1>2 DEF ShiftRight
  <2>2. 2^s * x = x
    BY <1>2, PowZero
  <2>3. low = x + (-high) * Word /\ -high \in Int
    <3>1. (-high) * Word = -(high * Word) /\ high * Word \in Int
      BY <1>1
    <3> QED BY <2>2, <3>1
  <2> QED BY <2>1, <2>3
<1>3. CASE s # 0
  <2> DEFINE p == 2^s
             c == 2^(Width - s)
             n == high * c
             w == n % Word
  <2>1. p \in Nat \ {0} /\ c \in Nat \ {0} /\ Word = p * c
    BY <1>1, PowType, PowSplit DEF Word
  <2>2. ShiftRight(high, low, s) = (low \div p) + w
    BY <1>3 DEF ShiftRight
  <2> HIDE DEF p, c
  <2>3. n \in Int
    BY <2>1
  <2> HIDE DEF n
  <2>4. PICK k \in Int : w = n + k * Word
    BY <1>1, <2>3, ModuloMultiple
  <2>5. w \in Int
    BY <1>1, <2>3, ModuloMultiple
  <2> HIDE DEF w
  <2>6. low = p * (x - n) + 0 /\ 0 \in 0 .. p - 1 /\ x - n \in Int
    <3>1. high * (p * c) = p * n
      BY <2>1 DEF n
    <3>2. p * (x - n) = p * x - p * n /\ p * x \in Int /\ p * n \in Int
      BY <2>1, <2>3
    <3>3. high * Word + low = p * x
      BY DEF p
    <3> QED BY <2>1, <2>3, <3>1, <3>2, <3>3
  <2>7. low \div p = x - n
    BY <2>1, <2>6, QuotientIs
  <2>8. ShiftRight(high, low, s) = x + k * Word /\ k * Word \in Int
    BY <1>1, <2>2, <2>3, <2>4, <2>5, <2>7
  <2> QED BY <2>8
<1> QED BY <1>2, <1>3

\* The shift of a product whose quotient fits a word divides it by a power of two.
LEMMA ShiftDivides ==
  ASSUME NEW s \in 1 .. Width - 1, NEW prod1 \in Nat, NEW prod0 \in Nat, prod1 < 2^s
  PROVE  /\ ShiftRight(prod1, prod0, s) = (prod1 * Word + prod0) \div 2^s
         /\ prod0 % 2^s = (prod1 * Word + prod0) % 2^s
<1> DEFINE p == 2^s
           c == 2^(Width - s)
           q0 == prod0 \div p
           r0 == prod0 % p
           n == prod1 * c
<1>1. s \in Nat /\ Width \in Nat /\ Width - s \in Nat /\ s <= Width /\ Word \in Nat \ {0} /\ s # 0
  BY WordType
<1>2. p \in Nat \ {0} /\ c \in Nat \ {0} /\ Word = p * c
  BY <1>1, PowType, PowSplit DEF Word
<1>3. ShiftRight(prod1, prod0, s) = q0 + (n % Word)
  BY <1>1 DEF ShiftRight
<1>7. prod1 < p
  OBVIOUS
<1> HIDE DEF p, c
<1>4. prod0 = p * q0 + r0 /\ r0 \in 0 .. p - 1 /\ q0 \in Int
  BY <1>2, Remainder, DivFloor
<1> HIDE DEF q0, r0
<1>5. n \in 0 .. Word - 1
  <2>1. prod1 + 1 <= p /\ prod1 + 1 \in Nat
    BY <1>2, <1>7
  <2>2. (prod1 + 1) * c <= p * c /\ (prod1 + 1) * c = prod1 * c + c
    BY <1>2, <2>1
  <2>3. prod1 * c \in Nat
    BY <1>2
  <2> QED BY <1>1, <1>2, <2>2, <2>3
<1>6. n % Word = n
  <2>1. n = Word * 0 + n /\ n \in Int
    BY <1>1, <1>5
  <2> HIDE DEF n
  <2> QED BY <1>1, <1>5, <2>1, QuotientIs
<1>8. prod1 * Word + prod0 = p * (q0 + n) + r0 /\ q0 + n \in Int
  <2>1. prod1 * (p * c) = p * n
    BY <1>2
  <2> HIDE DEF n
  <2>2. p * (q0 + n) = p * q0 + p * n /\ p * q0 \in Int /\ p * n \in Int
    BY <1>1, <1>2, <1>4, <1>5
  <2> QED BY <1>1, <1>2, <1>4, <1>5, <2>1, <2>2
<1> DEFINE m == prod1 * Word + prod0
<1>9. m \in Int /\ m = p * (q0 + n) + r0
  BY <1>1, <1>8
<1> HIDE DEF m, n
<1>10. m \div p = q0 + n /\ m % p = r0
  BY <1>2, <1>4, <1>8, <1>9, QuotientIs
<1> QED BY <1>3, <1>6, <1>10 DEF m, p, r0

\* What a division of n by d has to return.
QuotientOf(n, d) == [quotient |-> n \div d, remains |-> n % d # 0]
Exact(n, d) == IF d # 0 /\ n \div d < Word THEN {QuotientOf(n, d)} ELSE {}

\* An exact multiple of d, given as two words, is divided by multiplying with
\* the inverse of d's odd part.
LEMMA InverseDivides ==
  ASSUME NEW d \in 1 .. Word - 1, NEW q \in 0 .. Word - 1, NEW high \in Int, NEW low \in Int,
         high * Word + low = d * q
  PROVE  (ShiftRight(high, low, TrailingZeros(d)) * ModInv(d \div 2^TrailingZeros(d))) % Word = q
<1> DEFINE s == TrailingZeros(d)
           p == 2^s
<1>1. s \in 0 .. Width - 1
  BY OddPart
<1>2. PICK o \in Nat : d = p * o /\ o % 2 = 1
  BY OddPart
<1>3. Word \in Nat \ {0} /\ Width \in Nat /\ p \in Nat \ {0}
  BY <1>1, PowType, WordType
<1> HIDE DEF s
<1>4. high * Word + low = p * (o * q) /\ o * q \in Int
  <2> HIDE DEF p
  <2>1. (p * o) * q = p * (o * q)
    BY <1>3
  <2>2. high * Word + low = d * q
    OBVIOUS
  <2>3. o * q \in Int
    OBVIOUS
  <2> QED BY <1>2, <2>1, <2>2, <2>3
<1>5. d \div p = o
  <2>1. d = p * o + 0 /\ 0 \in 0 .. p - 1 /\ o \in Int /\ d \in Int
    BY <1>2, <1>3
  <2> HIDE DEF p
  <2> QED BY <1>3, <2>1, QuotientIs
<1> DEFINE x == o * q
           y == ShiftRight(high, low, s)
           inv == ModInv(o)
<1>6. y \in Int /\ \E k \in Int : y = x + k * Word
  <2> HIDE DEF x
  <2>1. high * Word + low = 2^s * x /\ x \in Int
    BY <1>4 DEF x
  <2> QED BY <1>1, <2>1, ShiftDropsZeros
<1>7. PICK k \in Int : y = x + k * Word
  BY <1>6
<1>8. inv \in Int /\ InverseMod(o, inv, Width)
  BY <1>2, ModInvIs
<1>9. PICK z \in Int : o * inv = 1 + z * Word
  BY <1>8 DEF InverseMod, Word
<1> HIDE DEF y, inv
<1> DEFINE i == q * z + k * inv
<1>10. y * inv = q + i * Word
  <2>1. (o * q + k * Word) * inv = q * (o * inv) + (k * inv) * Word
    BY <1>3, <1>8
  <2>2. q * (1 + z * Word) = q + (q * z) * Word
    BY <1>3
  <2> DEFINE b == q * z
             c == k * inv
  <2>3. b \in Int /\ c \in Int /\ (b + c) * Word = b * Word + c * Word /\ b * Word \in Int /\ c * Word \in Int
    <3>1. b \in Int /\ c \in Int
      BY <1>8
    <3> HIDE DEF b, c
    <3> QED BY <1>3, <3>1
  <2>4. y * inv = q * (1 + z * Word) + (k * inv) * Word
    BY <1>7, <1>9, <2>1
  <2>5. y * inv = q + b * Word + c * Word
    BY <2>2, <2>4
  <2> HIDE DEF b, c
  <2>6. y * inv = q + (b + c) * Word
    BY <2>3, <2>5
  <2> QED BY <2>6 DEF b, c
<1>11. i \in Int /\ y * inv \in Int
  BY <1>6, <1>8
<1> DEFINE n == y * inv
<1>12. n \in Int /\ i \in Int /\ n = q + i * Word
  BY <1>10, <1>11
<1> HIDE DEF n, i
<1>13. n % Word = q
  BY <1>3, <1>12, ModuloIs
<1> QED BY <1>5, <1>13 DEF n, y, inv, s, p

\* mul_div_core on a product of two words, by any divisor above one.
LEMMA CoreExact ==
  ASSUME NEW prod1 \in Nat, NEW prod0 \in Words, NEW d \in 2 .. Word - 1
  PROVE  MulDivCore(prod1, prod0, d) = Exact(prod1 * Word + prod0, d)
<1> DEFINE n == prod1 * Word + prod0
           q == n \div d
           remainder == n % d
           low    == (prod0 - remainder) % Word
           high   == prod1 - (IF prod0 < remainder THEN 1 ELSE 0)
           shift  == TrailingZeros(d)
<1>1. Word \in Nat \ {0, 1} /\ prod0 \in 0 .. Word - 1 /\ Width \in Nat
  BY WordType
<1>2. n \in Nat
  BY <1>1
<1> HIDE DEF n
<1>3. n = d * q + remainder /\ remainder \in 0 .. d - 1 /\ q \in Int
  BY <1>2, Remainder, DivFloor
<1> HIDE DEF q, remainder
<1>4. q < Word <=> prod1 < d
  <2>1. n \in Int /\ d \in Nat \ {0} /\ Word \in Int
    BY <1>1, <1>2
  <2>2. Word <= q <=> d * Word <= n
    BY <2>1, RoundsDown DEF q
  <2>3. d * Word <= n <=> d <= prod1
    <3>1. ASSUME d <= prod1 PROVE d * Word <= n
      <4>1. d * Word <= prod1 * Word /\ prod1 * Word \in Nat /\ d * Word \in Nat
        BY <1>1, <3>1, Monotone, Product
      <4> QED BY <1>1, <4>1 DEF n
    <3>2. ASSUME ~(d <= prod1) PROVE ~(d * Word <= n)
      <4>1. prod1 + 1 \in Nat /\ prod1 + 1 <= d
        BY <3>2
      <4>2. (prod1 + 1) * Word <= d * Word /\ (prod1 + 1) * Word = prod1 * Word + Word
            /\ prod1 * Word \in Nat /\ d * Word \in Nat
        <5>1. (prod1 + 1) * Word <= d * Word /\ prod1 * Word \in Nat /\ d * Word \in Nat
          BY <1>1, <4>1, Monotone, Product
        <5>2. (prod1 + 1) * Word = prod1 * Word + Word
          BY <1>1
        <5> QED BY <5>1, <5>2
      <4> QED BY <1>1, <4>2 DEF n
    <3> QED BY <3>1, <3>2
  <2> QED BY <1>1, <1>3, <2>2, <2>3
<1>5. CASE prod1 >= d
  <2>1. MulDivCore(prod1, prod0, d) = {}
    BY <1>5 DEF MulDivCore
  <2>2. ~(q < Word)
    BY <1>4, <1>5
  <2> QED BY <2>1, <2>2 DEF Exact, q, n
<1>6. CASE ~(prod1 >= d) /\ IsPowerOfTwo(d)
  <2>1. PICK s \in 0 .. Width - 1 : d = 2^s
    BY <1>6 DEF IsPowerOfTwo
  <2>2. shift = s
    BY <2>1, ZerosOfPower
  <2>3. s # 0
    <3>1. d # 1
      BY <1>1
    <3> HIDE DEF shift
    <3> QED BY <2>1, <3>1, PowZero
  <2>4. s \in 1 .. Width - 1 /\ prod0 \in Nat /\ prod1 < 2^s
    BY <1>1, <1>6, <2>1, <2>3
  <2>5. ShiftRight(prod1, prod0, s) = q /\ prod0 % d = remainder
    <3>1. /\ ShiftRight(prod1, prod0, s) = (prod1 * Word + prod0) \div 2^s
          /\ prod0 % 2^s = (prod1 * Word + prod0) % 2^s
      BY <2>4, ShiftDivides
    <3> QED BY <2>1, <3>1 DEF q, remainder, n
  <2>6. MulDivCore(prod1, prod0, d)
          = {[quotient |-> ShiftRight(prod1, prod0, shift), remains |-> prod0 % d # 0]}
    BY <1>6 DEF MulDivCore
  <2>7. MulDivCore(prod1, prod0, d) = {[quotient |-> q, remains |-> remainder # 0]}
    BY <2>2, <2>5, <2>6
  <2>8. Exact(n, d) = {[quotient |-> q, remains |-> remainder # 0]}
    BY <1>4, <1>6 DEF Exact, QuotientOf, q, remainder
  <2> QED BY <2>7, <2>8 DEF n
<1>7. CASE ~(prod1 >= d) /\ ~IsPowerOfTwo(d)
  <2>1. MulDivCore(prod1, prod0, d)
          = {[quotient |-> (ShiftRight(high, low, shift) * ModInv(d \div 2^shift)) % Word,
              remains  |-> remainder # 0]}
    BY <1>7 DEF MulDivCore, remainder, n
  <2>2. q \in 0 .. Word - 1
    <3>1. 0 <= q
      <4>1. d * 0 <= n /\ n \in Int /\ d \in Nat \ {0}
        BY <1>2
      <4> QED BY <4>1, DivLower DEF q
    <3> QED BY <1>1, <1>3, <1>4, <1>7, <3>1
  <2>3. high * Word + low = d * q /\ high \in Int /\ low \in Int
    <3>1. n - remainder = d * q /\ remainder \in Nat /\ remainder < Word /\ d * q \in Int
      BY <1>1, <1>2, <1>3
    <3>2. CASE prod0 < remainder
      <4>1. prod0 - remainder = Word * (-1) + (prod0 - remainder + Word)
            /\ prod0 - remainder + Word \in 0 .. Word - 1 /\ prod0 - remainder \in Int
        BY <1>1, <3>1, <3>2
      <4>2. low = prod0 - remainder + Word
        <5> DEFINE x == prod0 - remainder
                   r == prod0 - remainder + Word
        <5>1. x = Word * (-1) + r /\ r \in 0 .. Word - 1 /\ x \in Int /\ -1 \in Int
          BY <4>1
        <5> HIDE DEF x, r
        <5>2. x % Word = r
          BY <1>1, <5>1, QuotientIs
        <5> QED BY <5>2 DEF x, r
      <4>3. high = prod1 - 1
        BY <3>2
      <4>4. (prod1 - 1) * Word = prod1 * Word - Word /\ prod1 * Word \in Int
        BY <1>1
      <4> HIDE DEF high, low
      <4> QED BY <1>1, <3>1, <4>2, <4>3, <4>4 DEF n
    <3>3. CASE ~(prod0 < remainder)
      <4>1. prod0 - remainder = Word * 0 + (prod0 - remainder)
            /\ prod0 - remainder \in 0 .. Word - 1 /\ prod0 - remainder \in Int
        BY <1>1, <3>1, <3>3
      <4>2. low = prod0 - remainder
        BY <1>1, <4>1, QuotientIs
      <4>3. high = prod1
        BY <3>3
      <4>4. prod1 * Word \in Int
        BY <1>1
      <4> HIDE DEF high, low
      <4> QED BY <1>1, <3>1, <4>2, <4>3, <4>4 DEF n
    <3> QED BY <3>2, <3>3
  <2> HIDE DEF high, low
  <2>4. (ShiftRight(high, low, shift) * ModInv(d \div 2^shift)) % Word = q
    <3>1. d \in 1 .. Word - 1
      BY <1>1
    <3> QED BY <2>2, <2>3, <3>1, InverseDivides
  <2>5. MulDivCore(prod1, prod0, d) = {[quotient |-> q, remains |-> remainder # 0]}
    BY <2>1, <2>4
  <2>6. Exact(n, d) = {[quotient |-> q, remains |-> remainder # 0]}
    BY <1>4, <1>7 DEF Exact, QuotientOf, q, remainder
  <2> QED BY <2>5, <2>6 DEF n
<1> QED BY <1>5, <1>6, <1>7

\* mul_div on every path: error on zero, one word, two words.
LEMMA DividedExact ==
  ASSUME NEW a \in Words, NEW b \in Words, NEW d \in Words
  PROVE  Divided(a, b, d) = Exact(a * b, d)
<1> DEFINE n == a * b
<1>1. Word \in Nat \ {0, 1} /\ d \in 0 .. Word - 1 /\ n \in Nat
  BY WordType
<1>2. Divided(a, b, d) =
         IF d = 0 THEN {}
         ELSE IF n < Word THEN {[quotient |-> n \div d, remains |-> n % d # 0]}
         ELSE IF d = 1 THEN {}
         ELSE MulDivCore(n \div Word, n % Word, d)
  BY DEF Divided
<1> HIDE DEF n
<1>3. CASE d = 0
  BY <1>2, <1>3 DEF Exact, n
<1>4. CASE d # 0 /\ n < Word
  <2>1. n \div d < Word
    <3>1. n <= d * n /\ n \in Int /\ d \in Nat \ {0}
      <4>1. d \in Nat /\ 1 <= d
        BY <1>1, <1>4
      <4>2. 1 * n <= d * n
        BY <1>1, <4>1, Monotone
      <4> QED BY <1>1, <1>4, <4>2
    <3> QED BY <1>1, <1>4, <3>1, DivUpper
  <2> QED BY <1>2, <1>4, <2>1 DEF Exact, QuotientOf, n
<1>5. CASE d = 1 /\ ~(n < Word)
  <2>1. n \div 1 = n
    <3>1. n = 1 * n + 0 /\ 0 \in 0 .. 1 - 1 /\ n \in Int /\ 1 \in Nat \ {0}
      BY <1>1
    <3> QED BY <3>1, QuotientIs
  <2>2. ~(n \div d < Word)
    BY <1>5, <2>1
  <2>3. Divided(a, b, d) = {}
    BY <1>2, <1>5
  <2> QED BY <2>2, <2>3 DEF Exact, n
<1>6. CASE d # 0 /\ d # 1 /\ ~(n < Word)
  <2> DEFINE h == n \div Word
             l == n % Word
  <2>1. n = Word * h + l /\ l \in 0 .. Word - 1 /\ h \in Int
    BY <1>1, Remainder, DivFloor
  <2>2. 0 <= h
    <3>1. Word * 0 <= n /\ n \in Int
      BY <1>1
    <3> QED BY <1>1, <3>1, DivLower
  <2> HIDE DEF h, l
  <2>3. h \in Nat /\ l \in Words /\ d \in 2 .. Word - 1
    BY <1>1, <1>6, <2>1, <2>2, WordType
  <2>4. MulDivCore(h, l, d) = Exact(h * Word + l, d)
    BY <2>3, CoreExact
  <2>5. h * Word + l = n
    BY <1>1, <2>1, <2>3
  <2> QED BY <1>2, <1>6, <2>4, <2>5 DEF h, l, n
<1> QED BY <1>3, <1>4, <1>5, <1>6

-----------------------------------------------------------------------------
(* Multiplying with Q96 and dividing                                           *)

\* mul_q96_div on every path: zero, a power of two, one word, two words.
LEMMA Q96DividedExact ==
  ASSUME NEW amount \in Words, NEW d \in Words
  PROVE  Q96Divided(amount, d) = Exact(amount * 2^QBits, d)
<1> DEFINE Q == 2^QBits
           C == 2^(Width - QBits)
           shift == TrailingZeros(d)
           exact(x) == {[quotient |-> v, remains |-> FALSE] : v \in Checked(x)}
           n == amount * Q
<1>1. Word \in Nat \ {0, 1} /\ d \in 0 .. Word - 1 /\ amount \in 0 .. Word - 1
  BY WordType
<1>2. QBits \in Nat /\ Width \in Nat /\ QBits < Width /\ Width - QBits \in Nat
  BY FullMathAssumption
<1>3. Q \in Nat \ {0} /\ C \in Nat \ {0} /\ Word = Q * C
  BY <1>2, PowType, PowSplit DEF Word
<1>4. Q96Divided(amount, d) =
         IF d = 0 THEN {}
         ELSE IF amount = 0 THEN exact(0)
         ELSE IF IsPowerOfTwo(d) THEN
                IF shift <= QBits THEN exact(amount * 2^(QBits - shift))
                ELSE {[quotient |-> amount \div 2^(shift - QBits),
                       remains  |-> amount % 2^(shift - QBits) # 0]}
         ELSE IF amount > (Word - 1) \div Q /\ amount \div C >= d THEN {}
         ELSE {[quotient |-> n \div d, remains |-> n % d # 0]}
  BY DEF Q96Divided
<1>5. ASSUME NEW x \in Nat, x < Word PROVE exact(x) = {[quotient |-> x, remains |-> FALSE]}
  BY <1>5 DEF Checked
<1>6. ASSUME NEW x \in Nat, ~(x < Word) PROVE exact(x) = {}
  BY <1>6 DEF Checked
<1> HIDE DEF Q, C, shift, exact
<1>7. n \in Nat
  BY <1>1, <1>3
<1>8. CASE d = 0
  BY <1>4, <1>8 DEF Exact
<1>9. CASE d # 0 /\ amount = 0
  <2>1. n = d * 0 + 0 /\ 0 \in 0 .. d - 1 /\ n \in Int /\ d \in Nat \ {0}
    BY <1>1, <1>3, <1>9
  <2> HIDE DEF n
  <2>2. n \div d = 0 /\ n % d = 0
    BY <2>1, QuotientIs
  <2>3. exact(0) = {[quotient |-> 0, remains |-> FALSE]}
    BY <1>1, <1>5
  <2>5. QuotientOf(n, d) = [quotient |-> 0, remains |-> FALSE]
    <3>1. (n % d # 0) = FALSE
      BY <2>2
    <3> QED BY <2>2, <3>1 DEF QuotientOf
  <2>4. Exact(n, d) = {[quotient |-> 0, remains |-> FALSE]}
    BY <1>1, <1>9, <2>2, <2>5 DEF Exact
  <2> QED BY <1>4, <1>9, <2>3, <2>4 DEF n, Q
<1>10. CASE d # 0 /\ amount # 0 /\ IsPowerOfTwo(d)
  <2>1. PICK s \in 0 .. Width - 1 : d = 2^s
    BY <1>10 DEF IsPowerOfTwo
  <2>2. shift = s
    BY <2>1, ZerosOfPower DEF shift
  <2>3. CASE s <= QBits
    <3> DEFINE c == 2^(QBits - s)
               x == amount * c
    <3>1. s \in Nat /\ QBits - s \in Nat
      BY <1>2, <2>3
    <3>2. c \in Nat \ {0} /\ Q = d * c
      BY <1>2, <2>1, <2>3, <3>1, PowType, PowSplit DEF Q
    <3>3. Q96Divided(amount, d) = exact(x)
      BY <1>4, <1>10, <2>2, <2>3
    <3> HIDE DEF c
    <3>4. x \in Nat
      BY <1>1, <3>2
    <3>5. n = d * x + 0 /\ 0 \in 0 .. d - 1 /\ n \in Int /\ d \in Nat \ {0} /\ x \in Int
      BY <1>1, <1>7, <1>10, <3>2, <3>4
    <3> HIDE DEF n, x
    <3>6. n \div d = x /\ n % d = 0
      BY <3>5, QuotientIs
    <3>7. CASE x < Word
      <4>1. Exact(n, d) = {[quotient |-> x, remains |-> FALSE]}
        BY <1>10, <3>6, <3>7 DEF Exact, QuotientOf
      <4> QED BY <1>5, <3>3, <3>4, <3>7, <4>1 DEF n, Q
    <3>8. CASE ~(x < Word)
      <4>1. Exact(n, d) = {}
        BY <3>6, <3>8 DEF Exact
      <4> QED BY <1>6, <3>3, <3>4, <3>8, <4>1 DEF n, Q
    <3> QED BY <3>7, <3>8
  <2>4. CASE ~(s <= QBits)
    <3> DEFINE c == 2^(s - QBits)
               q == amount \div c
               r == amount % c
    <3>1. s \in Nat /\ s - QBits \in Nat /\ QBits <= s
      BY <1>2, <2>4
    <3>2. c \in Nat \ {0} /\ d = Q * c
      BY <1>2, <2>1, <3>1, PowType, PowSplit DEF Q
    <3>3. Q96Divided(amount, d) = {[quotient |-> q, remains |-> r # 0]}
      BY <1>4, <1>10, <2>2, <2>4
    <3> HIDE DEF c
    <3>4. amount = c * q + r /\ r \in 0 .. c - 1 /\ q \in Int /\ amount \in Int
      BY <1>1, <3>2, Remainder, DivFloor
    <3>5. q <= amount
      <4>1. amount <= c * amount
        <5>1. 1 * amount <= c * amount
          BY <1>1, <3>2, Monotone
        <5> QED BY <1>1, <5>1
      <4> QED BY <1>1, <3>2, <4>1, DivUpper
    <3> HIDE DEF q, r
    <3>6. n = d * q + r * Q
      <4>1. (c * q + r) * Q = (Q * c) * q + r * Q
        BY <1>3, <3>2, <3>4
      <4> QED BY <3>2, <3>4, <4>1
    <3>7. r * Q \in 0 .. d - 1 /\ (r * Q = 0 <=> r = 0)
      <4>1. r \in Nat /\ r + 1 <= c /\ c - r - 1 \in Nat
        BY <3>2, <3>4
      <4>2. (r + 1) * Q <= c * Q /\ (r + 1) * Q = r * Q + Q /\ c * Q = d
        BY <1>3, <3>2, <4>1, Monotone
      <4>3. r * Q \in Nat /\ (r * Q = 0 <=> r = 0)
        BY <1>3, <4>1
      <4> QED BY <1>1, <1>3, <4>2, <4>3
    <3> DEFINE f == r * Q
    <3>8. n = d * q + f /\ f \in 0 .. d - 1 /\ n \in Int /\ d \in Nat \ {0} /\ q \in Int
      BY <1>1, <1>7, <1>10, <3>4, <3>6, <3>7
    <3> HIDE DEF n, f
    <3>9. n \div d = q /\ n % d = f
      BY <3>8, QuotientIs
    <3>10. Exact(n, d) = {[quotient |-> q, remains |-> f # 0]}
      <4>1. q < Word
        BY <1>1, <3>4, <3>5
      <4> QED BY <1>10, <3>9, <4>1 DEF Exact, QuotientOf
    <3>11. f # 0 <=> r # 0
      BY <3>7 DEF f
    <3>12. (f # 0) = (r # 0)
      BY <3>11
    <3> QED BY <3>3, <3>10, <3>12 DEF n, Q
  <2> QED BY <2>3, <2>4
<1>11. CASE d # 0 /\ amount # 0 /\ ~IsPowerOfTwo(d)
  <2>1. d \in Nat \ {0} /\ n \in Int /\ Word \in Int /\ d \in Int
    BY <1>1, <1>7, <1>11
  <2>2. Word <= n \div d <=> d * Word <= n
    <3> HIDE DEF n
    <3> QED BY <2>1, RoundsDown
  <2>3. n \div d \in Int
    <3> HIDE DEF n
    <3> QED BY <2>1, RoundsDown
  <2>4. d * Word <= n <=> d <= amount \div C
    <3>1. d * C <= amount <=> d <= amount \div C
      <4>1. amount \in Int
        BY <1>1
      <4> QED BY <1>3, <2>1, <4>1, RoundsDown
    <3>2. Q * (d * C) <= Q * amount <=> d * C <= amount
      <4> DEFINE x == d * C
      <4>1. x \in Int /\ amount \in Int
        BY <1>1, <1>3, <2>1
      <4> HIDE DEF x
      <4> QED BY <1>3, <4>1, CancelFactor DEF x
    <3>3. Q * (d * C) = d * Word /\ Q * amount = n
      BY <1>1, <1>3, <2>1
    <3> QED BY <3>1, <3>2, <3>3
  <2>5. amount \div C \in Int
    BY <1>1, <1>3, DivFloor
  <2>6. ~(amount > (Word - 1) \div Q) => ~(d * Word <= n)
    <3> SUFFICES ASSUME ~(amount > (Word - 1) \div Q) PROVE n < d * Word
      <4>1. d * Word \in Int
        BY <1>1
      <4> QED BY <2>1, <4>1
    <3> DEFINE t == Word - 1
    <3>1. t \in Int /\ amount \in Int
      BY <1>1
    <3> HIDE DEF t
    <3>2. t \div Q \in Int /\ (amount <= t \div Q <=> Q * amount <= t)
      BY <1>3, <3>1, RoundsDown
    <3>3. amount <= t \div Q
      BY <3>1, <3>2 DEF t
    <3>4. Q * amount <= t /\ Q * amount = n
      BY <1>1, <1>3, <3>2, <3>3
    <3>5. 1 * Word <= d * Word /\ d * Word \in Int
      <4>1. 1 <= d /\ d \in Nat
        BY <2>1
      <4> QED BY <1>1, <4>1, Monotone
    <3> QED BY <1>1, <2>1, <3>4, <3>5 DEF t
  <2>7. CASE amount > (Word - 1) \div Q /\ amount \div C >= d
    <3>1. ~(n \div d < Word)
      BY <2>1, <2>2, <2>3, <2>4, <2>5, <2>7
    <3> QED BY <1>4, <1>11, <2>7, <3>1 DEF Exact, Q
  <2>8. CASE ~(amount > (Word - 1) \div Q /\ amount \div C >= d)
    <3>1. n \div d < Word
      BY <2>1, <2>2, <2>3, <2>4, <2>5, <2>6, <2>8
    <3>2. Exact(n, d) = {[quotient |-> n \div d, remains |-> n % d # 0]}
      BY <1>11, <3>1 DEF Exact, QuotientOf
    <3>3. Q96Divided(amount, d) = {[quotient |-> n \div d, remains |-> n % d # 0]}
      BY <1>4, <1>11, <2>8
    <3> QED BY <3>2, <3>3 DEF Q
  <2> QED BY <2>7, <2>8
<1> QED BY <1>8, <1>9, <1>10, <1>11

-----------------------------------------------------------------------------
(* Floors and ceilings                                                         *)

LEMMA ExactFloor ==
  ASSUME NEW n \in Nat, NEW d \in Words
  PROVE  {q.quotient : q \in Exact(n, d)} = Floor(n, d)
<1>1. CASE d # 0 /\ n \div d < Word
  BY <1>1 DEF Exact, QuotientOf, Floor, Checked
<1>2. CASE ~(d # 0 /\ n \div d < Word)
  BY <1>2 DEF Exact, Floor, Checked
<1> QED BY <1>1, <1>2

LEMMA ExactCeiling ==
  ASSUME NEW n \in Nat, NEW d \in Words
  PROVE  UNION {RoundUpIfRemainder(q.quotient, q.remains) : q \in Exact(n, d)} = Ceiling(n, d)
<1>1. CASE d = 0
  BY <1>1 DEF Exact, Ceiling
<1>2. CASE d # 0
  <2> DEFINE c == (n + d - 1) \div d
             q == n \div d
  <2>1. d \in Nat \ {0} /\ Word \in Nat
    BY <1>2, WordType
  <2>2. c = q + (IF n % d # 0 THEN 1 ELSE 0) /\ q \in Int
    <3>1. n \in Int
      OBVIOUS
    <3>2. c = q + (IF n % d # 0 THEN 1 ELSE 0)
      BY <2>1, <3>1, CeilingIs
    <3>3. q \in Int
      BY <2>1, <3>1, DivFloor
    <3> QED BY <3>2, <3>3
  <2>3. Ceiling(n, d) = Checked(c)
    BY <1>2 DEF Ceiling
  <2> HIDE DEF c
  <2>4. CASE q < Word
    <3>1. Exact(n, d) = {QuotientOf(n, d)}
      BY <1>2, <2>4 DEF Exact
    <3>2. QuotientOf(n, d).quotient = q /\ QuotientOf(n, d).remains = (n % d # 0)
      BY DEF QuotientOf
    <3> HIDE DEF q
    <3>3. UNION {RoundUpIfRemainder(z.quotient, z.remains) : z \in Exact(n, d)}
            = RoundUpIfRemainder(QuotientOf(n, d).quotient, QuotientOf(n, d).remains)
      BY <3>1
    <3>4. CASE n % d # 0
      <4>1. RoundUpIfRemainder(QuotientOf(n, d).quotient, QuotientOf(n, d).remains) = Checked(q + 1)
        BY <3>2, <3>4 DEF RoundUpIfRemainder
      <4> QED BY <2>2, <2>3, <3>3, <3>4, <4>1
    <3>5. CASE ~(n % d # 0)
      <4>1. RoundUpIfRemainder(QuotientOf(n, d).quotient, QuotientOf(n, d).remains) = Checked(q)
        BY <3>2, <3>5 DEF RoundUpIfRemainder
      <4> QED BY <2>2, <2>3, <3>3, <3>5, <4>1
    <3> QED BY <3>4, <3>5
  <2>5. CASE ~(q < Word)
    <3>1. Exact(n, d) = {}
      BY <2>5 DEF Exact
    <3>2. ~(c < Word)
      <4> HIDE DEF q
      <4> QED BY <2>1, <2>2, <2>5
    <3>3. Checked(c) = {}
      BY <3>2 DEF Checked
    <3> QED BY <2>3, <3>1, <3>3
  <2> QED BY <2>4, <2>5
<1> QED BY <1>1, <1>2

\* Every quotient mul_div returns is exact, and it fails only where none fits.
LEMMA MulDivExact ==
  ASSUME NEW a \in Words, NEW b \in Words, NEW d \in Words
  PROVE  /\ MulDiv(a, b, d) = Floor(a * b, d)
         /\ MulDivRoundingUp(a, b, d) = Ceiling(a * b, d)
<1> DEFINE n == a * b
<1>1. n \in Nat
  BY WordType
<1>2. Divided(a, b, d) = Exact(n, d)
  BY DividedExact
<1> HIDE DEF n
<1> QED BY <1>1, <1>2, ExactFloor, ExactCeiling DEF n, MulDiv, MulDivRoundingUp

\* ... and every Q96 ratio.
LEMMA MulQ96DivExact ==
  ASSUME NEW amount \in Words, NEW d \in Words
  PROVE  /\ MulQ96Div(amount, d) = Floor(amount * 2^QBits, d)
         /\ MulQ96DivRoundingUp(amount, d) = Ceiling(amount * 2^QBits, d)
<1> DEFINE n == amount * 2^QBits
<1>1. n \in Nat
  <2>1. amount \in Nat /\ 2^QBits \in Nat
    BY FullMathAssumption, WordType, PowType
  <2> QED BY <2>1
<1>2. Q96Divided(amount, d) = Exact(n, d)
  BY Q96DividedExact
<1> HIDE DEF n
<1> QED BY <1>1, <1>2, ExactFloor, ExactCeiling DEF n, MulQ96Div, MulQ96DivRoundingUp

-----------------------------------------------------------------------------
(* Limbs                                                                       *)

LEMMA LimbType == /\ LimbBits \in Nat /\ Limb \in Nat \ {0} /\ Small \in Nat \ {0} /\ Small <= Limb
                  /\ Wide \in Nat \ {0}
                  /\ 2^((1 - 1) * LimbBits) = 1 /\ 2^((2 - 1) * LimbBits) = Limb
                  /\ 2^((3 - 1) * LimbBits) = Limb * Limb
                  /\ 2^((4 - 1) * LimbBits) = Limb * (Limb * Limb)
                  /\ Wide = Limb * (Limb * (Limb * Limb))
<1> DEFINE b == LimbBits
<1>1. b \in Nat /\ Small \in 1 .. 2^b
  BY SmallRatioAssumption
<1>2. 2^b \in Nat \ {0} /\ Limb = 2^b
  BY <1>1, PowType DEF Limb
<1>3. (1 - 1) * b = 0 /\ (2 - 1) * b = b /\ (3 - 1) * b = b + b /\ (4 - 1) * b = b + (b + b)
      /\ 4 * b = b + (b + (b + b))
  BY <1>1
<1>4. b + b \in Nat /\ b + (b + b) \in Nat
  BY <1>1
<1>5. 2^(b + b) = Limb * Limb
  BY <1>1, <1>2, PowAdd
<1>6. 2^(b + (b + b)) = Limb * (Limb * Limb)
  BY <1>1, <1>2, <1>4, <1>5, PowAdd
<1>7. 2^(b + (b + (b + b))) = Limb * (Limb * (Limb * Limb))
  BY <1>1, <1>2, <1>4, <1>6, PowAdd
<1>8. Wide = Limb * (Limb * (Limb * Limb))
  BY <1>3, <1>7 DEF Wide
<1>9. Wide \in Nat \ {0}
  BY <1>1, PowType DEF Wide
<1>10. Small \in Nat \ {0} /\ Small <= Limb
  BY <1>1, <1>2
<1> QED BY <1>1, <1>2, <1>3, <1>5, <1>6, <1>8, <1>9, <1>10, PowZero

\* Cutting n down by L and then by M is cutting it down by their product.
LEMMA NestedQuotient ==
  ASSUME NEW n \in Nat, NEW M \in Nat \ {0}, NEW L \in Nat \ {0}
  PROVE  n \div (L * M) = (n \div M) \div L /\ n \div M \in Nat
<1> DEFINE a == n \div M
           r == n % M
           q == a \div L
           s == a % L
<1>1. n = M * a + r /\ r \in 0 .. M - 1 /\ a \in Int
  BY Remainder, DivFloor
<1>2. 0 <= a
  BY DivLower
<1> HIDE DEF a, r
<1>3. a = L * q + s /\ s \in 0 .. L - 1 /\ q \in Int
  BY <1>1, Remainder, DivFloor
<1> HIDE DEF q, s
<1> DEFINE t == M * s + r
           d == L * M
<1>4. n = d * q + t
  <2>1. M * (L * q + s) + r = (L * M) * q + (M * s + r)
    BY <1>1, <1>3
  <2> QED BY <1>1, <1>3, <2>1
<1>5. t \in 0 .. d - 1 /\ d \in Nat \ {0}
  <2>1. M * (s + 1) <= M * L /\ M * (s + 1) = M * s + M /\ M * L = d
    <3>1. s + 1 \in Int /\ L \in Int /\ s + 1 <= L
      BY <1>3
    <3> QED BY <1>3, <3>1, CancelFactor
  <2>2. M * s \in Nat /\ d \in Nat /\ d # 0
    BY <1>3
  <2> QED BY <1>1, <2>1, <2>2
<1> HIDE DEF t, d
<1>6. n \div d = q
  BY <1>3, <1>4, <1>5, QuotientIs
<1> QED BY <1>1, <1>2, <1>6 DEF a, q, d

\* An amount is the number its limbs spell.
LEMMA LimbsSpell ==
  ASSUME NEW n \in 0 .. Wide - 1
  PROVE  /\ Limbs(n) \in [1..4 -> 0 .. Limb - 1]
         /\ OfLimbs(Limbs(n)) = n
<1> DEFINE L == Limb
           a1 == n \div L
           a2 == a1 \div L
           a3 == a2 \div L
<1>1. L \in Nat \ {0} /\ n \in Nat /\ Wide \in Nat
  BY LimbType
<1> HIDE DEF L
<1>2. ASSUME NEW a \in Nat PROVE a = L * (a \div L) + (a % L) /\ a % L \in 0 .. L - 1 /\ a \div L \in Nat
  <2>1. L * 0 <= a /\ a \in Int /\ L \in Int /\ L > 0
    BY <1>1
  <2>2. a \div L \in Nat
    BY <1>1, <2>1, DivLower
  <2> QED BY <1>1, <2>1, <2>2, Remainder
<1>3. a1 \in Nat /\ a2 \in Nat /\ a3 \in Nat
  BY <1>1, <1>2
<1>4. n \div 2^((1 - 1) * LimbBits) = n
  <2>1. n = 1 * n + 0 /\ 0 \in 0 .. 1 - 1 /\ n \in Int /\ 1 \in Nat \ {0}
    BY <1>1
  <2>2. n \div 1 = n
    BY <2>1, QuotientIs
  <2> QED BY <2>2, LimbType
<1>5. n \div 2^((2 - 1) * LimbBits) = a1
  BY LimbType DEF L
<1>6. n \div 2^((3 - 1) * LimbBits) = a2
  <2>1. n \div (L * L) = (n \div L) \div L
    BY <1>1, NestedQuotient
  <2> QED BY <2>1, LimbType DEF L
<1>7. n \div 2^((4 - 1) * LimbBits) = a3
  <2> DEFINE M == L * L
  <2>1. M \in Nat \ {0} /\ n \div M = a2
    <3>1. M \in Nat \ {0}
      BY <1>1
    <3> QED BY <1>1, <3>1, NestedQuotient
  <2> HIDE DEF M
  <2>2. n \div (L * M) = (n \div M) \div L
    BY <1>1, <2>1, NestedQuotient
  <2>3. 2^((4 - 1) * LimbBits) = L * M
    BY LimbType DEF L, M
  <2> QED BY <2>1, <2>2, <2>3
<1> HIDE DEF a1, a2, a3
<1>8. a3 % L = a3
  <2>1. a3 < L
    <3> SUFFICES ASSUME L <= a3 PROVE FALSE
      BY <1>1, <1>3
    <3>1. n = L * a1 + (n % L) /\ n % L \in 0 .. L - 1
      BY <1>1, <1>2 DEF a1
    <3>2. a1 = L * a2 + (a1 % L) /\ a1 % L \in 0 .. L - 1
      BY <1>2, <1>3 DEF a2
    <3>3. a2 = L * a3 + (a2 % L) /\ a2 % L \in 0 .. L - 1
      BY <1>2, <1>3 DEF a3
    <3>4. L * L <= L * a3 /\ L * L \in Int /\ L * a3 \in Int
      BY <1>1, <1>3
    <3>5. L * L <= a2
      BY <1>1, <3>3, <3>4
    <3> DEFINE M == L * L
    <3>6. M \in Int /\ L * M <= L * a2
      <4>1. M \in Int
        BY <1>1
      <4> HIDE DEF M
      <4>2. M <= a2
        BY <3>5 DEF M
      <4> QED BY <1>1, <1>3, <4>1, <4>2, CancelFactor
    <3>7. L * M \in Int /\ L * a2 \in Int
      BY <1>1, <1>3, <3>6
    <3>8. L * M <= a1
      <4> HIDE DEF M
      <4> QED BY <1>1, <1>3, <3>2, <3>6, <3>7
    <3> DEFINE K == L * M
    <3>9. L * K <= L * a1
      <4>1. K \in Int /\ K <= a1
        BY <3>7, <3>8
      <4> HIDE DEF K
      <4> QED BY <1>1, <1>3, <4>1, CancelFactor
    <3>10. L * K \in Int /\ L * a1 \in Int
      BY <1>1, <1>3, <3>7
    <3>11. L * K <= n
      <4> HIDE DEF K
      <4> QED BY <1>1, <1>3, <3>1, <3>9, <3>10
    <3>12. L * K = Wide
      BY LimbType DEF L
    <3> QED BY <1>1, <3>11, <3>12
  <2>2. a3 = L * 0 + a3 /\ a3 \in 0 .. L - 1 /\ a3 \in Int
    BY <1>1, <1>3, <2>1
  <2> QED BY <1>1, <2>2, QuotientIs
<1> DEFINE l == Limbs(n)
<1>9. l = [i \in 1..4 |-> (n \div 2^((i - 1) * LimbBits)) % L]
  BY DEF Limbs, L
<1> HIDE DEF l
<1>10. l[1] = n % L /\ l[2] = a1 % L /\ l[3] = a2 % L /\ l[4] = a3 % L
  <2>1. 1 \in 1..4 /\ 2 \in 1..4 /\ 3 \in 1..4 /\ 4 \in 1..4
    OBVIOUS
  <2>2. l[1] = (n \div 2^((1 - 1) * LimbBits)) % L
    BY <1>9, <2>1
  <2>3. l[2] = (n \div 2^((2 - 1) * LimbBits)) % L
    BY <1>9, <2>1
  <2>4. l[3] = (n \div 2^((3 - 1) * LimbBits)) % L
    BY <1>9, <2>1
  <2>5. l[4] = (n \div 2^((4 - 1) * LimbBits)) % L
    BY <1>9, <2>1
  <2> QED BY <1>4, <1>5, <1>6, <1>7, <2>2, <2>3, <2>4, <2>5
<1>11. l \in [1..4 -> 0 .. L - 1]
  <2>1. l[1] \in 0 .. L - 1 /\ l[2] \in 0 .. L - 1 /\ l[3] \in 0 .. L - 1 /\ l[4] \in 0 .. L - 1
    BY <1>1, <1>2, <1>3, <1>10
  <2>2. \A i \in 1..4 : i = 1 \/ i = 2 \/ i = 3 \/ i = 4
    OBVIOUS
  <2>3. \A i \in 1..4 : l[i] \in 0 .. L - 1
    BY <2>1, <2>2
  <2>4. l \in [1..4 -> {l[i] : i \in 1..4}]
    BY <1>9
  <2> QED BY <2>3, <2>4
<1>12. n = l[1] + L * (l[2] + L * (l[3] + L * l[4]))
  <2>1. n = L * a1 + (n % L)
    BY <1>1, <1>2 DEF a1
  <2>2. a1 = L * a2 + (a1 % L)
    BY <1>2, <1>3 DEF a2
  <2>3. a2 = L * a3 + (a2 % L)
    BY <1>2, <1>3 DEF a3
  <2>4. l[1] \in Int /\ l[2] \in Int /\ l[3] \in Int /\ l[4] \in Int
    BY <1>11
  <2>5. a2 = l[3] + L * l[4]
    BY <1>1, <1>3, <1>8, <1>10, <2>3, <2>4
  <2>6. a1 = l[2] + L * a2
    BY <1>1, <1>3, <1>10, <2>2, <2>4
  <2>7. n = l[1] + L * a1
    BY <1>1, <1>3, <1>10, <2>1, <2>4
  <2> QED BY <2>5, <2>6, <2>7
<1> QED BY <1>11, <1>12 DEF OfLimbs, l, L

\* The carries of a product: each limb keeps what is below a limb.
LEMMA ProductLimbsAre ==
  ASSUME NEW limbs \in [1..4 -> Nat], NEW n \in 1..4, NEW numerator \in Nat
  PROVE  \E c \in [0..n -> Nat] :
           /\ c[0] = 0
           /\ \A i \in 1..n : ProductLimbs(limbs, n, numerator)[i] = (limbs[i] * numerator + c[i - 1]) % Limb
           /\ \A i \in 1..n : c[i] = (limbs[i] * numerator + c[i - 1]) \div Limb
           /\ ProductLimbs(limbs, n, numerator)[n + 1] = c[n]
           /\ \A i \in 1 .. n + 1 : ProductLimbs(limbs, n, numerator)[i] \in Nat
<1> DEFINE L == Limb
           T(i, x) == (limbs[i] * numerator + x) \div L
           step(i) == [x \in Nat |-> T(i, x)]
           g == [i \in 0..n |-> IF i = 0 THEN [x \in Nat |-> x] ELSE step(i)]
           Is(f) == f = [i \in 0..n |-> IF i = 0 THEN 0 ELSE T(i, f[i - 1])]
<1>1. L \in Nat \ {0} /\ n \in Nat
  BY LimbType
<1> HIDE DEF L
<1>2. ASSUME NEW i \in 1..n, NEW x \in Nat PROVE T(i, x) \in Nat
  <2> DEFINE a == limbs[i] * numerator + x
  <2>1. a \in Nat
    <3>1. limbs[i] \in Nat
      OBVIOUS
    <3> QED BY <3>1
  <2> HIDE DEF a
  <2>2. L * 0 <= a /\ a \in Int
    BY <1>1, <2>1
  <2>3. a \div L \in Nat
    BY <1>1, <2>2, DivLower
  <2> QED BY <2>3 DEF a
<1>3. \A i \in 1..n : step(i) \in [Nat -> Nat] /\ \A x \in Nat : step(i)[x] = T(i, x)
  BY <1>2
<1> HIDE DEF T, step
<1>4. g \in [0..n -> [Nat -> Nat]] /\ \A i \in 1..n : g[i] = step(i)
  <2>1. \A i \in 0..n : i = 0 \/ i \in 1..n
    OBVIOUS
  <2>2. \A i \in 1..n : i \in 0..n /\ i # 0
    OBVIOUS
  <2> QED BY <1>3, <2>1, <2>2
<1> HIDE DEF g
<1> DEFINE S == Nat
<1>5. n \in Nat /\ 0 \in S /\ g \in [0..n -> [S -> S]]
  BY <1>1, <1>4
<1> HIDE DEF S
<1>6. PICK f0 \in [0..n -> S] : IsIteration(f0, n, 0, g)
  BY <1>5, Iterates
<1> USE DEF S
<1>7. Is(f0)
  <2>1. \A i \in 0..n : f0[i] = IF i = 0 THEN 0 ELSE g[i][f0[i - 1]]
    BY <1>6 DEF IsIteration
  <2>2. \A i \in 0..n : i # 0 => i \in 1..n /\ f0[i - 1] \in Nat
    BY <1>1
  <2>3. \A i \in 0..n : f0[i] = IF i = 0 THEN 0 ELSE T(i, f0[i - 1])
    BY <1>3, <1>4, <2>1, <2>2
  <2> QED BY <2>3
<1> DEFINE c == CHOOSE f : Is(f)
<1>8. Is(c)
  <2> HIDE DEF Is
  <2> QED BY <1>7
<1>9. ProductLimbs(limbs, n, numerator) =
        [i \in 1 .. n + 1 |-> IF i > n THEN c[n] ELSE (limbs[i] * numerator + c[i - 1]) % L]
  BY DEF ProductLimbs, T, L
<1> HIDE DEF c
<1>10. c[0] = 0 /\ \A i \in 1..n : c[i] = T(i, c[i - 1])
  <2>1. 0 \in 0..n
    BY <1>1
  <2>2. \A i \in 1..n : i \in 0..n /\ i # 0
    OBVIOUS
  <2> QED BY <1>8, <2>1, <2>2
<1>11. \A i \in 0..n : c[i] \in Nat
  <2> DEFINE good == {i \in 0..n : c[i] \in Nat}
  <2>1. 0 \in good
    BY <1>1, <1>10
  <2>2. ASSUME NEW i \in 0 .. n - 1, i \in good PROVE i + 1 \in good
    <3>1. i + 1 \in 1..n /\ i + 1 \in 0..n /\ (i + 1) - 1 = i
      OBVIOUS
    <3>2. c[i + 1] = T(i + 1, c[i])
      BY <1>10, <3>1
    <3>3. c[i] \in Nat
      BY <2>2
    <3>4. T(i + 1, c[i]) \in Nat
      BY <1>2, <3>1, <3>3
    <3> QED BY <3>1, <3>2, <3>4
  <2>3. good \in SUBSET (0..n) /\ 0 \in Int /\ n \in Int
    BY <1>1
  <2>4. \A i \in 0 .. n - 1 : i \in good => i + 1 \in good
    BY <2>2
  <2> HIDE DEF good
  <2>5. \A i \in 0..n : i \in good
    BY <2>1, <2>3, <2>4, IntervalInduction
  <2> QED BY <2>5 DEF good
<1>12. c \in [0..n -> Nat]
  <2>1. c = [i \in 0..n |-> c[i]]
    BY <1>8
  <2> QED BY <1>11, <2>1
<1> DEFINE product == ProductLimbs(limbs, n, numerator)
<1>13. \A i \in 1..n : product[i] = (limbs[i] * numerator + c[i - 1]) % L
  BY <1>9
<1>14. product[n + 1] = c[n]
  <2>1. n + 1 \in 1 .. n + 1 /\ n + 1 > n
    OBVIOUS
  <2> QED BY <1>9, <2>1
<1> HIDE DEF product
<1>15. \A i \in 1 .. n + 1 : product[i] \in Nat
  <2> TAKE i \in 1 .. n + 1
  <2>1. CASE i = n + 1
    BY <1>1, <1>11, <1>14, <2>1
  <2>2. CASE i \in 1..n
    <3> DEFINE a == limbs[i] * numerator + c[i - 1]
    <3>1. c[i - 1] \in Nat /\ limbs[i] \in Nat
      <4>1. i - 1 \in 0..n /\ i \in 1..4
        BY <1>1, <2>2
      <4> QED BY <1>11, <4>1
    <3>2. a \in Int
      <4> DEFINE u == limbs[i]
                 v == c[i - 1]
      <4>1. u \in Nat /\ v \in Nat
        BY <3>1
      <4> HIDE DEF u, v
      <4>2. u * numerator + v \in Int
        BY <4>1
      <4> QED BY <4>2 DEF u, v
    <3> HIDE DEF a
    <3>3. a % L \in 0 .. L - 1
      BY <1>1, <3>2, Remainder
    <3>4. a % L \in Nat
      <4> DEFINE r == a % L
      <4>1. r \in 0 .. L - 1
        BY <3>3
      <4> HIDE DEF r
      <4>2. r \in Nat
        BY <1>1, <4>1
      <4> QED BY <4>2 DEF r
    <3> QED BY <1>13, <2>2, <3>4 DEF a
  <2> QED BY <2>1, <2>2
<1> QED BY <1>10, <1>12, <1>13, <1>14, <1>15 DEF T, L, product

\* The remainders of a division from the top limb down.
LEMMA DividedLimbsAre ==
  ASSUME NEW n \in 1..4, NEW product \in [1 .. n + 1 -> Nat], NEW d \in Nat \ {0}
  PROVE  \E r \in [1 .. n + 2 -> Nat] :
           /\ r[n + 2] = 0
           /\ \A i \in 1 .. n + 1 : r[i] = (r[i + 1] * Limb + product[i]) % d
           /\ \A i \in 1..4 : DividedLimbs(product, n, d).quotient[i]
                = IF i > n + 1 THEN 0 ELSE (r[i + 1] * Limb + product[i]) \div d
           /\ DividedLimbs(product, n, d).remainder = r[1]
<1> DEFINE L == Limb
           top == n + 1
           T(i, x) == (x * L + product[i]) % d
           step(i) == [x \in Nat |-> T(i, x)]
           g == [k \in 0..top |-> IF k = 0 THEN [x \in Nat |-> x] ELSE step(top + 1 - k)]
           Is(f) == f = [i \in 1 .. top + 1 |-> IF i > top THEN 0 ELSE T(i, f[i + 1])]
<1>1. L \in Nat \ {0} /\ n \in Nat /\ top \in Nat /\ top >= 1 /\ top + 1 = n + 2
  BY LimbType
<1> HIDE DEF L
<1>2. ASSUME NEW i \in 1..top, NEW x \in Nat PROVE T(i, x) \in Nat
  <2> DEFINE a == x * L + product[i]
             r == a % d
  <2>1. a \in Int /\ d \in Int /\ d > 0
    <3>1. product[i] \in Nat /\ x * L \in Nat
      BY <1>1
    <3> QED BY <3>1
  <2> HIDE DEF a
  <2>2. r \in 0 .. d - 1
    BY <2>1, Remainder
  <2> HIDE DEF r
  <2>3. r \in Nat
    BY <2>2
  <2> QED BY <2>3 DEF a, r
<1>3. \A i \in 1..top : step(i) \in [Nat -> Nat] /\ \A x \in Nat : step(i)[x] = T(i, x)
  BY <1>2
<1> HIDE DEF T, step
<1>4. g \in [0..top -> [Nat -> Nat]] /\ \A k \in 1..top : g[k] = step(top + 1 - k)
  <2>1. \A k \in 0..top : k = 0 \/ (top + 1 - k \in 1..top)
    BY <1>1
  <2>2. \A k \in 1..top : k \in 0..top /\ k # 0
    BY <1>1
  <2> HIDE DEF top
  <2> QED BY <1>3, <2>1, <2>2
<1> HIDE DEF g, top
<1> DEFINE S == Nat
<1>5. top \in Nat /\ 0 \in S /\ g \in [0..top -> [S -> S]]
  BY <1>1, <1>4
<1> HIDE DEF S
<1>6. PICK f1 \in [0..top -> S] : IsIteration(f1, top, 0, g)
  BY <1>5, Iterates
<1> USE DEF S
<1> DEFINE f0 == [i \in 1 .. top + 1 |-> f1[top + 1 - i]]
<1>7. Is(f0)
  <2>1. \A k \in 0..top : f1[k] = IF k = 0 THEN 0 ELSE g[k][f1[k - 1]]
    BY <1>6 DEF IsIteration
  <2>2. ASSUME NEW i \in 1 .. top + 1
        PROVE  f0[i] = IF i > top THEN 0 ELSE T(i, f0[i + 1])
    <3> DEFINE k == top + 1 - i
    <3>1. k \in 0..top /\ (i > top <=> k = 0) /\ top + 1 - k = i
      BY <1>1
    <3>2. f0[i] = f1[k]
      OBVIOUS
    <3>3. CASE i > top
      BY <2>1, <3>1, <3>2, <3>3
    <3>4. CASE ~(i > top)
      <4>1. i + 1 \in 1 .. top + 1 /\ top + 1 - (i + 1) = k - 1 /\ k - 1 \in 0..top /\ k \in 1..top
            /\ i \in 1..top
        BY <1>1, <3>1, <3>4
      <4>2. f0[i + 1] = f1[k - 1]
        BY <4>1
      <4> HIDE DEF f0, k
      <4>3. f1[k] = g[k][f1[k - 1]]
        BY <2>1, <3>1, <3>4
      <4>4. g[k] = step(i)
        BY <1>4, <3>1, <4>1
      <4>5. f1[k - 1] \in Nat
        BY <1>6, <4>1
      <4>6. step(i)[f1[k - 1]] = T(i, f1[k - 1])
        BY <1>3, <4>1, <4>5
      <4> QED BY <3>2, <3>4, <4>2, <4>3, <4>4, <4>6
    <3> QED BY <3>3, <3>4
  <2>3. f0 = [i \in 1 .. top + 1 |-> f0[i]]
    OBVIOUS
  <2> HIDE DEF f0
  <2> QED BY <2>2, <2>3
<1> DEFINE r == CHOOSE f : Is(f)
<1>8. Is(r)
  <2> HIDE DEF Is, f0
  <2> QED BY <1>7
<1>9. DividedLimbs(product, n, d) =
        [quotient  |-> [i \in 1..4 |-> IF i > top THEN 0 ELSE (r[i + 1] * L + product[i]) \div d],
         remainder |-> r[1]]
  BY DEF DividedLimbs, T, L, top
<1> HIDE DEF r
<1>10. r[top + 1] = 0 /\ \A i \in 1..top : r[i] = T(i, r[i + 1])
  <2>1. top + 1 \in 1 .. top + 1 /\ top + 1 > top
    BY <1>1
  <2>2. \A i \in 1..top : i \in 1 .. top + 1 /\ ~(i > top)
    BY <1>1
  <2> QED BY <1>8, <2>1, <2>2
<1>11. \A i \in 1 .. top + 1 : r[i] \in Nat
  <2> DEFINE good == {k \in 0..top : r[top + 1 - k] \in Nat}
  <2>1. 0 \in good
    BY <1>1, <1>10
  <2>2. ASSUME NEW k \in 0 .. top - 1, k \in good PROVE k + 1 \in good
    <3> DEFINE i == top - k
    <3>1. i \in 1..top /\ top + 1 - (k + 1) = i /\ top + 1 - k = i + 1 /\ k + 1 \in 0..top
      BY <1>1
    <3> HIDE DEF i
    <3>2. r[i] = T(i, r[i + 1])
      BY <1>10, <3>1
    <3>3. r[i + 1] \in Nat
      BY <2>2, <3>1
    <3>4. T(i, r[i + 1]) \in Nat
      BY <1>2, <3>1, <3>3
    <3> QED BY <3>1, <3>2, <3>4
  <2>3. good \in SUBSET (0..top) /\ 0 \in Int /\ top \in Int
    BY <1>1
  <2>4. \A k \in 0 .. top - 1 : k \in good => k + 1 \in good
    BY <2>2
  <2> HIDE DEF good
  <2>5. \A k \in 0..top : k \in good
    BY <2>1, <2>3, <2>4, IntervalInduction
  <2> TAKE i \in 1 .. top + 1
  <2>6. top + 1 - i \in 0..top /\ top + 1 - (top + 1 - i) = i
    BY <1>1
  <2> QED BY <2>5, <2>6 DEF good
<1>12. r \in [1 .. top + 1 -> Nat]
  <2>1. r = [i \in 1 .. top + 1 |-> r[i]]
    BY <1>8
  <2> QED BY <1>11, <2>1
<1> DEFINE result == DividedLimbs(product, n, d)
<1>13. result.quotient = [i \in 1..4 |-> IF i > top THEN 0 ELSE (r[i + 1] * L + product[i]) \div d]
       /\ result.remainder = r[1]
  BY <1>9
<1> HIDE DEF result
<1>14. \A i \in 1..4 : result.quotient[i] = IF i > top THEN 0 ELSE (r[i + 1] * L + product[i]) \div d
  BY <1>13
<1>15. \A i \in 1..top : r[i] = (r[i + 1] * L + product[i]) % d
  BY <1>10 DEF T
<1>16. r \in [1 .. n + 2 -> Nat] /\ r[n + 2] = 0
  BY <1>1, <1>10, <1>12
<1> QED BY <1>13, <1>14, <1>15, <1>16 DEF L, top, result

\* What a rung of the multiplication and one of the division compute ...
Carries(limb, m, below, p, c) ==
  p = (limb * m + below) % Limb /\ c = (limb * m + below) \div Limb

Divides(p, d, r, s, t) == s = (r * Limb + p) % d /\ t = (r * Limb + p) \div d

\* ... and what the limbs from some limb up then stand for.
Multiplied(a, m, c, n) == n = a * m + c
Shared(n, d, q, r)     == n = d * q + r

LEMMA ProductStep ==
  ASSUME NEW limb \in Nat, NEW m \in Nat, NEW below \in Nat, NEW a \in Nat,
         NEW n \in Nat, NEW p, NEW c, Carries(limb, m, below, p, c), Multiplied(a, m, c, n)
  PROVE  Multiplied(limb + Limb * a, m, below, p + Limb * n)
<1> DEFINE L == Limb
           x == limb * m + below
           u == L * a
<1>1. L \in Nat \ {0} /\ x \in Int
  BY LimbType
<1>2. x = L * c + p /\ p \in Int /\ c \in Int
  <2>1. p = x % L /\ c = x \div L
    BY DEF Carries
  <2> HIDE DEF L, x
  <2>2. x = L * (x \div L) + (x % L) /\ x % L \in 0 .. L - 1 /\ x \div L \in Int
    BY <1>1, Remainder, DivFloor
  <2>3. p \in 0 .. L - 1
    BY <2>1, <2>2
  <2> QED BY <1>1, <2>1, <2>2, <2>3
<1>3. n = a * m + c
  BY DEF Multiplied
<1> HIDE DEF L
<1>4. L * n = (L * a) * m + L * c
  <2>1. L * (a * m + c) = L * (a * m) + L * c
    <3>1. c \in Int /\ a * m \in Int
      BY <1>2
    <3> QED BY <1>1, <3>1
  <2>2. L * (a * m) = (L * a) * m
    BY <1>1
  <2> QED BY <1>3, <2>1, <2>2
<1>5. u \in Int
  BY <1>1
<1>6. (limb + u) * m = limb * m + u * m
  <2> HIDE DEF u
  <2> QED BY <1>5
<1> DEFINE y == limb * m
           w == u * m
           v == L * c
<1>7. y \in Int /\ w \in Int /\ v \in Int /\ x = y + below /\ x = v + p /\ L * n = w + v
  BY <1>1, <1>2, <1>4, <1>5
<1> HIDE DEF x, y, v, w
<1>8. p + L * n = (y + w) + below
  BY <1>2, <1>7
<1>9. p + L * n = (limb + u) * m + below
  BY <1>6, <1>8 DEF y, w
<1> QED BY <1>9 DEF Multiplied, L, u

LEMMA DivideStep ==
  ASSUME NEW d \in Nat \ {0}, NEW p \in Nat, NEW r \in Nat, NEW q \in Int, NEW n \in Nat,
         NEW s, NEW t, Divides(p, d, r, s, t), Shared(n, d, q, r)
  PROVE  t \in Int /\ s \in 0 .. d - 1 /\ Shared(p + Limb * n, d, t + Limb * q, s)
<1> DEFINE L == Limb
           x == r * L + p
<1>1. L \in Nat \ {0} /\ x \in Int
  BY LimbType
<1>2. x = d * t + s /\ s \in 0 .. d - 1 /\ t \in Int
  <2>1. s = x % d /\ t = x \div d
    BY DEF Divides
  <2> HIDE DEF x
  <2> QED BY <1>1, <2>1, Remainder, DivFloor
<1>3. n = d * q + r
  BY DEF Shared
<1> HIDE DEF L
<1> DEFINE y == d * (L * q)
<1>4. L * n = y + r * L
  <2>1. L * (d * q + r) = d * (L * q) + r * L
    BY <1>1
  <2> QED BY <1>3, <2>1
<1>5. d * (t + L * q) = d * t + y
  <2>1. t \in Int /\ L * q \in Int
    BY <1>1, <1>2
  <2> QED BY <2>1
<1> DEFINE v == d * t
           w == r * L
<1>6. y \in Int /\ v \in Int /\ w \in Int /\ s \in Int /\ x = w + p /\ x = v + s /\ L * n = y + w
      /\ d * (t + L * q) = v + y
  BY <1>1, <1>2, <1>4, <1>5
<1> HIDE DEF x, y, v, w
<1>7. p + L * n = d * (t + L * q) + s
  BY <1>6
<1> QED BY <1>2, <1>7 DEF Shared, L

\* What four digits spell stays below the fifth.
LEMMA FourDigits ==
  ASSUME NEW p1 \in 0 .. Limb - 1, NEW p2 \in 0 .. Limb - 1, NEW p3 \in 0 .. Limb - 1,
         NEW p4 \in 0 .. Limb - 1
  PROVE  p1 + Limb * (p2 + Limb * (p3 + Limb * p4)) \in 0 .. Wide - 1
<1> DEFINE L == Limb
<1>1. L \in Nat \ {0}
  BY LimbType
<1>2. ASSUME NEW K \in Nat, NEW x \in 0 .. K - 1, NEW p \in 0 .. L - 1
      PROVE  p + L * x \in 0 .. L * K - 1
  <2>1. x + 1 \in Int /\ K \in Int /\ x + 1 <= K
    OBVIOUS
  <2>2. L * (x + 1) <= L * K
    BY <1>1, <2>1, CancelFactor
  <2>3. L * (x + 1) = L * x + L /\ L * x \in Nat /\ L * K \in Nat
    BY <1>1
  <2> QED BY <1>1, <2>2, <2>3
<1>3. p1 \in 0 .. L - 1 /\ p2 \in 0 .. L - 1 /\ p3 \in 0 .. L - 1 /\ p4 \in 0 .. L - 1
  OBVIOUS
<1>4. Wide = L * (L * (L * L))
  BY LimbType
<1> HIDE DEF L
<1> DEFINE M == L * L
           K == L * M
           x3 == p3 + L * p4
           x2 == p2 + L * x3
           x1 == p1 + L * x2
<1>5. M \in Nat /\ K \in Nat
  BY <1>1
<1>6. x3 \in 0 .. M - 1
  BY <1>1, <1>2, <1>3
<1> HIDE DEF M, x3
<1>7. x2 \in 0 .. K - 1
  BY <1>2, <1>3, <1>5, <1>6
<1> HIDE DEF K, x2
<1>8. x1 \in 0 .. L * K - 1
  BY <1>2, <1>3, <1>5, <1>7
<1> HIDE DEF x1
<1> QED BY <1>4, <1>8 DEF x1, x2, x3, M, K, L

\* The fifth limb of the product decides whether the quotient fits.
LEMMA TopLimbDecides ==
  ASSUME NEW low \in 0 .. Wide - 1, NEW p \in Nat, NEW d \in Nat \ {0}
  PROVE  (low + Wide * p) \div d < Wide <=> p < d
<1> DEFINE n == low + Wide * p
           q == n \div d
<1>1. Wide \in Nat \ {0}
  BY LimbType
<1>2. n \in Int
  BY <1>1
<1> HIDE DEF n
<1>3. q \in Int /\ (Wide <= q <=> d * Wide <= n)
  <2>1. Wide \in Int
    BY <1>1
  <2> QED BY <1>2, <2>1, RoundsDown
<1>4. ASSUME p < d PROVE n < d * Wide
  <2>1. p + 1 \in Nat /\ p + 1 <= d /\ Wide \in Nat
    BY <1>1, <1>4
  <2>2. (p + 1) * Wide <= d * Wide
    BY <2>1, Monotone
  <2>3. (p + 1) * Wide = Wide * p + Wide /\ Wide * p \in Nat /\ d * Wide \in Nat
    BY <1>1
  <2> QED BY <1>1, <2>2, <2>3 DEF n
<1>5. ASSUME ~(p < d) PROVE d * Wide <= n
  <2>1. d \in Nat /\ d <= p /\ Wide \in Nat
    BY <1>1, <1>5
  <2>2. d * Wide <= p * Wide
    BY <2>1, Monotone
  <2>3. p * Wide = Wide * p /\ Wide * p \in Nat /\ d * Wide \in Nat
    BY <1>1
  <2> QED BY <1>1, <2>2, <2>3 DEF n
<1>6. d * Wide \in Int
  BY <1>1
<1>7. q < Wide <=> p < d
  <2> HIDE DEF q
  <2>1. CASE p < d
    BY <1>1, <1>2, <1>3, <1>4, <1>6, <2>1
  <2>2. CASE ~(p < d)
    BY <1>1, <1>2, <1>3, <1>5, <1>6, <2>2
  <2> QED BY <2>1, <2>2
<1> QED BY <1>7 DEF q, n

\* What mul_div_u32 has to return.
SmallQuotient(x, d) == [quotient |-> x \div d, remainder |-> x % d]
SmallExact(x, d) == IF d # 0 /\ x \div d < Wide THEN {SmallQuotient(x, d)} ELSE {}

\* An amount of fewer than three limbs times a small number: the quotient fits.
LEMMA FewLimbsFit ==
  ASSUME NEW a \in 0 .. Limb * Limb - 1, NEW m \in 0 .. Limb - 1, NEW d \in Nat \ {0}
  PROVE  (a * m) \div d < Wide
<1> DEFINE L == Limb
           M == L * L
           x == a * m
<1>1. L \in Nat \ {0} /\ Wide = L * (L * (L * L)) /\ Wide \in Nat
  BY LimbType
<1> HIDE DEF L
<1>2. M \in Nat \ {0}
  BY <1>1
<1>3. a \in 0 .. M - 1 /\ m \in 0 .. L - 1
  BY DEF M, L
<1>4. L <= M /\ M * M = Wide
  <2>1. 1 * L <= L * L
    BY <1>1, Monotone
  <2>2. (L * L) * (L * L) = L * (L * (L * L))
    BY <1>1
  <2> QED BY <1>1, <2>1, <2>2
<1> HIDE DEF M
<1>5. x \in Nat /\ x < Wide
  <2>1. m + 1 \in Nat /\ m + 1 <= M /\ a + 1 \in Nat /\ a + 1 <= M /\ m \in Nat /\ a \in Nat
    BY <1>1, <1>2, <1>3, <1>4
  <2>2. (a + 1) * M <= M * M
    BY <1>2, <2>1, Monotone
  <2>3. (m + 1) * (a + 1) <= M * (a + 1)
    BY <1>2, <2>1, Monotone
  <2>4. (m + 1) * (a + 1) = a * m + m + a + 1 /\ M * (a + 1) = (a + 1) * M /\ a * m \in Nat
        /\ (a + 1) * M \in Nat
    BY <1>2, <2>1
  <2> QED BY <1>1, <1>4, <2>1, <2>2, <2>3, <2>4
<1> HIDE DEF x
<1>6. x <= d * x /\ x \in Int
  <2>1. 1 * x <= d * x
    BY <1>5, Monotone
  <2> QED BY <1>5, <2>1
<1>7. x \div d \in Int /\ x \div d <= x
  BY <1>5, <1>6, DivUpper
<1> QED BY <1>1, <1>5, <1>7 DEF x

\* One limb: low64.
LEMMA OneLimb ==
  ASSUME NEW l \in [1..4 -> 0 .. Limb - 1], l[2] = 0, l[3] = 0, l[4] = 0,
         NEW m \in Nat, NEW d \in Nat \ {0}
  PROVE  LET result == DividedLimbs(ProductLimbs(l, 1, m), 1, d)
         IN  /\ OfLimbs(result.quotient) = (OfLimbs(l) * m) \div d
             /\ result.remainder = (OfLimbs(l) * m) % d
<1> DEFINE L == Limb
           p == ProductLimbs(l, 1, m)
           result == DividedLimbs(p, 1, d)
           x == OfLimbs(l) * m
<1>1. L \in Nat \ {0}
  BY LimbType
<1>2. l \in [1..4 -> Nat]
  BY <1>1
<1>3. 1 \in 1..4
  OBVIOUS
<1>4. PICK c \in [0..1 -> Nat] :
           /\ c[0] = 0
           /\ \A i \in 1..1 : p[i] = (l[i] * m + c[i - 1]) % L
           /\ \A i \in 1..1 : c[i] = (l[i] * m + c[i - 1]) \div L
           /\ p[1 + 1] = c[1]
           /\ \A i \in 1 .. 1 + 1 : p[i] \in Nat
  BY <1>2, <1>3, ProductLimbsAre DEF L
<1>5. p \in [1 .. 1 + 1 -> Nat]
  <2>1. p = [i \in 1 .. 1 + 1 |-> p[i]]
    BY DEF ProductLimbs
  <2> HIDE DEF p
  <2> QED BY <1>4, <2>1
<1> HIDE DEF p
<1>6. PICK r \in [1 .. 1 + 2 -> Nat] :
           /\ r[1 + 2] = 0
           /\ \A i \in 1 .. 1 + 1 : r[i] = (r[i + 1] * L + p[i]) % d
           /\ \A i \in 1..4 : result.quotient[i]
                = IF i > 1 + 1 THEN 0 ELSE (r[i + 1] * L + p[i]) \div d
           /\ result.remainder = r[1]
  BY <1>3, <1>5, DividedLimbsAre DEF L
<1> HIDE DEF L, result, x
\* The limbs by names.
<1> DEFINE l1 == l[1]   c1 == c[1]   p1 == p[1]   p2 == p[2]
           r1 == r[1]   r2 == r[2]   t1 == (r[2] * L + p[1]) \div d   t2 == (r[3] * L + p[2]) \div d
           z == 0
<1>7. /\ l1 \in Nat
      /\ c1 \in Nat
      /\ p1 \in Nat /\ p2 \in Nat
      /\ r1 \in Nat /\ r2 \in Nat
      /\ z \in Nat /\ z \in Int /\ z = 0 /\ p2 = c1
  BY <1>2, <1>4, <1>6
<1>11. Carries(l1, m, z, p1, c1)
  <2>1. 1 \in 1..1 /\ 1 - 1 = 0
    OBVIOUS
  <2> QED BY <1>4, <2>1 DEF Carries, L
<1>21. Divides(p1, d, r2, r1, t1)
  <2>1. 1 \in 1 .. 1 + 1 /\ 1 + 1 = 2 /\ 1 + 2 = 3
    OBVIOUS
  <2> QED BY <1>6, <2>1 DEF Divides, L
<1>22. Divides(p2, d, z, r2, t2)
  <2>1. 2 \in 1 .. 1 + 1 /\ 2 + 1 = 3 /\ 1 + 2 = 3
    OBVIOUS
  <2> QED BY <1>6, <2>1 DEF Divides, L
<1>8. result.quotient[1] = t1 /\ result.quotient[2] = t2 /\ result.quotient[3] = 0 /\ result.quotient[4] = 0 /\ result.remainder = r1
  BY <1>6
<1>9. OfLimbs(l) = l1
  BY <1>1, <1>2 DEF OfLimbs, L
<1> HIDE DEF l1, c1, p1, p2, r1, r2, t1, t2, z
\* What the limbs from each one up stand for, before and after.
<1> DEFINE a1 == l1 + Limb * z   n2 == p2 + Limb * z
           n1 == p1 + Limb * n2   w2 == t2 + Limb * z
           w1 == t1 + Limb * w2
<1>30. Limb \in Nat \ {0}
  BY LimbType
<1>31. n2 = c1 /\ n2 \in Nat /\ Multiplied(z, m, c1, n2)
  BY <1>7, <1>30 DEF Multiplied
<1> HIDE DEF n2
<1>32. a1 \in Nat /\ n1 \in Nat /\ Multiplied(a1, m, z, n1)
  <2>1. z \in Nat /\ n2 \in Nat /\ Multiplied(z, m, c1, n2)
    BY <1>7, <1>31
  <2>2. a1 \in Nat /\ n1 \in Nat
    BY <1>7, <1>30, <2>1
  <2>3. l1 \in Nat /\ z \in Nat
    BY <1>7
  <2>4. Multiplied(l1 + Limb * z, m, z, p1 + Limb * n2)
    BY <1>11, <2>1, <2>3, ProductStep
  <2> QED BY <2>2, <2>4
<1> HIDE DEF a1, n1
<1>33. t2 \in Int /\ r2 \in 0 .. d - 1 /\ w2 \in Int /\ Shared(n2, d, w2, r2)
  <2>1. Shared(z, d, z, z)
    BY <1>7 DEF Shared
  <2>2. z \in Nat /\ z \in Int /\ p2 \in Nat
    BY <1>7
  <2>3. t2 \in Int /\ r2 \in 0 .. d - 1
        /\ Shared(p2 + Limb * z, d, t2 + Limb * z, r2)
    BY <1>22, <2>1, <2>2, DivideStep
  <2>4. w2 \in Int
    BY <1>30, <2>2, <2>3
  <2> QED BY <2>3, <2>4 DEF n2
<1> HIDE DEF w2
<1>34. t1 \in Int /\ r1 \in 0 .. d - 1 /\ w1 \in Int /\ Shared(n1, d, w1, r1)
  <2>1. Shared(n2, d, w2, r2)
    BY <1>33
  <2>2. n2 \in Nat /\ w2 \in Int /\ r2 \in Nat /\ p1 \in Nat
    BY <1>7, <1>31, <1>33
  <2>3. t1 \in Int /\ r1 \in 0 .. d - 1
        /\ Shared(p1 + Limb * n2, d, t1 + Limb * w2, r1)
    BY <1>21, <2>1, <2>2, DivideStep
  <2>4. w1 \in Int
    BY <1>30, <2>2, <2>3
  <2> QED BY <2>3, <2>4 DEF n1
<1> HIDE DEF w1
<1>35. x = n1 /\ x \in Int
  <2>1. OfLimbs(l) = a1
    BY <1>1, <1>7, <1>9 DEF L, a1
  <2>2. n1 = a1 * m + z
    BY <1>32 DEF Multiplied
  <2>3. a1 * m \in Int
    BY <1>32
  <2> QED BY <1>7, <2>1, <2>2, <2>3 DEF x
<1>36. x \div d = w1 /\ x % d = r1
  <2>1. x = d * w1 + r1 /\ x \in Int /\ w1 \in Int /\ r1 \in 0 .. d - 1
    BY <1>34, <1>35 DEF Shared
  <2> QED BY <2>1, QuotientIs
<1>37. OfLimbs(result.quotient) = w1
  <2>1. t1 \in Int /\ t2 \in Int
    BY <1>34, <1>33
  <2> QED BY <1>7, <1>8, <1>30, <2>1 DEF OfLimbs, w1, w2
<1> QED BY <1>8, <1>36, <1>37 DEF x, result, p

\* Two limbs: low128.
LEMMA TwoLimbs ==
  ASSUME NEW l \in [1..4 -> 0 .. Limb - 1], l[3] = 0, l[4] = 0,
         NEW m \in Nat, NEW d \in Nat \ {0}
  PROVE  LET result == DividedLimbs(ProductLimbs(l, 2, m), 2, d)
         IN  /\ OfLimbs(result.quotient) = (OfLimbs(l) * m) \div d
             /\ result.remainder = (OfLimbs(l) * m) % d
<1> DEFINE L == Limb
           p == ProductLimbs(l, 2, m)
           result == DividedLimbs(p, 2, d)
           x == OfLimbs(l) * m
<1>1. L \in Nat \ {0}
  BY LimbType
<1>2. l \in [1..4 -> Nat]
  BY <1>1
<1>3. 2 \in 1..4
  OBVIOUS
<1>4. PICK c \in [0..2 -> Nat] :
           /\ c[0] = 0
           /\ \A i \in 1..2 : p[i] = (l[i] * m + c[i - 1]) % L
           /\ \A i \in 1..2 : c[i] = (l[i] * m + c[i - 1]) \div L
           /\ p[2 + 1] = c[2]
           /\ \A i \in 1 .. 2 + 1 : p[i] \in Nat
  BY <1>2, <1>3, ProductLimbsAre DEF L
<1>5. p \in [1 .. 2 + 1 -> Nat]
  <2>1. p = [i \in 1 .. 2 + 1 |-> p[i]]
    BY DEF ProductLimbs
  <2> HIDE DEF p
  <2> QED BY <1>4, <2>1
<1> HIDE DEF p
<1>6. PICK r \in [1 .. 2 + 2 -> Nat] :
           /\ r[2 + 2] = 0
           /\ \A i \in 1 .. 2 + 1 : r[i] = (r[i + 1] * L + p[i]) % d
           /\ \A i \in 1..4 : result.quotient[i]
                = IF i > 2 + 1 THEN 0 ELSE (r[i + 1] * L + p[i]) \div d
           /\ result.remainder = r[1]
  BY <1>3, <1>5, DividedLimbsAre DEF L
<1> HIDE DEF L, result, x
\* The limbs by names.
<1> DEFINE l1 == l[1]   l2 == l[2]   c1 == c[1]   c2 == c[2]
           p1 == p[1]   p2 == p[2]   p3 == p[3]   r1 == r[1]
           r2 == r[2]   r3 == r[3]   t1 == (r[2] * L + p[1]) \div d   t2 == (r[3] * L + p[2]) \div d
           t3 == (r[4] * L + p[3]) \div d   z == 0
<1>7. /\ l1 \in Nat /\ l2 \in Nat
      /\ c1 \in Nat /\ c2 \in Nat
      /\ p1 \in Nat /\ p2 \in Nat /\ p3 \in Nat
      /\ r1 \in Nat /\ r2 \in Nat /\ r3 \in Nat
      /\ z \in Nat /\ z \in Int /\ z = 0 /\ p3 = c2
  BY <1>2, <1>4, <1>6
<1>11. Carries(l1, m, z, p1, c1)
  <2>1. 1 \in 1..2 /\ 1 - 1 = 0
    OBVIOUS
  <2> QED BY <1>4, <2>1 DEF Carries, L
<1>12. Carries(l2, m, c1, p2, c2)
  <2>1. 2 \in 1..2 /\ 2 - 1 = 1
    OBVIOUS
  <2> QED BY <1>4, <2>1 DEF Carries, L
<1>21. Divides(p1, d, r2, r1, t1)
  <2>1. 1 \in 1 .. 2 + 1 /\ 1 + 1 = 2 /\ 2 + 2 = 4
    OBVIOUS
  <2> QED BY <1>6, <2>1 DEF Divides, L
<1>22. Divides(p2, d, r3, r2, t2)
  <2>1. 2 \in 1 .. 2 + 1 /\ 2 + 1 = 3 /\ 2 + 2 = 4
    OBVIOUS
  <2> QED BY <1>6, <2>1 DEF Divides, L
<1>23. Divides(p3, d, z, r3, t3)
  <2>1. 3 \in 1 .. 2 + 1 /\ 3 + 1 = 4 /\ 2 + 2 = 4
    OBVIOUS
  <2> QED BY <1>6, <2>1 DEF Divides, L
<1>8. result.quotient[1] = t1 /\ result.quotient[2] = t2 /\ result.quotient[3] = t3 /\ result.quotient[4] = 0 /\ result.remainder = r1
  BY <1>6
<1>9. OfLimbs(l) = l1 + L * l2
  BY <1>1, <1>2 DEF OfLimbs, L
<1> HIDE DEF l1, l2, c1, c2, p1, p2, p3, r1, r2, r3, t1, t2, t3, z
\* What the limbs from each one up stand for, before and after.
<1> DEFINE a2 == l2 + Limb * z   a1 == l1 + Limb * a2
           n3 == p3 + Limb * z   n2 == p2 + Limb * n3
           n1 == p1 + Limb * n2   w3 == t3 + Limb * z
           w2 == t2 + Limb * w3   w1 == t1 + Limb * w2
<1>30. Limb \in Nat \ {0}
  BY LimbType
<1>31. n3 = c2 /\ n3 \in Nat /\ Multiplied(z, m, c2, n3)
  BY <1>7, <1>30 DEF Multiplied
<1> HIDE DEF n3
<1>32. a2 \in Nat /\ n2 \in Nat /\ Multiplied(a2, m, c1, n2)
  <2>1. z \in Nat /\ n3 \in Nat /\ Multiplied(z, m, c2, n3)
    BY <1>7, <1>31
  <2>2. a2 \in Nat /\ n2 \in Nat
    BY <1>7, <1>30, <2>1
  <2>3. l2 \in Nat /\ c1 \in Nat
    BY <1>7
  <2>4. Multiplied(l2 + Limb * z, m, c1, p2 + Limb * n3)
    BY <1>12, <2>1, <2>3, ProductStep
  <2> QED BY <2>2, <2>4
<1> HIDE DEF a2, n2
<1>33. a1 \in Nat /\ n1 \in Nat /\ Multiplied(a1, m, z, n1)
  <2>1. a2 \in Nat /\ n2 \in Nat /\ Multiplied(a2, m, c1, n2)
    BY <1>7, <1>32
  <2>2. a1 \in Nat /\ n1 \in Nat
    BY <1>7, <1>30, <2>1
  <2>3. l1 \in Nat /\ z \in Nat
    BY <1>7
  <2>4. Multiplied(l1 + Limb * a2, m, z, p1 + Limb * n2)
    BY <1>11, <2>1, <2>3, ProductStep
  <2> QED BY <2>2, <2>4
<1> HIDE DEF a1, n1
<1>34. t3 \in Int /\ r3 \in 0 .. d - 1 /\ w3 \in Int /\ Shared(n3, d, w3, r3)
  <2>1. Shared(z, d, z, z)
    BY <1>7 DEF Shared
  <2>2. z \in Nat /\ z \in Int /\ p3 \in Nat
    BY <1>7
  <2>3. t3 \in Int /\ r3 \in 0 .. d - 1
        /\ Shared(p3 + Limb * z, d, t3 + Limb * z, r3)
    BY <1>23, <2>1, <2>2, DivideStep
  <2>4. w3 \in Int
    BY <1>30, <2>2, <2>3
  <2> QED BY <2>3, <2>4 DEF n3
<1> HIDE DEF w3
<1>35. t2 \in Int /\ r2 \in 0 .. d - 1 /\ w2 \in Int /\ Shared(n2, d, w2, r2)
  <2>1. Shared(n3, d, w3, r3)
    BY <1>34
  <2>2. n3 \in Nat /\ w3 \in Int /\ r3 \in Nat /\ p2 \in Nat
    BY <1>7, <1>31, <1>34
  <2>3. t2 \in Int /\ r2 \in 0 .. d - 1
        /\ Shared(p2 + Limb * n3, d, t2 + Limb * w3, r2)
    BY <1>22, <2>1, <2>2, DivideStep
  <2>4. w2 \in Int
    BY <1>30, <2>2, <2>3
  <2> QED BY <2>3, <2>4 DEF n2
<1> HIDE DEF w2
<1>36. t1 \in Int /\ r1 \in 0 .. d - 1 /\ w1 \in Int /\ Shared(n1, d, w1, r1)
  <2>1. Shared(n2, d, w2, r2)
    BY <1>35
  <2>2. n2 \in Nat /\ w2 \in Int /\ r2 \in Nat /\ p1 \in Nat
    BY <1>7, <1>32, <1>35
  <2>3. t1 \in Int /\ r1 \in 0 .. d - 1
        /\ Shared(p1 + Limb * n2, d, t1 + Limb * w2, r1)
    BY <1>21, <2>1, <2>2, DivideStep
  <2>4. w1 \in Int
    BY <1>30, <2>2, <2>3
  <2> QED BY <2>3, <2>4 DEF n1
<1> HIDE DEF w1
<1>37. x = n1 /\ x \in Int
  <2>1. OfLimbs(l) = a1
    BY <1>1, <1>7, <1>9 DEF L, a1, a2
  <2>2. n1 = a1 * m + z
    BY <1>33 DEF Multiplied
  <2>3. a1 * m \in Int
    BY <1>33
  <2> QED BY <1>7, <2>1, <2>2, <2>3 DEF x
<1>38. x \div d = w1 /\ x % d = r1
  <2>1. x = d * w1 + r1 /\ x \in Int /\ w1 \in Int /\ r1 \in 0 .. d - 1
    BY <1>36, <1>37 DEF Shared
  <2> QED BY <2>1, QuotientIs
<1>39. OfLimbs(result.quotient) = w1
  <2>1. t1 \in Int /\ t2 \in Int /\ t3 \in Int
    BY <1>36, <1>35, <1>34
  <2> QED BY <1>7, <1>8, <1>30, <2>1 DEF OfLimbs, w1, w2, w3
<1> QED BY <1>8, <1>38, <1>39 DEF x, result, p

\* Four limbs: full, unless the quotient needs a fifth.
LEMMA FourLimbs ==
  ASSUME NEW l \in [1..4 -> 0 .. Limb - 1],
         NEW m \in Nat, NEW d \in Nat \ {0}
  PROVE  LET product == ProductLimbs(l, 4, m)
             result == DividedLimbs(product, 4, d)
         IN  /\ product[5] \in Nat
             /\ \E low \in 0 .. Wide - 1 : OfLimbs(l) * m = low + Wide * product[5]
             /\ product[5] < d =>
                  /\ OfLimbs(result.quotient) = (OfLimbs(l) * m) \div d
                  /\ result.remainder = (OfLimbs(l) * m) % d
<1> DEFINE L == Limb
           p == ProductLimbs(l, 4, m)
           result == DividedLimbs(p, 4, d)
           x == OfLimbs(l) * m
<1>1. L \in Nat \ {0}
  BY LimbType
<1>2. l \in [1..4 -> Nat]
  BY <1>1
<1>3. 4 \in 1..4
  OBVIOUS
<1>4. PICK c \in [0..4 -> Nat] :
           /\ c[0] = 0
           /\ \A i \in 1..4 : p[i] = (l[i] * m + c[i - 1]) % L
           /\ \A i \in 1..4 : c[i] = (l[i] * m + c[i - 1]) \div L
           /\ p[4 + 1] = c[4]
           /\ \A i \in 1 .. 4 + 1 : p[i] \in Nat
  BY <1>2, <1>3, ProductLimbsAre DEF L
<1>5. p \in [1 .. 4 + 1 -> Nat]
  <2>1. p = [i \in 1 .. 4 + 1 |-> p[i]]
    BY DEF ProductLimbs
  <2> HIDE DEF p
  <2> QED BY <1>4, <2>1
<1> HIDE DEF p
<1>6. PICK r \in [1 .. 4 + 2 -> Nat] :
           /\ r[4 + 2] = 0
           /\ \A i \in 1 .. 4 + 1 : r[i] = (r[i + 1] * L + p[i]) % d
           /\ \A i \in 1..4 : result.quotient[i]
                = IF i > 4 + 1 THEN 0 ELSE (r[i + 1] * L + p[i]) \div d
           /\ result.remainder = r[1]
  BY <1>3, <1>5, DividedLimbsAre DEF L
<1> HIDE DEF L, result, x
\* The limbs by names.
<1> DEFINE l1 == l[1]   l2 == l[2]   l3 == l[3]   l4 == l[4]
           c1 == c[1]   c2 == c[2]   c3 == c[3]   c4 == c[4]
           p1 == p[1]   p2 == p[2]   p3 == p[3]   p4 == p[4]
           p5 == p[5]   r1 == r[1]   r2 == r[2]   r3 == r[3]
           r4 == r[4]   r5 == r[5]   t1 == (r[2] * L + p[1]) \div d   t2 == (r[3] * L + p[2]) \div d
           t3 == (r[4] * L + p[3]) \div d   t4 == (r[5] * L + p[4]) \div d   t5 == (r[6] * L + p[5]) \div d   z == 0
<1>7. /\ l1 \in Nat /\ l2 \in Nat /\ l3 \in Nat /\ l4 \in Nat
      /\ c1 \in Nat /\ c2 \in Nat /\ c3 \in Nat /\ c4 \in Nat
      /\ p1 \in Nat /\ p2 \in Nat /\ p3 \in Nat /\ p4 \in Nat /\ p5 \in Nat
      /\ r1 \in Nat /\ r2 \in Nat /\ r3 \in Nat /\ r4 \in Nat /\ r5 \in Nat
      /\ z \in Nat /\ z \in Int /\ z = 0 /\ p5 = c4
  BY <1>2, <1>4, <1>6
<1>11. Carries(l1, m, z, p1, c1)
  <2>1. 1 \in 1..4 /\ 1 - 1 = 0
    OBVIOUS
  <2> QED BY <1>4, <2>1 DEF Carries, L
<1>12. Carries(l2, m, c1, p2, c2)
  <2>1. 2 \in 1..4 /\ 2 - 1 = 1
    OBVIOUS
  <2> QED BY <1>4, <2>1 DEF Carries, L
<1>13. Carries(l3, m, c2, p3, c3)
  <2>1. 3 \in 1..4 /\ 3 - 1 = 2
    OBVIOUS
  <2> QED BY <1>4, <2>1 DEF Carries, L
<1>14. Carries(l4, m, c3, p4, c4)
  <2>1. 4 \in 1..4 /\ 4 - 1 = 3
    OBVIOUS
  <2> QED BY <1>4, <2>1 DEF Carries, L
<1>21. Divides(p1, d, r2, r1, t1)
  <2>1. 1 \in 1 .. 4 + 1 /\ 1 + 1 = 2 /\ 4 + 2 = 6
    OBVIOUS
  <2> QED BY <1>6, <2>1 DEF Divides, L
<1>22. Divides(p2, d, r3, r2, t2)
  <2>1. 2 \in 1 .. 4 + 1 /\ 2 + 1 = 3 /\ 4 + 2 = 6
    OBVIOUS
  <2> QED BY <1>6, <2>1 DEF Divides, L
<1>23. Divides(p3, d, r4, r3, t3)
  <2>1. 3 \in 1 .. 4 + 1 /\ 3 + 1 = 4 /\ 4 + 2 = 6
    OBVIOUS
  <2> QED BY <1>6, <2>1 DEF Divides, L
<1>24. Divides(p4, d, r5, r4, t4)
  <2>1. 4 \in 1 .. 4 + 1 /\ 4 + 1 = 5 /\ 4 + 2 = 6
    OBVIOUS
  <2> QED BY <1>6, <2>1 DEF Divides, L
<1>25. Divides(p5, d, z, r5, t5)
  <2>1. 5 \in 1 .. 4 + 1 /\ 5 + 1 = 6 /\ 4 + 2 = 6
    OBVIOUS
  <2> QED BY <1>6, <2>1 DEF Divides, L
<1>8. result.quotient[1] = t1 /\ result.quotient[2] = t2 /\ result.quotient[3] = t3 /\ result.quotient[4] = t4 /\ result.remainder = r1
  BY <1>6
<1>9. OfLimbs(l) = l1 + L * (l2 + L * (l3 + L * l4))
  BY <1>1, <1>2 DEF OfLimbs, L
<1> HIDE DEF l1, l2, l3, l4, c1, c2, c3, c4, p1, p2, p3, p4, p5, r1, r2, r3, r4, r5, t1, t2, t3, t4, t5, z
\* What the limbs from each one up stand for, before and after.
<1> DEFINE a4 == l4 + Limb * z   a3 == l3 + Limb * a4
           a2 == l2 + Limb * a3   a1 == l1 + Limb * a2
           n5 == p5 + Limb * z   n4 == p4 + Limb * n5
           n3 == p3 + Limb * n4   n2 == p2 + Limb * n3
           n1 == p1 + Limb * n2   w5 == t5 + Limb * z
           w4 == t4 + Limb * w5   w3 == t3 + Limb * w4
           w2 == t2 + Limb * w3   w1 == t1 + Limb * w2
<1>30. Limb \in Nat \ {0}
  BY LimbType
<1>31. n5 = c4 /\ n5 \in Nat /\ Multiplied(z, m, c4, n5)
  BY <1>7, <1>30 DEF Multiplied
<1> HIDE DEF n5
<1>32. a4 \in Nat /\ n4 \in Nat /\ Multiplied(a4, m, c3, n4)
  <2>1. z \in Nat /\ n5 \in Nat /\ Multiplied(z, m, c4, n5)
    BY <1>7, <1>31
  <2>2. a4 \in Nat /\ n4 \in Nat
    BY <1>7, <1>30, <2>1
  <2>3. l4 \in Nat /\ c3 \in Nat
    BY <1>7
  <2>4. Multiplied(l4 + Limb * z, m, c3, p4 + Limb * n5)
    BY <1>14, <2>1, <2>3, ProductStep
  <2> QED BY <2>2, <2>4
<1> HIDE DEF a4, n4
<1>33. a3 \in Nat /\ n3 \in Nat /\ Multiplied(a3, m, c2, n3)
  <2>1. a4 \in Nat /\ n4 \in Nat /\ Multiplied(a4, m, c3, n4)
    BY <1>7, <1>32
  <2>2. a3 \in Nat /\ n3 \in Nat
    BY <1>7, <1>30, <2>1
  <2>3. l3 \in Nat /\ c2 \in Nat
    BY <1>7
  <2>4. Multiplied(l3 + Limb * a4, m, c2, p3 + Limb * n4)
    BY <1>13, <2>1, <2>3, ProductStep
  <2> QED BY <2>2, <2>4
<1> HIDE DEF a3, n3
<1>34. a2 \in Nat /\ n2 \in Nat /\ Multiplied(a2, m, c1, n2)
  <2>1. a3 \in Nat /\ n3 \in Nat /\ Multiplied(a3, m, c2, n3)
    BY <1>7, <1>33
  <2>2. a2 \in Nat /\ n2 \in Nat
    BY <1>7, <1>30, <2>1
  <2>3. l2 \in Nat /\ c1 \in Nat
    BY <1>7
  <2>4. Multiplied(l2 + Limb * a3, m, c1, p2 + Limb * n3)
    BY <1>12, <2>1, <2>3, ProductStep
  <2> QED BY <2>2, <2>4
<1> HIDE DEF a2, n2
<1>35. a1 \in Nat /\ n1 \in Nat /\ Multiplied(a1, m, z, n1)
  <2>1. a2 \in Nat /\ n2 \in Nat /\ Multiplied(a2, m, c1, n2)
    BY <1>7, <1>34
  <2>2. a1 \in Nat /\ n1 \in Nat
    BY <1>7, <1>30, <2>1
  <2>3. l1 \in Nat /\ z \in Nat
    BY <1>7
  <2>4. Multiplied(l1 + Limb * a2, m, z, p1 + Limb * n2)
    BY <1>11, <2>1, <2>3, ProductStep
  <2> QED BY <2>2, <2>4
<1> HIDE DEF a1, n1
<1>36. t5 \in Int /\ r5 \in 0 .. d - 1 /\ w5 \in Int /\ Shared(n5, d, w5, r5)
  <2>1. Shared(z, d, z, z)
    BY <1>7 DEF Shared
  <2>2. z \in Nat /\ z \in Int /\ p5 \in Nat
    BY <1>7
  <2>3. t5 \in Int /\ r5 \in 0 .. d - 1
        /\ Shared(p5 + Limb * z, d, t5 + Limb * z, r5)
    BY <1>25, <2>1, <2>2, DivideStep
  <2>4. w5 \in Int
    BY <1>30, <2>2, <2>3
  <2> QED BY <2>3, <2>4 DEF n5
<1> HIDE DEF w5
<1>37. t4 \in Int /\ r4 \in 0 .. d - 1 /\ w4 \in Int /\ Shared(n4, d, w4, r4)
  <2>1. Shared(n5, d, w5, r5)
    BY <1>36
  <2>2. n5 \in Nat /\ w5 \in Int /\ r5 \in Nat /\ p4 \in Nat
    BY <1>7, <1>31, <1>36
  <2>3. t4 \in Int /\ r4 \in 0 .. d - 1
        /\ Shared(p4 + Limb * n5, d, t4 + Limb * w5, r4)
    BY <1>24, <2>1, <2>2, DivideStep
  <2>4. w4 \in Int
    BY <1>30, <2>2, <2>3
  <2> QED BY <2>3, <2>4 DEF n4
<1> HIDE DEF w4
<1>38. t3 \in Int /\ r3 \in 0 .. d - 1 /\ w3 \in Int /\ Shared(n3, d, w3, r3)
  <2>1. Shared(n4, d, w4, r4)
    BY <1>37
  <2>2. n4 \in Nat /\ w4 \in Int /\ r4 \in Nat /\ p3 \in Nat
    BY <1>7, <1>32, <1>37
  <2>3. t3 \in Int /\ r3 \in 0 .. d - 1
        /\ Shared(p3 + Limb * n4, d, t3 + Limb * w4, r3)
    BY <1>23, <2>1, <2>2, DivideStep
  <2>4. w3 \in Int
    BY <1>30, <2>2, <2>3
  <2> QED BY <2>3, <2>4 DEF n3
<1> HIDE DEF w3
<1>39. t2 \in Int /\ r2 \in 0 .. d - 1 /\ w2 \in Int /\ Shared(n2, d, w2, r2)
  <2>1. Shared(n3, d, w3, r3)
    BY <1>38
  <2>2. n3 \in Nat /\ w3 \in Int /\ r3 \in Nat /\ p2 \in Nat
    BY <1>7, <1>33, <1>38
  <2>3. t2 \in Int /\ r2 \in 0 .. d - 1
        /\ Shared(p2 + Limb * n3, d, t2 + Limb * w3, r2)
    BY <1>22, <2>1, <2>2, DivideStep
  <2>4. w2 \in Int
    BY <1>30, <2>2, <2>3
  <2> QED BY <2>3, <2>4 DEF n2
<1> HIDE DEF w2
<1>40. t1 \in Int /\ r1 \in 0 .. d - 1 /\ w1 \in Int /\ Shared(n1, d, w1, r1)
  <2>1. Shared(n2, d, w2, r2)
    BY <1>39
  <2>2. n2 \in Nat /\ w2 \in Int /\ r2 \in Nat /\ p1 \in Nat
    BY <1>7, <1>34, <1>39
  <2>3. t1 \in Int /\ r1 \in 0 .. d - 1
        /\ Shared(p1 + Limb * n2, d, t1 + Limb * w2, r1)
    BY <1>21, <2>1, <2>2, DivideStep
  <2>4. w1 \in Int
    BY <1>30, <2>2, <2>3
  <2> QED BY <2>3, <2>4 DEF n1
<1> HIDE DEF w1
<1>41. x = n1 /\ x \in Int
  <2>1. OfLimbs(l) = a1
    BY <1>1, <1>7, <1>9 DEF L, a1, a2, a3, a4
  <2>2. n1 = a1 * m + z
    BY <1>35 DEF Multiplied
  <2>3. a1 * m \in Int
    BY <1>35
  <2> QED BY <1>7, <2>1, <2>2, <2>3 DEF x
<1>42. x \div d = w1 /\ x % d = r1
  <2>1. x = d * w1 + r1 /\ x \in Int /\ w1 \in Int /\ r1 \in 0 .. d - 1
    BY <1>40, <1>41 DEF Shared
  <2> QED BY <2>1, QuotientIs
<1>43. ASSUME p5 < d PROVE OfLimbs(result.quotient) = w1
  <2>1. t1 \in Int /\ t2 \in Int /\ t3 \in Int /\ t4 \in Int /\ t5 \in Int
    BY <1>40, <1>39, <1>38, <1>37, <1>36
  <2>2. t5 = 0
    <3>1. p5 = d * z + p5 /\ p5 \in 0 .. d - 1 /\ p5 \in Int /\ z \in Int
          /\ d \in Nat \ {0}
      BY <1>7, <1>43
    <3>2. \A a \in Nat, b \in Nat \ {0} : a < b => a \div b = 0
      OBVIOUS
    <3>3. p5 \div d = z
      <4>1. p5 \in Nat /\ d \in Nat \ {0} /\ p5 < d /\ z = 0
        BY <3>1, <1>43
      <4> QED BY <4>1, <3>2
    <3>4. z * Limb + p5 = p5
      BY <1>7, <1>30
    <3> QED BY <1>7, <1>25, <3>3, <3>4 DEF Divides
  <2> QED BY <1>7, <1>8, <1>30, <2>1, <2>2 DEF OfLimbs, w1, w2, w3, w4, w5
<1> DEFINE low == p1 + Limb * (p2 + Limb * (p3 + Limb * p4))
<1>44. low \in 0 .. Wide - 1 /\ x = low + Wide * p5
  <2>1. ASSUME NEW limb \in Nat, NEW below \in Nat, NEW e, NEW f, Carries(limb, m, below, e, f)
        PROVE  e \in 0 .. Limb - 1
    <3> DEFINE y == limb * m + below
    <3>1. y \in Int /\ e = y % Limb
      BY <2>1 DEF Carries
    <3> HIDE DEF y
    <3> QED BY <1>30, <3>1, Remainder
  <2>2. p1 \in 0 .. Limb - 1 /\ p2 \in 0 .. Limb - 1 /\ p3 \in 0 .. Limb - 1 /\ p4 \in 0 .. Limb - 1
    BY <1>7, <1>11, <1>12, <1>13, <1>14, <2>1
  <2>3. low \in 0 .. Wide - 1
    BY <2>2, FourDigits
  <2>4. n1 = p1 + Limb * (p2 + Limb * (p3 + Limb * (p4 + Limb * p5)))
    BY <1>7, <1>30 DEF n1, n2, n3, n4, n5
  <2>5. p1 + L * (p2 + L * (p3 + L * (p4 + L * p5)))
          = p1 + L * (p2 + L * (p3 + L * p4)) + (L * (L * (L * L))) * p5
    BY <1>1, <1>7
  <2> QED BY <1>41, <2>3, <2>4, <2>5, LimbType DEF L
<1> HIDE DEF low
<1>45. p5 < d => OfLimbs(result.quotient) = x \div d /\ result.remainder = x % d
  BY <1>8, <1>42, <1>43
<1> QED BY <1>7, <1>44, <1>45 DEF x, result, p, p5

\* mul_div_u32_div_rem on every path: the shortcuts, one, two and four limbs.
LEMMA MulDivU32Exact ==
  ASSUME NEW amount \in 0 .. Wide - 1, NEW m \in 0 .. Small - 1, NEW d \in 0 .. Small - 1
  PROVE  MulDivU32(amount, m, d) = SmallExact(amount * m, d)
<1> DEFINE l == Limbs(amount)
           k == LimbsUsed(l)
           product == ProductLimbs(l, k, m)
           result == DividedLimbs(product, k, d)
           x == amount * m
<1>1. Limb \in Nat \ {0} /\ Wide \in Nat \ {0} /\ m \in Nat /\ d \in Nat /\ amount \in Nat
      /\ m \in 0 .. Limb - 1
  BY LimbType
<1>2. MulDivU32(amount, m, d) =
        IF d = 0 THEN {}
        ELSE IF amount = 0 \/ m = 0 THEN {[quotient |-> 0, remainder |-> 0]}
        ELSE IF m = d THEN {[quotient |-> amount, remainder |-> 0]}
        ELSE IF k = 4 /\ product[5] >= d THEN {}
        ELSE {[quotient |-> OfLimbs(result.quotient), remainder |-> result.remainder]}
  BY DEF MulDivU32
<1>3. l \in [1..4 -> 0 .. Limb - 1] /\ OfLimbs(l) = amount
  BY LimbsSpell
<1>4. k = IF l[2] = 0 /\ l[3] = 0 /\ l[4] = 0 THEN 1 ELSE IF l[3] = 0 /\ l[4] = 0 THEN 2 ELSE 4
  BY DEF LimbsUsed
<1> HIDE DEF l
<1>5. x \in Nat
  BY <1>1
<1>6. CASE d = 0
  BY <1>2, <1>6 DEF SmallExact
<1>7. CASE d # 0 /\ (amount = 0 \/ m = 0)
  <2>1. x = d * 0 + 0 /\ x \in Int /\ 0 \in 0 .. d - 1 /\ d \in Nat \ {0}
    BY <1>1, <1>7
  <2> HIDE DEF x
  <2>2. x \div d = 0 /\ x % d = 0
    BY <2>1, QuotientIs
  <2>3. SmallExact(x, d) = {[quotient |-> 0, remainder |-> 0]}
    BY <1>1, <1>7, <2>2 DEF SmallExact, SmallQuotient
  <2> QED BY <1>2, <1>7, <2>3 DEF x
<1>8. CASE d # 0 /\ ~(amount = 0 \/ m = 0) /\ m = d
  <2>1. x = d * amount + 0 /\ x \in Int /\ 0 \in 0 .. d - 1 /\ d \in Nat \ {0} /\ amount \in Int
    BY <1>1, <1>8
  <2> HIDE DEF x
  <2>2. x \div d = amount /\ x % d = 0
    BY <2>1, QuotientIs
  <2>3. SmallExact(x, d) = {[quotient |-> amount, remainder |-> 0]}
    BY <1>1, <1>8, <2>2 DEF SmallExact, SmallQuotient
  <2> QED BY <1>2, <1>8, <2>3 DEF x
<1>9. CASE d # 0 /\ ~(amount = 0 \/ m = 0) /\ m # d
  <2>1. d \in Nat \ {0}
    BY <1>1, <1>9
  <2>2. ASSUME amount \in 0 .. Limb * Limb - 1, k # 4,
               OfLimbs(result.quotient) = x \div d /\ result.remainder = x % d
        PROVE  MulDivU32(amount, m, d) = SmallExact(x, d)
    <3>1. MulDivU32(amount, m, d)
            = {[quotient |-> OfLimbs(result.quotient), remainder |-> result.remainder]}
      BY <1>2, <1>9, <2>2
    <3>2. x \div d < Wide
      BY <1>1, <2>1, <2>2, FewLimbsFit
    <3> HIDE DEF x
    <3> QED BY <1>9, <2>2, <3>1, <3>2 DEF SmallExact, SmallQuotient
  <2>3. CASE l[2] = 0 /\ l[3] = 0 /\ l[4] = 0
    <3>1. k = 1
      BY <1>4, <2>3
    <3>2. OfLimbs(result.quotient) = x \div d /\ result.remainder = x % d
      <4> DEFINE res == DividedLimbs(ProductLimbs(l, 1, m), 1, d)
      <4>1. /\ OfLimbs(res.quotient) = (OfLimbs(l) * m) \div d
            /\ res.remainder = (OfLimbs(l) * m) % d
        BY <1>1, <1>3, <2>1, <2>3, OneLimb
      <4>2. res = result
        BY <3>1
      <4> HIDE DEF res, result
      <4> QED BY <1>3, <4>1, <4>2
    <3>3. amount \in 0 .. Limb * Limb - 1
      <4>1. amount = l[1] /\ l[1] \in 0 .. Limb - 1
        <5>1. amount = l[1] + Limb * (0 + Limb * (0 + Limb * 0))
          BY <1>3, <2>3 DEF OfLimbs
        <5>2. l[1] \in 0 .. Limb - 1
          BY <1>3
        <5> QED BY <1>1, <5>1, <5>2
      <4>2. 1 * Limb <= Limb * Limb /\ Limb * Limb \in Nat
        BY <1>1, Monotone
      <4> QED BY <1>1, <4>1, <4>2
    <3> QED BY <2>2, <3>1, <3>2, <3>3
  <2>4. CASE ~(l[2] = 0 /\ l[3] = 0 /\ l[4] = 0) /\ l[3] = 0 /\ l[4] = 0
    <3>1. k = 2
      BY <1>4, <2>4
    <3>2. OfLimbs(result.quotient) = x \div d /\ result.remainder = x % d
      <4> DEFINE res == DividedLimbs(ProductLimbs(l, 2, m), 2, d)
      <4>1. /\ OfLimbs(res.quotient) = (OfLimbs(l) * m) \div d
            /\ res.remainder = (OfLimbs(l) * m) % d
        BY <1>1, <1>3, <2>1, <2>4, TwoLimbs
      <4>2. res = result
        BY <3>1
      <4> HIDE DEF res, result
      <4> QED BY <1>3, <4>1, <4>2
    <3>3. amount \in 0 .. Limb * Limb - 1
      <4>1. l[1] \in 0 .. Limb - 1 /\ l[2] \in 0 .. Limb - 1
        BY <1>3
      <4>2. amount = l[1] + Limb * l[2]
        <5>1. amount = l[1] + Limb * (l[2] + Limb * (0 + Limb * 0))
          BY <1>3, <2>4 DEF OfLimbs
        <5> QED BY <1>1, <4>1, <5>1
      <4> DEFINE a == l[1]
                 b == l[2]
      <4>3. a \in 0 .. Limb - 1 /\ b \in 0 .. Limb - 1 /\ amount = a + Limb * b
        BY <4>1, <4>2
      <4> HIDE DEF a, b
      <4>4. Limb * (b + 1) <= Limb * Limb
        <5>1. b + 1 \in Int /\ Limb \in Int /\ b + 1 <= Limb
          BY <1>1, <4>3
        <5> QED BY <1>1, <5>1, CancelFactor
      <4>5. Limb * (b + 1) = Limb * b + Limb /\ Limb * b \in Nat /\ Limb * Limb \in Nat
        BY <1>1, <4>3
      <4> QED BY <1>1, <4>3, <4>4, <4>5
    <3> QED BY <2>2, <3>1, <3>2, <3>3
  <2>5. CASE ~(l[3] = 0 /\ l[4] = 0)
    <3>1. k = 4
      BY <1>4, <2>5
    <3> DEFINE p == ProductLimbs(l, 4, m)
               res == DividedLimbs(p, 4, d)
    <3>2. p = product /\ res = result
      BY <3>1
    <3>3. /\ p[5] \in Nat
          /\ \E low \in 0 .. Wide - 1 : OfLimbs(l) * m = low + Wide * p[5]
          /\ p[5] < d => /\ OfLimbs(res.quotient) = (OfLimbs(l) * m) \div d
                         /\ res.remainder = (OfLimbs(l) * m) % d
      BY <1>1, <1>3, <2>1, FourLimbs
    <3> HIDE DEF p, res, product, result
    <3> DEFINE top == p[5]
    <3>4. PICK low \in 0 .. Wide - 1 : x = low + Wide * top
      BY <1>3, <3>3
    <3>5. x \div d < Wide <=> top < d
      <4>1. top \in Nat
        BY <3>3
      <4> HIDE DEF top, x
      <4> QED BY <2>1, <3>4, <4>1, TopLimbDecides
    <3>6. CASE top < d
      <4>1. OfLimbs(result.quotient) = x \div d /\ result.remainder = x % d
        BY <1>3, <3>2, <3>3, <3>6
      <4>2. ~(product[5] >= d)
        BY <2>1, <3>2, <3>3, <3>6
      <4>3. MulDivU32(amount, m, d)
              = {[quotient |-> OfLimbs(result.quotient), remainder |-> result.remainder]}
        BY <1>2, <1>9, <4>2
      <4> HIDE DEF x
      <4> QED BY <1>9, <3>5, <3>6, <4>1, <4>3 DEF SmallExact, SmallQuotient, x
    <3>7. CASE ~(top < d)
      <4>1. product[5] >= d
        BY <2>1, <3>2, <3>3, <3>7
      <4>2. MulDivU32(amount, m, d) = {}
        BY <1>2, <1>9, <3>1, <4>1
      <4> QED BY <3>5, <3>7, <4>2 DEF SmallExact
    <3> QED BY <3>6, <3>7
  <2> QED BY <2>3, <2>4, <2>5
<1> QED BY <1>6, <1>7, <1>8, <1>9

\* The floor and the ceiling, where they fit.
SmallFits(q) == {v \in {q} : v < Wide}

LEMMA SmallRatioIs ==
  ASSUME NEW amount \in 0 .. Wide - 1, NEW m \in 0 .. Small - 1, NEW d \in 0 .. Small - 1
  PROVE  /\ MulDivU32Floor(amount, m, d)
              = (IF d = 0 THEN {} ELSE SmallFits((amount * m) \div d))
         /\ MulDivU32Ceil(amount, m, d)
              = (IF d = 0 THEN {} ELSE SmallFits((amount * m + d - 1) \div d))
<1> DEFINE x == amount * m
<1>1. x \in Nat /\ d \in Nat /\ Wide \in Nat
  BY LimbType
<1>2. MulDivU32(amount, m, d) = SmallExact(x, d)
  BY MulDivU32Exact
<1> HIDE DEF x
<1>3. MulDivU32Floor(amount, m, d) = {r.quotient : r \in SmallExact(x, d)}
  BY <1>2 DEF MulDivU32Floor
<1>4. MulDivU32Ceil(amount, m, d) =
        UNION {SmallFits(IF r.remainder = 0 THEN r.quotient ELSE r.quotient + 1) : r \in SmallExact(x, d)}
  BY <1>2 DEF MulDivU32Ceil, SmallFits
<1>5. CASE d = 0
  BY <1>3, <1>4, <1>5 DEF SmallExact
<1>6. CASE d # 0
  <2> DEFINE c == (x + d - 1) \div d
             q == x \div d
             e == SmallQuotient(x, d)
  <2>1. c = q + (IF x % d # 0 THEN 1 ELSE 0) /\ q \in Int
    <3>1. x \in Int /\ d \in Nat \ {0}
      BY <1>1, <1>6
    <3>2. c = q + (IF x % d # 0 THEN 1 ELSE 0)
      BY <3>1, CeilingIs
    <3>3. q \in Int
      BY <3>1, DivFloor
    <3> QED BY <3>2, <3>3
  <2>2. e.quotient = q /\ e.remainder = x % d
    BY DEF SmallQuotient
  <2> HIDE DEF c, e
  <2>3. CASE q < Wide
    <3>1. SmallExact(x, d) = {e}
      BY <1>6, <2>3 DEF SmallExact, e
    <3> HIDE DEF q
    <3>2. MulDivU32Floor(amount, m, d) = SmallFits(q)
      BY <1>3, <2>2, <2>3, <3>1 DEF SmallFits
    <3>3. MulDivU32Ceil(amount, m, d) = SmallFits(IF x % d = 0 THEN q ELSE q + 1)
      BY <1>4, <2>2, <3>1
    <3>4. c = IF x % d = 0 THEN q ELSE q + 1
      BY <2>1
    <3> QED BY <1>6, <3>2, <3>3, <3>4 DEF q, c, x
  <2>4. CASE ~(q < Wide)
    <3>1. SmallExact(x, d) = {}
      BY <2>4 DEF SmallExact
    <3> HIDE DEF q
    <3>2. ~(c < Wide)
      BY <1>1, <2>1, <2>4
    <3>3. SmallFits(c) = {} /\ SmallFits(q) = {}
      BY <2>4, <3>2 DEF SmallFits
    <3> QED BY <1>3, <1>4, <1>6, <3>1, <3>3 DEF q, c, x
  <2> QED BY <2>3, <2>4
<1> QED BY <1>5, <1>6

-----------------------------------------------------------------------------
(* The keys of ticks                                                           *)

\* Every number of 31 bits has a highest bit.
LEMMA HighestBitIs ==
  ASSUME NEW n \in 1 .. 2^TopBit
  PROVE  LET b == HighestBit(n)
         IN  b \in 0 .. TopBit /\ b \in Nat /\ 2^b <= n /\ n < 2^(b + 1) /\ 2^b \in Nat \ {0}
<1> DEFINE Above == {b \in 0 .. TopBit : n < 2^(b + 1)}
<1>1. TopBit \in Above
  <2>1. TopBit \in Nat /\ 2^TopBit \in Nat \ {0}
    BY PowType DEF TopBit
  <2>2. 2^(TopBit + 1) = 2 * 2^TopBit
    BY <2>1, PowNext
  <2>3. n \in Int /\ n <= 2^TopBit
    BY <2>1
  <2>4. n < 2^(TopBit + 1)
    BY <2>1, <2>2, <2>3
  <2> QED BY <2>1, <2>4
<1>2. PICK b \in Above : \A a \in Above : b <= a
  <2>1. Above \in SUBSET Nat
    OBVIOUS
  <2> HIDE DEF Above
  <2> QED BY <1>1, <2>1, LeastNatural
<1>3. b \in 0 .. TopBit /\ n < 2^(b + 1)
  BY <1>2
<1>4. 2^b <= n
  <2>1. CASE b = 0
    BY <2>1, PowZero
  <2>2. CASE b # 0
    <3> DEFINE a == b - 1
    <3>1. a \in 0 .. TopBit /\ a + 1 = b /\ ~(b <= a)
      <4>1. TopBit \in Nat /\ b \in Int
        BY <1>3 DEF TopBit
      <4>2. b \in 0 .. TopBit
        BY <1>3
      <4> QED BY <2>2, <4>1, <4>2
    <3>2. a \notin Above
      BY <1>2, <3>1
    <3>3. ~(n < 2^(a + 1))
      BY <3>1, <3>2
    <3>4. b \in Nat
      BY <1>3
    <3>5. 2^b \in Nat
      BY <3>4, PowType
    <3>6. ~(n < 2^b)
      BY <3>1, <3>3
    <3>7. n \in Int
      OBVIOUS
    <3> QED BY <3>5, <3>6, <3>7
  <2> QED BY <2>1, <2>2
<1> DEFINE h == HighestBit(n)
<1>5. h \in 0 .. TopBit /\ 2^h <= n /\ n < 2^(h + 1)
  BY <1>3, <1>4 DEF HighestBit
<1> HIDE DEF h
<1>6. h \in Nat
  BY <1>5
<1> QED BY <1>5, <1>6, PowType DEF h

\* A quotient between two multiples.
LEMMA QuotientBetween ==
  ASSUME NEW t \in Int, NEW s \in Nat \ {0}, NEW M \in Nat,
         -(s * M) <= t, t < s * M
  PROVE  t \div s \in -M .. M - 1
<1>1. t \div s \in Int /\ \A k \in Int : k <= t \div s <=> s * k <= t
  BY RoundsDown
<1> DEFINE c == t \div s
<1> HIDE DEF c
<1>2. -M <= c
  <2>1. -M \in Int /\ s * (-M) = -(s * M)
    OBVIOUS
  <2> QED BY <1>1, <2>1 DEF c
<1>3. ~(M <= c)
  <2>1. M \in Int /\ ~(s * M <= t)
    OBVIOUS
  <2> QED BY <1>1, <2>1 DEF c
<1>4. c \in Int
  BY <1>1 DEF c
<1> QED BY <1>2, <1>3, <1>4 DEF c

\* The compressed tick fits the bits the key keeps, so the key is the
\* compressed tick moved up by the sign bit.
LEMMA KeyIs ==
  ASSUME NEW t \in PoolTicks, NEW s \in Spacings
  PROVE  /\ t \in Int /\ s \in Nat \ {0} /\ t \div s \in Int
         /\ SignBit(s) \in Nat \ {0} /\ 2^KeyBits(s) = 2 * SignBit(s)
         /\ SignBit(s) <= 2^(HighestBit(MaxTick) + 1)
         /\ t \div s \in -SignBit(s) .. SignBit(s) - 1
         /\ FromTick(t, s) = (t \div s) + SignBit(s)
<1> DEFINE H == HighestBit(MaxTick)
           h == HighestBit(s)
           S == SignBit(s)
           c == t \div s
           m == 2^h
<1>1. MaxTick \in 1 .. 2^TopBit /\ MaxTick \in Nat /\ s \in 1 .. MaxSpacing /\ MaxSpacing <= MaxTick
      /\ MinTick = -MaxTick
  <2>1. TopBit \in Nat /\ 2^TopBit \in Nat
    BY PowType DEF TopBit
  <2>7. MaxSpacing \in Nat /\ MaxSpacing >= 1
    BY DEF MaxSpacing
  <2>2. MaxTick \in MaxSpacing .. 2^TopBit /\ MinTick = -MaxTick /\ Spacings \subseteq 1 .. MaxSpacing
    BY IndexerAssumption
  <2> DEFINE P == 2^TopBit
  <2>3. P \in Nat /\ MaxTick \in MaxSpacing .. P
    BY <2>1, <2>2
  <2> HIDE DEF P
  <2>4. MaxTick \in 1 .. P /\ MaxTick \in Nat /\ MaxSpacing <= MaxTick
    BY <2>3, <2>7
  <2>5. s \in 1 .. MaxSpacing
    BY <2>2
  <2>6. MaxTick \in 1 .. 2^TopBit
    BY <2>4 DEF P
  <2> QED BY <2>2, <2>4, <2>5, <2>6, <2>7
<1>16. MaxSpacing \in Nat
  BY DEF MaxSpacing
<1>2. t \in Int /\ s \in Nat \ {0} /\ -(MaxTick + 1) <= t /\ t <= MaxTick
  BY <1>1, <1>16 DEF PoolTicks
<1>3. H \in Nat /\ 2^H <= MaxTick /\ MaxTick < 2^(H + 1)
  <2>1. MaxTick \in 1 .. 2^TopBit
    BY <1>1
  <2> QED BY <2>1, HighestBitIs
<1>4. h \in Nat /\ m <= s /\ s < 2^(h + 1) /\ m \in Nat \ {0}
  <2>1. s \in 1 .. 2^TopBit
    <3>1. s <= MaxTick /\ s \in Nat /\ s >= 1
      BY <1>1, <1>16
    <3>2. 2^TopBit \in Nat
      BY PowType DEF TopBit
    <3> QED BY <1>1, <3>1, <3>2
  <2> QED BY <2>1, HighestBitIs
<1> HIDE DEF H, h
<1>5. h <= H
  <2> SUFFICES ASSUME H < h PROVE FALSE
    BY <1>3, <1>4
  <2>1. H + 1 \in Nat /\ H + 1 <= h
    BY <1>3, <1>4
  <2>2. 2^(H + 1) <= 2^h /\ 2^(H + 1) \in Nat
    BY <1>4, <2>1, PowSplit, PowType
  <2>3. s <= MaxTick
    BY <1>1, <1>16
  <2> QED BY <1>1, <1>2, <1>3, <1>4, <2>2, <2>3
<1>6. KeyBits(s) = (H + 1 - h) + 1 /\ H + 1 - h \in Nat
  BY <1>3, <1>4, <1>5 DEF KeyBits, H, h
<1>7. S = 2^(H + 1 - h) /\ S \in Nat \ {0} /\ 2^KeyBits(s) = 2 * S
  <2>1. KeyBits(s) - 1 = H + 1 - h
    BY <1>3, <1>4, <1>6
  <2>2. S = 2^(H + 1 - h)
    BY <2>1 DEF SignBit
  <2> QED BY <1>6, <2>2, PowNext, PowType
<1>8. 2^(H + 1) = m * S
  <2>1. H + 1 \in Nat /\ h <= H + 1
    BY <1>3, <1>4, <1>5
  <2> DEFINE H1 == H + 1
  <2>3. H1 \in Nat /\ h \in Nat /\ h <= H1
    BY <1>4, <2>1
  <2> HIDE DEF H1
  <2>4. 2^H1 = 2^h * 2^(H1 - h)
    BY <2>3, PowSplit
  <2>2. 2^(H + 1) = 2^h * 2^(H + 1 - h)
    <3>1. H1 = H + 1 /\ H1 - h = H + 1 - h
      BY <1>3, <1>4 DEF H1
    <3> QED BY <2>4, <3>1
  <2> QED BY <1>7, <2>2
<1> HIDE DEF S, m
<1>9. m * S <= s * S /\ m * S \in Nat /\ s * S \in Nat /\ S <= m * S
  <2>1. m * S <= s * S
    BY <1>2, <1>4, <1>7, Monotone
  <2>2. 1 * S <= m * S
    BY <1>4, <1>7, Monotone
  <2> QED BY <1>2, <1>4, <1>7, <2>1, <2>2
<1>10. c \in -S .. S - 1
  <2>1. -(s * S) <= t /\ t < s * S
    BY <1>1, <1>2, <1>3, <1>8, <1>9
  <2> QED BY <1>2, <1>7, <2>1, QuotientBetween
<1>11. c \in Int
  BY <1>7, <1>10
<1> HIDE DEF c
<1> DEFINE B == 2 * S
<1>12. c % B = IF c < 0 THEN c + B ELSE c
  <2>1. B \in Nat \ {0}
    BY <1>7
  <2>2. CASE c < 0
    <3>1. c = B * (-1) + (c + B) /\ c + B \in 0 .. B - 1 /\ -1 \in Int
      BY <1>7, <1>10, <1>11, <2>2
    <3> DEFINE x == c + B
    <3>2. c = B * (-1) + x /\ x \in 0 .. B - 1 /\ -1 \in Int
      BY <3>1
    <3> HIDE DEF x, B
    <3>3. c % B = x
      BY <1>11, <2>1, <3>2, QuotientIs
    <3> QED BY <2>2, <3>3 DEF x
  <2>3. CASE ~(c < 0)
    <3>1. c = B * 0 + c /\ c \in 0 .. B - 1 /\ 0 \in Int
      BY <1>7, <1>10, <1>11, <2>3
    <3> HIDE DEF B
    <3>2. c % B = c
      BY <1>11, <2>1, <3>1, QuotientIs
    <3> QED BY <2>3, <3>2
  <2> QED BY <2>2, <2>3
<1>13. FromTick(t, s) = IF c % B < S THEN (c % B) + S ELSE (c % B) - S
  BY <1>7 DEF FromTick, FlipSign, Compressed, c, S
<1>14. FromTick(t, s) = c + S
  <2>1. CASE c < 0
    <3>1. c % B = c + 2 * S
      BY <1>12, <2>1
    <3>2. ~(c % B < S)
      BY <1>7, <1>10, <1>11, <3>1
    <3> QED BY <1>7, <1>11, <1>13, <3>1, <3>2
  <2>2. CASE ~(c < 0)
    <3>1. c % B = c /\ c < S
      BY <1>7, <1>10, <1>11, <1>12, <2>2
    <3> QED BY <1>13, <3>1
  <2> QED BY <2>1, <2>2
<1>15. S <= 2^(H + 1)
  BY <1>8, <1>9
<1> QED BY <1>2, <1>7, <1>10, <1>11, <1>14, <1>15 DEF S, c, H

\* From one tick to the next the quotient stays or grows by one.
LEMMA NextQuotient ==
  ASSUME NEW t \in Int, NEW s \in Nat \ {0}
  PROVE  (t + 1) \div s = (t \div s) + (IF (t + 1) % s = 0 THEN 1 ELSE 0)
<1> DEFINE q == t \div s
           r == t % s
<1>1. t = s * q + r /\ r \in 0 .. s - 1 /\ q \in Int
  BY Remainder, DivFloor
<1> HIDE DEF q, r
<1>2. CASE r = s - 1
  <2>1. t + 1 = s * (q + 1) + 0 /\ 0 \in 0 .. s - 1 /\ q + 1 \in Int /\ t + 1 \in Int
    BY <1>1, <1>2
  <2>2. (t + 1) \div s = q + 1 /\ (t + 1) % s = 0
    BY <2>1, QuotientIs
  <2> QED BY <2>2 DEF q
<1>3. CASE r # s - 1
  <2>1. t + 1 = s * q + (r + 1) /\ r + 1 \in 0 .. s - 1 /\ t + 1 \in Int /\ r + 1 # 0
    BY <1>1, <1>3
  <2>2. (t + 1) \div s = q /\ (t + 1) % s = r + 1
    BY <1>1, <2>1, QuotientIs
  <2> QED BY <1>1, <2>1, <2>2 DEF q
<1> QED BY <1>2, <1>3

\* The machine stays on ticks of the pool.
KeyInv == tick \in Visited /\ spacing \in Spacings

THEOREM KeysTypeCorrect == KeySpec => []KeyInv
<1>1. KeyInit => KeyInv
  BY DEF KeyInit, KeyInv
<1>2. KeyInv /\ [KeyStep]_<<tick, spacing>> => KeyInv'
  BY DEF KeyInv, KeyStep
<1> QED BY <1>1, <1>2, PTL DEF KeySpec

LEMMA KeysFollow ==
  ASSUME KeyInv, KeyStep
  PROVE  FromTick(tick', spacing)
           = FromTick(tick, spacing) + (IF tick' % spacing = 0 THEN 1 ELSE 0)
<1> DEFINE s == spacing
           t == tick
<1>1. t \in PoolTicks /\ t + 1 \in PoolTicks /\ s \in Spacings /\ tick' = t + 1
  <2>1. Visited \subseteq PoolTicks
    BY IndexerAssumption
  <2> QED BY <2>1 DEF KeyInv, KeyStep
<1> HIDE DEF s, t
<1> DEFINE u == t + 1
<1>2. /\ t \in Int /\ s \in Nat \ {0} /\ SignBit(s) \in Nat \ {0} /\ t \div s \in Int
      /\ FromTick(t, s) = (t \div s) + SignBit(s)
  BY <1>1, KeyIs
<1>3. FromTick(u, s) = (u \div s) + SignBit(s)
  <2>1. u \in PoolTicks
    BY <1>1
  <2> HIDE DEF u
  <2> QED BY <1>1, <2>1, KeyIs
<1>4. (t + 1) \div s = (t \div s) + (IF (t + 1) % s = 0 THEN 1 ELSE 0)
  BY <1>2, NextQuotient
<1> DEFINE i == IF (t + 1) % s = 0 THEN 1 ELSE 0
           q == t \div s
           S == SignBit(s)
<1>5. i \in Int /\ q \in Int /\ S \in Int
  BY <1>2
<1>6. FromTick(u, s) = (q + i) + S /\ FromTick(t, s) = q + S
  BY <1>2, <1>3, <1>4
<1> HIDE DEF i, q, S
<1>7. FromTick(u, s) = FromTick(t, s) + i
  BY <1>5, <1>6
<1> QED BY <1>1, <1>7 DEF i, s, t

\* From one tick to the next the key stays, or grows by one where a multiple
\* of the spacing is passed.
THEOREM KeysOrderedAsTicks == KeySpec => KeysFollowTicks
<1>1. KeyInv /\ [KeyStep]_<<tick, spacing>> =>
        [FromTick(tick', spacing)
           = FromTick(tick, spacing) + (IF tick' % spacing = 0 THEN 1 ELSE 0)]_<<tick, spacing>>
  BY KeysFollow
<1> QED BY <1>1, KeysTypeCorrect, PTL DEF KeySpec, KeysFollowTicks

\* Flipping the sign bit back and extending it undoes the key.
LEMMA KeyDecodes ==
  ASSUME NEW t \in PoolTicks, NEW s \in Spacings
  PROVE  ToTick(FromTick(t, s), s) = t - (t % s)
<1> DEFINE c == t \div s
           S == SignBit(s)
           key == FromTick(t, s)
           raw == FlipSign(key, s)
<1>1. /\ t \in Int /\ s \in Nat \ {0} /\ S \in Nat \ {0} /\ 2^KeyBits(s) = 2 * S
      /\ c \in Int /\ c \in -S .. S - 1 /\ key = c + S
  BY KeyIs
<1>2. t = s * c + (t % s) /\ t % s \in Int
  <2>1. t \in Int /\ s \in Int /\ s > 0
    BY <1>1
  <2> DEFINE r == t % s
  <2>2. t = s * c + r /\ r \in 0 .. s - 1
    BY <2>1, Remainder
  <2> HIDE DEF r, c
  <2>3. r \in Int
    BY <1>1, <2>2
  <2> QED BY <2>2, <2>3 DEF r
<1> HIDE DEF c, key
<1>3. raw = IF key < S THEN key + S ELSE key - S
  BY DEF FlipSign
<1>4. ToTick(key, s) = s * (IF raw < S THEN raw ELSE raw - 2^KeyBits(s))
  BY DEF ToTick
<1> HIDE DEF raw, S
<1>5. (IF raw < S THEN raw ELSE raw - 2^KeyBits(s)) = c
  <2>1. CASE c < 0
    <3>1. raw = c + S + S /\ ~(raw < S)
      BY <1>1, <1>3, <2>1
    <3> QED BY <1>1, <3>1
  <2>2. CASE ~(c < 0)
    <3>1. raw = c /\ raw < S
      BY <1>1, <1>3, <2>2
    <3> QED BY <3>1
  <2> QED BY <2>1, <2>2
<1>6. ToTick(key, s) = s * c
  BY <1>4, <1>5
<1> DEFINE r == t % s
           m == s * c
<1>7. t = m + r /\ r \in Int /\ m \in Int
  BY <1>1, <1>2
<1> HIDE DEF r, m
<1>8. m = t - r
  BY <1>7
<1> QED BY <1>6, <1>8 DEF key, m, r

\* The page of a key, before it is cut to a u16: no greater than the page of
\* the highest tick, which fits.
LEMMA PagesFit ==
  ASSUME NEW t \in PoolTicks, NEW s \in Spacings
  PROVE  /\ FromTick(t, s) \in Nat /\ 2^SlotBits \in Nat \ {0} /\ 2^PageBits \in Nat \ {0}
         /\ FromTick(t, s) \div 2^SlotBits \in Nat
         /\ PageOf(FromTick(t, s)) = FromTick(t, s) \div 2^SlotBits
         /\ PageOf(FromTick(t, s)) < CacheCap(s) /\ CacheCap(s) < 2^PageBits
<1> DEFINE key == FromTick(t, s)
           top == FromTick(MaxTick, s)
           P == 2^SlotBits
           U == 2^PageBits
           S == SignBit(s)
           X == 2^(HighestBit(MaxTick) + 1)
<1>1. MaxTick \in Nat /\ SlotBits \in Nat /\ MaxTick + X < (U - 1) * P /\ MinTick = -MaxTick
  <2>1. MaxSpacing \in Nat /\ 2^TopBit \in Nat
    BY PowType DEF MaxSpacing, TopBit
  <2> DEFINE T == 2^TopBit
  <2>2. MaxTick \in MaxSpacing .. T
    BY IndexerAssumption
  <2>3. T \in Nat
    BY <2>1
  <2> HIDE DEF T
  <2>4. MaxTick \in Nat
    BY <2>1, <2>2, <2>3
  <2> QED BY <2>4, IndexerAssumption
<1>2. P \in Nat \ {0} /\ U \in Nat \ {0}
  <2>1. PageBits \in Nat
    BY DEF PageBits
  <2> QED BY <1>1, <2>1, PowType
<1>3. X \in Int
  <2>1. MaxTick \in 1 .. 2^TopBit
    <3>1. 2^TopBit \in Nat /\ MaxSpacing \in Nat /\ 1 <= MaxSpacing
      BY PowType DEF MaxSpacing, TopBit
    <3> DEFINE T == 2^TopBit
    <3>2. T \in Nat /\ MaxTick \in MaxSpacing .. T
      BY <3>1, IndexerAssumption
    <3> HIDE DEF T
    <3>3. MaxTick \in 1 .. T
      BY <3>1, <3>2
    <3> QED BY <3>3 DEF T
  <2>2. HighestBit(MaxTick) \in Nat
    BY <2>1, HighestBitIs
  <2>3. HighestBit(MaxTick) + 1 \in Nat
    BY <2>2
  <2> QED BY <2>3, PowType
<1> HIDE DEF X, P, U
<1>4. MaxTick \in PoolTicks
  BY <1>1 DEF PoolTicks
<1>5. /\ t \in Int /\ s \in Nat \ {0} /\ S \in Nat \ {0} /\ S <= X
      /\ t \div s \in Int /\ t \div s \in -S .. S - 1 /\ key = (t \div s) + S
  BY KeyIs DEF X
<1>6. MaxTick \div s \in Int /\ top = (MaxTick \div s) + S
  BY <1>4, KeyIs
<1>7. t <= MaxTick
  BY <1>1 DEF PoolTicks
<1> HIDE DEF S, key, top
<1>8. t \div s <= MaxTick \div s
  <2>1. s * (t \div s) <= t
    BY <1>5, DivFloor
  <2> DEFINE c == t \div s
  <2>2. c \in Int /\ s * c <= MaxTick /\ MaxTick \in Int
    <3>1. c \in Int /\ s * c <= t
      BY <1>5, <2>1
    <3> HIDE DEF c
    <3> QED BY <1>1, <1>5, <1>7, <3>1
  <2> HIDE DEF c
  <2>3. c <= MaxTick \div s
    BY <1>5, <2>2, DivLower
  <2> QED BY <2>3 DEF c
<1>9. MaxTick \div s <= MaxTick
  <2>1. MaxTick <= s * MaxTick
    <3>1. 1 * MaxTick <= s * MaxTick
      BY <1>1, <1>5, Monotone
    <3> QED BY <1>1, <3>1
  <2>2. MaxTick \in Int /\ s \in Nat \ {0}
    BY <1>1, <1>5
  <2> QED BY <2>1, <2>2, DivUpper
<1> DEFINE c == t \div s
           e == MaxTick \div s
<1>10. c \in Int /\ e \in Int /\ c <= e /\ e <= MaxTick /\ key = c + S /\ top = e + S /\ c \in -S .. S - 1
  BY <1>5, <1>6, <1>8, <1>9
<1> HIDE DEF c, e
<1>11. key \in Nat /\ top \in Nat /\ key <= top /\ top <= MaxTick + X
  BY <1>1, <1>3, <1>5, <1>10
<1>12. (U - 1) * P \in Int /\ (U - 1) * P = P * (U - 1)
  BY <1>2
<1>13. key \div P \in Nat
  <2>1. P * 0 <= key /\ key \in Int
    BY <1>2, <1>11
  <2>2. key \div P \in Int /\ 0 <= key \div P
    BY <1>2, <2>1, DivLower
  <2> QED BY <2>2
<1>14. top \div P \in Int /\ key \div P <= top \div P
  <2> DEFINE a == key \div P
  <2>1. a \in Int /\ P * a <= key
    BY <1>2, <1>11, DivFloor
  <2> HIDE DEF a
  <2>2. P * a <= top /\ top \in Int
    BY <1>2, <1>11, <2>1
  <2>3. top \div P \in Int /\ a <= top \div P
    BY <1>2, <2>1, <2>2, DivLower
  <2> QED BY <2>3 DEF a
<1>15. top \div P < U - 1
  <2> DEFINE n == U - 1
  <2>1. n \in Int /\ ~(P * n <= top) /\ top \in Int
    BY <1>1, <1>2, <1>3, <1>11, <1>12
  <2> HIDE DEF n
  <2>2. ~(n <= top \div P)
    BY <1>2, <2>1, RoundsDown
  <2> QED BY <1>14, <2>1, <2>2 DEF n
<1> DEFINE a == key \div P
           b == top \div P
<1>16. a \in Nat /\ b \in Int /\ a <= b /\ b < U - 1
  BY <1>13, <1>14, <1>15
<1>17. PageOf(key) = a % U /\ CacheCap(s) = (b % U) + 1
  BY DEF PageOf, CacheCap, P, U, key, top
<1> HIDE DEF a, b
<1>18. ASSUME NEW x \in Int, 0 <= x, x < U PROVE x % U = x
  <2>1. x = U * 0 + x /\ x \in 0 .. U - 1 /\ 0 \in Int
    BY <1>2, <1>18
  <2> QED BY <1>2, <2>1, QuotientIs
<1>19. a % U = a /\ b % U = b
  BY <1>2, <1>16, <1>18
<1>20. PageOf(key) = a /\ PageOf(key) < CacheCap(s) /\ CacheCap(s) < U
  BY <1>2, <1>16, <1>17, <1>19
<1> QED BY <1>2, <1>11, <1>13, <1>20 DEF key, a, P, U

\* Every key lies in the cache the constructor sizes, survives the split into
\* page and slot, and decodes to the boundary at or below the tick.
THEOREM KeysDecodeToBoundaries == KeySpec => []KeysDecode
<1>1. KeyInv => KeysDecode
  <2> SUFFICES ASSUME KeyInv PROVE KeysDecode
    OBVIOUS
  <2> DEFINE s == spacing
             t == tick
             key == FromTick(t, s)
             P == 2^SlotBits
  <2>1. t \in PoolTicks /\ s \in Spacings
    <3>1. Visited \subseteq PoolTicks
      BY IndexerAssumption
    <3> QED BY <3>1 DEF KeyInv
  <2> HIDE DEF s, t
  <2>2. /\ key \in Nat /\ P \in Nat \ {0} /\ key \div P \in Nat
        /\ PageOf(key) = key \div P
        /\ PageOf(key) < CacheCap(s) /\ CacheCap(s) < 2^PageBits
    BY <2>1, PagesFit
  <2>3. ToTick(key, s) = t - (t % s)
    BY <2>1, KeyDecodes
  <2> HIDE DEF key
  <2>4. FromParts(PageOf(key), SlotOf(key)) = key
    <3> DEFINE a == key \div P
               r == key % P
    <3>1. FromParts(PageOf(key), SlotOf(key)) = a * P + r
      BY <2>2 DEF FromParts, SlotOf
    <3> HIDE DEF P
    <3>2. key = P * a + r /\ r \in 0 .. P - 1 /\ a \in Nat
      BY <2>2, Remainder
    <3> HIDE DEF a, r
    <3>3. a * P + r = key
      BY <2>2, <3>2
    <3> QED BY <3>1, <3>3
  <2> QED BY <2>2, <2>3, <2>4 DEF KeysDecode, key, s, t
<1> QED BY <1>1, KeysTypeCorrect, PTL

-----------------------------------------------------------------------------
(* The walks of Numerics                                                       *)

\* A walk stays on operands of its width.
NumbersFit ==
  /\ walk \in {"word", "amount", "price"}
  /\ walk = "word" => number \in Words
  /\ walk = "amount" => number \in 0 .. Wide - 1

LEMMA NumbersStayFit == WalkSpec => []NumbersFit
<1>1. Word \in Nat \ {0, 1} /\ Words = 0 .. Word - 1 /\ Wide \in Nat \ {0}
  BY WordType, LimbType
<1>2. WalkInit => NumbersFit
  BY <1>1 DEF WalkInit, NumbersFit, From
<1>3. NumbersFit /\ [WalkStep]_<<walk, number>> => NumbersFit'
  <2> SUFFICES ASSUME NumbersFit, [WalkStep]_<<walk, number>> PROVE NumbersFit'
    OBVIOUS
  <2>1. CASE UNCHANGED <<walk, number>>
    BY <2>1 DEF NumbersFit
  <2>2. CASE WalkStep
    <3>1. walk' = walk /\ number' = number + 1 /\ number < To(walk)
      BY <2>2 DEF WalkStep
    <3>2. walk = "word" => number' \in Words
      BY <1>1, <3>1 DEF NumbersFit, To
    <3>3. walk = "amount" => number' \in 0 .. Wide - 1
      BY <1>1, <3>1 DEF NumbersFit, To
    <3> QED BY <3>1, <3>2, <3>3 DEF NumbersFit
  <2> QED BY <2>1, <2>2
<1> QED BY <1>2, <1>3, PTL DEF WalkSpec

\* Multiplying and dividing words is exact: every result is the floor or the
\* ceiling of the unbounded quotient, and an error means none fits a word.
THEOREM WordsDividedExactly == WalkSpec => []FullMathExact
<1>1. NumbersFit => FullMathExact
  BY MulDivExact, MulQ96DivExact DEF NumbersFit, FullMathExact
<1> QED BY <1>1, NumbersStayFit, PTL

\* ... and so is multiplying and dividing amounts limb by limb.
THEOREM AmountsDividedExactly == WalkSpec => []SmallRatioExact
<1>1. NumbersFit => SmallRatioExact
  BY SmallRatioIs DEF NumbersFit, SmallRatioExact, SmallFits
<1> QED BY <1>1, NumbersStayFit, PTL

=============================================================================
