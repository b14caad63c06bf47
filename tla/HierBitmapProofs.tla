-------------------------- MODULE HierBitmapProofs --------------------------
(* Proofs about the three-layer bitmap, for every capacity and word size:   *)
(* the summaries are exact and the bitmap implements the flat set.          *)
EXTENDS HierBitmap, BasicLemmas

-----------------------------------------------------------------------------
(* Words and bits *)

\* A key is its word and its bit.
LEMMA Split ==
  ASSUME NEW i \in Nat
  PROVE  /\ WordOf(i) \in Nat /\ BitOf(i) \in Bits
         /\ i = WordOf(i) * WordBits + BitOf(i)
<1>1. WordBits \in Nat \ {0}
  BY WordAssumption
<1>2. i \div WordBits \in Nat
  BY <1>1, DivLower
<1>3. i = WordBits * (i \div WordBits) + (i % WordBits) /\ i % WordBits \in 0 .. WordBits - 1
  BY <1>1, Remainder
<1> DEFINE q == i \div WordBits
           r == i % WordBits
<1>4. q \in Nat /\ i = WordBits * q + r /\ r \in 0 .. WordBits - 1
  BY <1>2, <1>3
<1>5. WordOf(i) = q /\ BitOf(i) = r
  BY DEF WordOf, BitOf
<1> HIDE DEF q, r
<1>6. WordBits * q = q * WordBits
  BY <1>1, <1>4
<1> QED BY <1>4, <1>5, <1>6 DEF Bits

\* A later word's keys come later.
LEMMA WordOrder ==
  ASSUME NEW u \in Nat, NEW v \in Nat, u < v
  PROVE  u * WordBits + WordBits <= v * WordBits
<1>1. WordBits \in Nat /\ u + 1 \in Nat /\ u + 1 <= v
  BY WordAssumption
<1>2. (u + 1) * WordBits <= v * WordBits
  BY <1>1, Monotone
<1>3. (u + 1) * WordBits = u * WordBits + WordBits
  BY <1>1
<1> QED BY <1>2, <1>3

\* ... so that word and bit determine the key.
LEMMA Join ==
  ASSUME NEW w \in Nat, NEW b \in Bits
  PROVE  /\ w * WordBits + b \in Nat
         /\ WordOf(w * WordBits + b) = w /\ BitOf(w * WordBits + b) = b
<1> DEFINE i == w * WordBits + b
<1>1. WordBits \in Nat \ {0} /\ b \in 0 .. WordBits - 1 /\ w * WordBits \in Nat
  BY WordAssumption, Product DEF Bits
<1>2. i \in Nat
  BY <1>1
<1>3. WordOf(i) \in Nat /\ BitOf(i) \in 0 .. WordBits - 1 /\ i = WordOf(i) * WordBits + BitOf(i)
  BY <1>2, Split DEF Bits
<1> DEFINE v == WordOf(i)
           c == BitOf(i)
<1>4. v * WordBits \in Nat
  BY <1>1, <1>3, Product
<1>5. w * WordBits + b = v * WordBits + c
  BY <1>3
<1>6. v < w => v * WordBits + WordBits <= w * WordBits
  BY <1>3, WordOrder
<1>7. w < v => w * WordBits + WordBits <= v * WordBits
  BY <1>3, WordOrder
<1>8. v \in Nat /\ c \in 0 .. WordBits - 1
  BY <1>3
<1> HIDE DEF v, c
<1>9. v = w
  BY <1>1, <1>4, <1>5, <1>6, <1>7, <1>8
<1>10. c = b
  BY <1>1, <1>5, <1>8, <1>9
<1> QED BY <1>2, <1>9, <1>10 DEF v, c

\* n items fill the first CeilDiv(n, WordBits) words.
LEMMA WordRange ==
  ASSUME NEW n \in Nat, NEW i \in 0 .. n - 1
  PROVE  WordOf(i) \in 0 .. CeilDiv(n, WordBits) - 1
<1> DEFINE v == WordOf(i)
           c == CeilDiv(n, WordBits)
<1>1. WordBits \in Nat \ {0}
  BY WordAssumption
<1>2. v \in Nat /\ WordBits * v <= i
  <2>1. i \in Nat
    OBVIOUS
  <2> QED BY <1>1, <2>1, DivLower, DivFloor DEF WordOf
<1>3. c \in Int /\ v + 1 <= c
  <2>1. n + WordBits - 1 \in Int /\ v + 1 \in Int
    BY <1>1, <1>2
  <2>2. WordBits * (v + 1) = WordBits * v + WordBits /\ WordBits * v \in Nat
    BY <1>1, <1>2, Product
  <2>3. WordBits * (v + 1) <= n + WordBits - 1
    BY <1>1, <1>2, <2>2
  <2> QED BY <1>1, <2>1, <2>3, DivLower DEF CeilDiv
<1> HIDE DEF v, c
<1>4. v \in 0 .. c - 1
  BY <1>2, <1>3
<1> QED BY <1>4 DEF v, c

\* The words of the two lower layers.
LEMMA Words ==
  /\ Words0 \subseteq Nat /\ Words1 \subseteq Nat
  /\ \A k \in 0 .. Cap - 1 : WordOf(k) \in Words0
  /\ \A w \in Words0 : WordOf(w) \in Words1
<1>1. Cap \in Nat /\ WordBits \in Nat \ {0}
  BY WordAssumption
<1>2. CeilDiv(Cap, WordBits) \in Nat
  <2>1. Cap + WordBits - 1 \in Nat
    BY <1>1
  <2> QED BY <1>1, <2>1, DivLower DEF CeilDiv
<1>3. \A k \in 0 .. Cap - 1 : WordOf(k) \in Words0
  BY <1>1, WordRange DEF Words0
<1>4. \A w \in Words0 : WordOf(w) \in Words1
  BY <1>2, WordRange DEF Words0, Words1
<1> QED BY <1>3, <1>4 DEF Words0, Words1

-----------------------------------------------------------------------------
(* Searching a word *)

\* The bit trailing_zeros finds.
LEMMA LowestIn ==
  ASSUME NEW S \in SUBSET Nat, S # {}
  PROVE  Lowest(S) \in S /\ \A b \in S : Lowest(S) <= b
BY LeastNatural DEF Lowest

\* The bit leading_zeros finds.
LEMMA HighestIn ==
  ASSUME NEW m \in Nat, NEW S \in SUBSET (0 .. m), S # {}
  PROVE  Highest(S) \in S /\ \A b \in S : b <= Highest(S)
<1> DEFINE T == {m - b : b \in S}
<1>1. T \in SUBSET Nat /\ T # {}
  <2>1. PICK b \in S : TRUE
    OBVIOUS
  <2>2. m - b \in T
    BY <2>1
  <2> QED BY <2>2
<1>2. PICK n \in T : \A c \in T : n <= c
  BY <1>1, LeastNatural
<1>3. PICK h \in S : n = m - h
  BY <1>2
<1>4. ASSUME NEW b \in S PROVE b <= h
  <2>1. m - h <= m - b
    BY <1>2, <1>3
  <2> QED BY <2>1
<1> QED BY <1>4 DEF Highest

\* The bits of the items of a set in word i, from bit t on or before bit t.
ItemsFrom(N, i, t)   == {b \in Bits : b >= t /\ i * WordBits + b \in N}
ItemsBefore(N, i, t) == {b \in Bits : b < t /\ i * WordBits + b \in N}
FirstAt(N, i, t) == i * WordBits + Lowest(ItemsFrom(N, i, t))
LastAt(N, i, t)  == i * WordBits + Highest(ItemsBefore(N, i, t))

\* The first item of a set at or after bit t of word i, if the word has one.
LEMMA FirstInWord ==
  ASSUME NEW N \in SUBSET Nat, NEW i \in Nat, NEW t \in 0 .. WordBits
  PROVE  /\ ItemsFrom(N, i, t) # {} =>
              /\ FirstAt(N, i, t) \in N /\ WordOf(FirstAt(N, i, t)) = i
              /\ FirstAt(N, i, t) >= i * WordBits + t
              /\ \A v \in N : v >= i * WordBits + t => FirstAt(N, i, t) <= v
         /\ ItemsFrom(N, i, t) = {} => \A v \in N : v >= i * WordBits + t => WordOf(v) > i
<1> DEFINE cands == ItemsFrom(N, i, t)
           base == i * WordBits
           u == FirstAt(N, i, t)
           low == Lowest(cands)
<1>b. cands = {b \in Bits : b >= t /\ base + b \in N}
  BY DEF ItemsFrom
<1>a. u = base + Lowest(cands)
  BY DEF FirstAt
<1> HIDE DEF cands, u
<1>1. WordBits \in Nat \ {0} /\ base \in Nat /\ cands \in SUBSET Nat
  BY <1>a, <1>b, WordAssumption, Product DEF Bits
<1>2. ASSUME cands # {} PROVE low \in cands /\ \A b \in cands : low <= b
  BY <1>1, <1>2, LowestIn
<1>3. ASSUME NEW v \in N, v >= base + t, WordOf(v) <= i
      PROVE  BitOf(v) \in cands /\ v = base + BitOf(v)
  <2> DEFINE w == WordOf(v)
             b == BitOf(v)
  <2>1. w \in Nat /\ b \in Bits /\ v = w * WordBits + b /\ v \in Nat
    BY Split
  <2>2. w * WordBits \in Nat /\ b \in 0 .. WordBits - 1
    BY <1>1, <2>1, Product DEF Bits
  <2>3. w < i => w * WordBits + WordBits <= base
    BY <2>1, WordOrder
  <2> HIDE DEF base
  <2>4. w = i
    <3> SUFFICES ASSUME w < i PROVE FALSE
      BY <1>3, <2>1
    <3> HIDE DEF w, b
    <3> QED BY <1>1, <1>3, <2>1, <2>2, <2>3
  <2>5. v = base + b /\ b >= t
    <3>1. v = base + b
      BY <2>1, <2>4 DEF base
    <3> HIDE DEF w, b
    <3> QED BY <1>1, <1>3, <2>2, <3>1
  <2> QED BY <1>a, <1>b, <2>1, <2>5 DEF base
<1>4. ASSUME cands = {}, NEW v \in N, v >= base + t PROVE WordOf(v) > i
  <2>1. WordOf(v) \in Nat
    BY Split
  <2> QED BY <1>3, <1>4, <2>1
<1>5. ASSUME cands # {}, NEW v \in N, v >= base + t PROVE u <= v
  <2>1. low \in Bits /\ WordOf(v) \in Nat /\ BitOf(v) \in Bits /\ v \in Nat
        /\ v = WordOf(v) * WordBits + BitOf(v)
    BY <1>a, <1>b, <1>2, <1>5, Split
  <2>2. CASE WordOf(v) <= i
    <3>1. BitOf(v) \in cands /\ v = base + BitOf(v)
      BY <1>3, <1>5, <2>2
    <3>2. low <= BitOf(v)
      BY <1>2, <1>5, <3>1
    <3> HIDE DEF low, base
    <3> QED BY <1>1, <1>a, <2>1, <3>1, <3>2 DEF low, base, Bits
  <2>3. CASE i < WordOf(v)
    <3>1. base + WordBits <= WordOf(v) * WordBits
      BY <2>1, <2>3, WordOrder
    <3>2. WordOf(v) * WordBits \in Nat
      BY <1>1, <2>1, Product
    <3> DEFINE x == WordOf(v) * WordBits
               c == BitOf(v)
    <3>3. x \in Nat /\ c \in Nat /\ v = x + c /\ base + WordBits <= x
      BY <2>1, <3>1, <3>2 DEF Bits
    <3>4. low \in 0 .. WordBits - 1 /\ u = base + low
      BY <1>a, <2>1 DEF Bits
    <3> HIDE DEF x, c, low, base
    <3> QED BY <1>1, <3>3, <3>4
  <2> QED BY <2>1, <2>2, <2>3
<1>6. ASSUME cands # {} PROVE u \in N /\ WordOf(u) = i /\ u >= base + t
  <2>1. low \in Bits /\ low >= t /\ u = base + low /\ u \in N
    BY <1>a, <1>b, <1>2, <1>6
  <2>2. WordOf(u) = i
    BY <2>1, Join
  <2> QED BY <1>1, <2>1, <2>2 DEF Bits
<1> QED BY <1>4, <1>5, <1>6 DEF cands, u

\* The same, for a word that has such an item.
LEMMA FirstIn ==
  ASSUME NEW N \in SUBSET Nat, NEW i \in Nat, NEW t \in 0 .. WordBits, ItemsFrom(N, i, t) # {}
  PROVE  /\ FirstAt(N, i, t) \in N /\ WordOf(FirstAt(N, i, t)) = i
         /\ FirstAt(N, i, t) >= i * WordBits + t
         /\ \A v \in N : v >= i * WordBits + t => FirstAt(N, i, t) <= v
BY FirstInWord

\* The same, for a word that has none: the next item is in a later word.
LEMMA NoneFrom ==
  ASSUME NEW N \in SUBSET Nat, NEW i \in Nat, NEW t \in 0 .. WordBits, ItemsFrom(N, i, t) = {}
  PROVE  \A v \in N : v >= i * WordBits + t => WordOf(v) > i
BY FirstInWord

\* The last item of a set before bit t of word i, if the word has one.
LEMMA LastInWord ==
  ASSUME NEW N \in SUBSET Nat, NEW i \in Nat, NEW t \in 0 .. WordBits
  PROVE  /\ ItemsBefore(N, i, t) # {} =>
              /\ LastAt(N, i, t) \in N /\ WordOf(LastAt(N, i, t)) = i
              /\ LastAt(N, i, t) < i * WordBits + t
              /\ \A v \in N : v < i * WordBits + t => v <= LastAt(N, i, t)
         /\ ItemsBefore(N, i, t) = {} => \A v \in N : v < i * WordBits + t => WordOf(v) < i
<1> DEFINE cands == ItemsBefore(N, i, t)
           base == i * WordBits
           u == LastAt(N, i, t)
           high == Highest(cands)
<1>b. cands = {b \in Bits : b < t /\ base + b \in N}
  BY DEF ItemsBefore
<1>a. u = base + Highest(cands)
  BY DEF LastAt
<1> HIDE DEF cands, u
<1>1. WordBits \in Nat \ {0} /\ base \in Nat /\ cands \in SUBSET (0 .. WordBits)
  BY <1>a, <1>b, WordAssumption, Product DEF Bits
<1>2. ASSUME cands # {} PROVE high \in cands /\ \A b \in cands : b <= high
  BY <1>1, <1>2, HighestIn
<1>3. ASSUME NEW v \in N, v < base + t, i <= WordOf(v)
      PROVE  BitOf(v) \in cands /\ v = base + BitOf(v)
  <2> DEFINE w == WordOf(v)
             b == BitOf(v)
  <2>1. w \in Nat /\ b \in Bits /\ v = w * WordBits + b /\ v \in Nat
    BY Split
  <2>2. w * WordBits \in Nat /\ b \in 0 .. WordBits - 1
    BY <1>1, <2>1, Product DEF Bits
  <2>3. i < w => base + WordBits <= w * WordBits
    BY <2>1, WordOrder
  <2> HIDE DEF base
  <2>4. w = i
    <3> SUFFICES ASSUME i < w PROVE FALSE
      BY <1>3, <2>1
    <3> DEFINE x == w * WordBits
    <3>1. x \in Nat /\ v = x + b /\ base + WordBits <= x
      BY <2>1, <2>2, <2>3
    <3> HIDE DEF w, b, x
    <3> QED BY <1>1, <1>3, <2>2, <3>1
  <2>5. v = base + b /\ b < t
    <3>1. v = base + b
      BY <2>1, <2>4 DEF base
    <3> HIDE DEF w, b
    <3> QED BY <1>1, <1>3, <2>2, <3>1
  <2> QED BY <1>a, <1>b, <2>1, <2>5 DEF base
<1>4. ASSUME cands = {}, NEW v \in N, v < base + t PROVE WordOf(v) < i
  <2>1. WordOf(v) \in Nat
    BY Split
  <2> QED BY <1>3, <1>4, <2>1
<1>5. ASSUME cands # {}, NEW v \in N, v < base + t PROVE v <= u
  <2>1. high \in Bits /\ WordOf(v) \in Nat /\ BitOf(v) \in Bits /\ v \in Nat
        /\ v = WordOf(v) * WordBits + BitOf(v)
    BY <1>a, <1>b, <1>2, <1>5, Split
  <2>2. CASE i <= WordOf(v)
    <3>1. BitOf(v) \in cands /\ v = base + BitOf(v)
      BY <1>3, <1>5, <2>2
    <3>2. BitOf(v) <= high
      BY <1>2, <1>5, <3>1
    <3> HIDE DEF high, base
    <3> QED BY <1>1, <1>a, <2>1, <3>1, <3>2 DEF high, base, Bits
  <2>3. CASE WordOf(v) < i
    <3> DEFINE x == WordOf(v) * WordBits
               c == BitOf(v)
    <3>1. x + WordBits <= base
      BY <2>1, <2>3, WordOrder
    <3>2. x \in Nat
      BY <1>1, <2>1, Product
    <3>3. x \in Nat /\ c \in 0 .. WordBits - 1 /\ v = x + c
      BY <2>1, <3>2 DEF Bits
    <3>4. high \in 0 .. WordBits - 1 /\ u = base + high
      BY <1>a, <2>1 DEF Bits
    <3> HIDE DEF x, c, high, base
    <3> QED BY <1>1, <3>1, <3>3, <3>4
  <2> QED BY <2>1, <2>2, <2>3
<1>6. ASSUME cands # {} PROVE u \in N /\ WordOf(u) = i /\ u < base + t
  <2>1. high \in Bits /\ high < t /\ u = base + high /\ u \in N
    BY <1>a, <1>b, <1>2, <1>6
  <2>2. WordOf(u) = i
    BY <2>1, Join
  <2> QED BY <1>1, <2>1, <2>2 DEF Bits
<1> QED BY <1>4, <1>5, <1>6 DEF cands, u

\* The same, for a word that has such an item.
LEMMA LastIn ==
  ASSUME NEW N \in SUBSET Nat, NEW i \in Nat, NEW t \in 0 .. WordBits, ItemsBefore(N, i, t) # {}
  PROVE  /\ LastAt(N, i, t) \in N /\ WordOf(LastAt(N, i, t)) = i
         /\ LastAt(N, i, t) < i * WordBits + t
         /\ \A v \in N : v < i * WordBits + t => v <= LastAt(N, i, t)
BY LastInWord

\* The same, for a word that has none: the last item is in an earlier word.
LEMMA NoneBefore ==
  ASSUME NEW N \in SUBSET Nat, NEW i \in Nat, NEW t \in 0 .. WordBits, ItemsBefore(N, i, t) = {}
  PROVE  \A v \in N : v < i * WordBits + t => WordOf(v) < i
BY LastInWord

-----------------------------------------------------------------------------
(* The summaries stay exact *)

\* The leaf words that hold keys, and the part of them a middle word covers.
Leaves == {w \in Words0 : layer0[w] # {}}
SummaryOf(L, w) == {b \in Bits : w * WordBits + b \in L}

\* Besides exact summaries: the padding of the last word stays clear.
BitmapInv ==
  /\ layer0 \in [Words0 -> SUBSET Bits]
  /\ \A w \in Words0 : \A b \in layer0[w] : w * WordBits + b < Cap
  /\ layer1 \in [Words1 -> SUBSET Bits]
  /\ \A w \in Words1 : layer1[w] = SummaryOf(Leaves, w)
  /\ layer2 = {w \in Words1 : layer1[w] # {}}

\* One word more is one bit more in the summary of that word.
LEMMA SummaryOfMore ==
  ASSUME NEW L \in SUBSET Nat, NEW u \in Nat, NEW w \in Nat
  PROVE  SummaryOf(L \cup {u}, w) =
           IF w = WordOf(u) THEN SummaryOf(L, w) \cup {BitOf(u)} ELSE SummaryOf(L, w)
<1>1. \A b \in Bits : w * WordBits + b = u <=> (w = WordOf(u) /\ b = BitOf(u))
  BY Split, Join
<1>2. BitOf(u) \in Bits
  BY Split
<1> QED BY <1>1, <1>2 DEF SummaryOf

\* Taking an item out clears one bit of one summary word.
LEMMA SummaryOfLess ==
  ASSUME NEW L \in SUBSET Nat, NEW u \in Nat, NEW w \in Nat
  PROVE  SummaryOf(L \ {u}, w) =
           IF w = WordOf(u) THEN SummaryOf(L, w) \ {BitOf(u)} ELSE SummaryOf(L, w)
<1>1. \A b \in Bits : w * WordBits + b = u <=> (w = WordOf(u) /\ b = BitOf(u))
  BY Split, Join
<1> QED BY <1>1 DEF SummaryOf

\* What Set and RemoveKey do to the summaries, given what they do to the leaves.
LEMMA LeafAdded ==
  ASSUME BitmapInv, NEW u \in Words0,
         Leaves' = Leaves \cup {u},
         layer1' = [layer1 EXCEPT ![WordOf(u)] = @ \cup {BitOf(u)}],
         layer2' = IF layer1[WordOf(u)] = {} THEN layer2 \cup {WordOf(u)} ELSE layer2
  PROVE  /\ layer1' \in [Words1 -> SUBSET Bits]
         /\ \A w \in Words1 : layer1'[w] = SummaryOf(Leaves', w)
         /\ layer2' = {w \in Words1 : layer1'[w] # {}}
<1>1. u \in Nat /\ WordOf(u) \in Words1 /\ BitOf(u) \in Bits
  BY Words, Split
<1>2. layer1' \in [Words1 -> SUBSET Bits]
  BY <1>1 DEF BitmapInv
<1>3. ASSUME NEW w \in Words1 PROVE layer1'[w] = SummaryOf(Leaves', w)
  <2>1. w \in Nat /\ Leaves \in SUBSET Nat
    BY Words DEF Leaves
  <2>2. SummaryOf(Leaves', w) =
          IF w = WordOf(u) THEN SummaryOf(Leaves, w) \cup {BitOf(u)} ELSE SummaryOf(Leaves, w)
    BY <1>1, <2>1, SummaryOfMore
  <2> QED BY <1>1, <2>2 DEF BitmapInv
<1>4. layer2' = {w \in Words1 : layer1'[w] # {}}
  BY <1>1 DEF BitmapInv
<1> QED BY <1>2, <1>3, <1>4

\* The layers above follow a word of the lowest layer that becomes empty.
LEMMA LeafRemoved ==
  ASSUME BitmapInv, NEW u \in Words0,
         Leaves' = Leaves \ {u},
         layer1' = [layer1 EXCEPT ![WordOf(u)] = @ \ {BitOf(u)}],
         layer2' = IF layer1[WordOf(u)] = {BitOf(u)} THEN layer2 \ {WordOf(u)} ELSE layer2,
         u \in Leaves
  PROVE  /\ layer1' \in [Words1 -> SUBSET Bits]
         /\ \A w \in Words1 : layer1'[w] = SummaryOf(Leaves', w)
         /\ layer2' = {w \in Words1 : layer1'[w] # {}}
<1>1. u \in Nat /\ WordOf(u) \in Words1 /\ BitOf(u) \in Bits /\ u = WordOf(u) * WordBits + BitOf(u)
  BY Words, Split
<1>2. layer1' \in [Words1 -> SUBSET Bits]
  BY <1>1 DEF BitmapInv
<1>3. ASSUME NEW w \in Words1 PROVE layer1'[w] = SummaryOf(Leaves', w)
  <2>1. w \in Nat /\ Leaves \in SUBSET Nat
    BY Words DEF Leaves
  <2>2. SummaryOf(Leaves', w) =
          IF w = WordOf(u) THEN SummaryOf(Leaves, w) \ {BitOf(u)} ELSE SummaryOf(Leaves, w)
    BY <1>1, <2>1, SummaryOfLess
  <2> QED BY <1>1, <2>2 DEF BitmapInv
<1>4. BitOf(u) \in layer1[WordOf(u)]
  BY <1>1 DEF BitmapInv, SummaryOf
<1>5. layer2' = {w \in Words1 : layer1'[w] # {}}
  BY <1>1, <1>4 DEF BitmapInv
<1> QED BY <1>2, <1>3, <1>5

\* A key's leaf word and bit, and the keys next to it.
LEMMA KeyPlace ==
  ASSUME NEW k \in AllKeys
  PROVE  /\ k \in Nat /\ BitOf(k) \in Bits /\ k = WordOf(k) * WordBits + BitOf(k)
         /\ k < Cap => WordOf(k) \in Words0
<1>1. k \in Nat /\ Cap \in Nat
  BY WordAssumption DEF AllKeys
<1>2. k < Cap => k \in 0 .. Cap - 1
  BY <1>1
<1> QED BY <1>1, <1>2, Split, Words

\* Set adds its key, to the leaf and to those that are stored.
LEMMA SetAdds ==
  ASSUME BitmapInv, NEW k \in AllKeys, Set(k)
  PROVE  BitmapInv' /\ Stored' = IF k < Cap THEN Stored \cup {k} ELSE Stored
<1> DEFINE w0 == WordOf(k)
           b0 == BitOf(k)
           new == k < Cap /\ b0 \notin layer0[w0]
<1>1. /\ layer0' = IF new THEN [layer0 EXCEPT ![w0] = @ \cup {b0}] ELSE layer0
      /\ layer1' = IF new /\ layer0[w0] = {}
                   THEN [layer1 EXCEPT ![WordOf(w0)] = @ \cup {BitOf(w0)}] ELSE layer1
      /\ layer2' = IF (new /\ layer0[w0] = {}) /\ layer1[WordOf(w0)] = {}
                   THEN layer2 \cup {WordOf(w0)} ELSE layer2
  BY DEF Set
<1>2. k \in Nat /\ b0 \in Bits /\ k = w0 * WordBits + b0 /\ (k < Cap => w0 \in Words0)
  BY KeyPlace
<1>3. CASE ~new
  <2>1. UNCHANGED <<layer0, layer1, layer2>>
    BY <1>1, <1>3
  <2>2. BitmapInv' /\ Stored' = Stored
    BY <2>1 DEF BitmapInv, Leaves, Stored
  <2>3. k < Cap => k \in Stored
    BY <1>2, <1>3, WordAssumption DEF Stored
  <2> QED BY <2>2, <2>3
<1>4. CASE new
  <2>1. w0 \in Words0 /\ layer0' = [layer0 EXCEPT ![w0] = @ \cup {b0}]
    BY <1>1, <1>2, <1>4
  <2>2. /\ layer0' \in [Words0 -> SUBSET Bits]
        /\ \A w \in Words0 : \A b \in layer0'[w] : w * WordBits + b < Cap
    BY <1>2, <1>4, <2>1 DEF BitmapInv
  <2>3. Leaves' = Leaves \cup {w0}
    BY <2>1 DEF Leaves, BitmapInv
  <2>4. ASSUME layer0[w0] = {} PROVE BitmapInv'
    BY <1>1, <1>4, <2>1, <2>2, <2>3, <2>4, LeafAdded DEF BitmapInv
  <2>5. ASSUME layer0[w0] # {} PROVE BitmapInv'
    <3>1. Leaves' = Leaves /\ UNCHANGED <<layer1, layer2>>
      BY <1>1, <2>1, <2>3, <2>5 DEF Leaves
    <3> QED BY <2>2, <3>1 DEF BitmapInv
  <2>6. Stored' = Stored \cup {k}
    <3>1. \A j \in 0 .. Cap - 1 : (WordOf(j) = w0 /\ BitOf(j) = b0) <=> j = k
      <4> SUFFICES ASSUME NEW j \in 0 .. Cap - 1, WordOf(j) = w0, BitOf(j) = b0 PROVE j = k
        OBVIOUS
      <4>1. j \in Nat
        OBVIOUS
      <4> QED BY <1>2, <4>1, Split
    <3>2. \A j \in 0 .. Cap - 1 : WordOf(j) \in Words0
      BY Words
    <3>3. k \in 0 .. Cap - 1
      BY <1>2, <1>4, WordAssumption
    <3>4. \A j \in 0 .. Cap - 1 : BitOf(j) \in layer0'[WordOf(j)] <=>
            BitOf(j) \in layer0[WordOf(j)] \/ (WordOf(j) = w0 /\ BitOf(j) = b0)
      BY <2>1, <3>2 DEF BitmapInv
    <3> HIDE DEF w0, b0, new
    <3> QED BY <3>1, <3>3, <3>4 DEF Stored
  <2> QED BY <1>4, <2>4, <2>5, <2>6
<1> QED BY <1>3, <1>4

\* remove takes out one key and keeps the layers in step.
LEMMA RemoveTakesOut ==
  ASSUME BitmapInv, NEW k \in AllKeys, RemoveKey(k)
  PROVE  BitmapInv' /\ Stored' = Stored \ {k}
<1> DEFINE w0 == WordOf(k)
           b0 == BitOf(k)
           old == k < Cap /\ b0 \in layer0[w0]
<1>1. /\ layer0' = IF old THEN [layer0 EXCEPT ![w0] = @ \ {b0}] ELSE layer0
      /\ layer1' = IF old /\ layer0[w0] = {b0}
                   THEN [layer1 EXCEPT ![WordOf(w0)] = @ \ {BitOf(w0)}] ELSE layer1
      /\ layer2' = IF (old /\ layer0[w0] = {b0}) /\ layer1[WordOf(w0)] = {BitOf(w0)}
                   THEN layer2 \ {WordOf(w0)} ELSE layer2
  BY DEF RemoveKey
<1>2. k \in Nat /\ b0 \in Bits /\ k = w0 * WordBits + b0 /\ (k < Cap => w0 \in Words0)
  BY KeyPlace
<1>3. CASE ~old
  <2>1. UNCHANGED <<layer0, layer1, layer2>>
    BY <1>1, <1>3
  <2>2. BitmapInv' /\ Stored' = Stored
    BY <2>1 DEF BitmapInv, Leaves, Stored
  <2>3. k \notin Stored
    BY <1>2, <1>3, WordAssumption DEF Stored
  <2> QED BY <2>2, <2>3
<1>4. CASE old
  <2>1. w0 \in Words0 /\ layer0' = [layer0 EXCEPT ![w0] = @ \ {b0}] /\ w0 \in Leaves
    BY <1>1, <1>2, <1>4 DEF Leaves
  <2>2. /\ layer0' \in [Words0 -> SUBSET Bits]
        /\ \A w \in Words0 : \A b \in layer0'[w] : w * WordBits + b < Cap
    BY <1>2, <1>4, <2>1 DEF BitmapInv
  <2>3. ASSUME layer0[w0] = {b0} PROVE BitmapInv'
    <3>1. Leaves' = Leaves \ {w0}
      BY <2>1, <2>3 DEF Leaves, BitmapInv
    <3>2. /\ layer1' = [layer1 EXCEPT ![WordOf(w0)] = @ \ {BitOf(w0)}]
          /\ layer2' = IF layer1[WordOf(w0)] = {BitOf(w0)} THEN layer2 \ {WordOf(w0)} ELSE layer2
      BY <1>1, <1>4, <2>3
    <3> QED BY <2>1, <2>2, <3>1, <3>2, LeafRemoved DEF BitmapInv
  <2>4. ASSUME layer0[w0] # {b0} PROVE BitmapInv'
    <3>1. Leaves' = Leaves
      BY <1>4, <2>1, <2>4 DEF Leaves, BitmapInv
    <3>2. UNCHANGED <<layer1, layer2>>
      BY <1>1, <2>4
    <3> QED BY <2>2, <3>1, <3>2 DEF BitmapInv
  <2>5. Stored' = Stored \ {k}
    <3>1. \A j \in 0 .. Cap - 1 : (WordOf(j) = w0 /\ BitOf(j) = b0) <=> j = k
      <4> SUFFICES ASSUME NEW j \in 0 .. Cap - 1, WordOf(j) = w0, BitOf(j) = b0 PROVE j = k
        OBVIOUS
      <4>1. j \in Nat
        OBVIOUS
      <4> QED BY <1>2, <4>1, Split
    <3>2. \A j \in 0 .. Cap - 1 : WordOf(j) \in Words0
      BY Words
    <3>3. k \in 0 .. Cap - 1
      BY <1>2, <1>4, WordAssumption
    <3>4. \A j \in 0 .. Cap - 1 : BitOf(j) \in layer0'[WordOf(j)] <=>
            BitOf(j) \in layer0[WordOf(j)] /\ ~(WordOf(j) = w0 /\ BitOf(j) = b0)
      BY <2>1, <3>2 DEF BitmapInv
    <3> HIDE DEF w0, b0, old
    <3> QED BY <3>1, <3>3, <3>4 DEF Stored
  <2> QED BY <1>4, <2>3, <2>4, <2>5
<1> QED BY <1>3, <1>4

-----------------------------------------------------------------------------
(* The searches find the nearest key *)

\* Keys are ordered by word first.
LEMMA LaterWord ==
  ASSUME NEW i \in Nat, NEW j \in Nat, WordOf(i) < WordOf(j)
  PROVE  i < j
<1> DEFINE x == WordOf(i) * WordBits
           y == WordOf(j) * WordBits
           b == BitOf(i)
           c == BitOf(j)
<1>1. x + WordBits <= y
  BY Split, WordOrder
<1>2. x \in Nat /\ y \in Nat /\ WordBits \in Nat
  BY Split, Product, WordAssumption
<1>3. b \in 0 .. WordBits - 1 /\ c \in 0 .. WordBits - 1 /\ i = x + b /\ j = y + c
  BY Split DEF Bits
<1> HIDE DEF x, y, b, c
<1> QED BY <1>1, <1>2, <1>3

\* A key lies between the first one of its word and the first of the next.
LEMMA InWord ==
  ASSUME NEW j \in Nat, NEW u \in Nat
  PROVE  /\ u <= WordOf(j) => u * WordBits + 0 <= j
         /\ WordOf(j) <= u => j < u * WordBits + WordBits
<1> DEFINE w == WordOf(j)
           x == u * WordBits
           y == w * WordBits
           c == BitOf(j)
<1>1. w \in Nat /\ c \in 0 .. WordBits - 1 /\ j = y + c
  BY Split DEF Bits
<1>2. x \in Nat /\ y \in Nat /\ WordBits \in Nat
  BY <1>1, Product, WordAssumption
<1>3. u <= w => x <= y
  BY <1>1, <1>2, Monotone
<1>4. w <= u => y <= x
  BY <1>1, <1>2, Monotone
<1> HIDE DEF w, x, y, c
<1>5. (u <= w => x + 0 <= j) /\ (w <= u => j < x + WordBits)
  BY <1>1, <1>2, <1>3, <1>4
<1> QED BY <1>5 DEF w, x

\* The leaf words hold the stored keys, and layer2 knows every one of them.
LEMMA Layers ==
  ASSUME BitmapInv
  PROVE  /\ Stored \in SUBSET Nat /\ \A j \in Stored : j < Cap /\ WordOf(j) \in Leaves
         /\ Leaves \in SUBSET Nat /\ \A u \in Leaves : WordOf(u) \in layer2 /\ u \in Words0
         /\ layer2 \in SUBSET Nat /\ layer2 \subseteq Words1
         /\ \A w \in Words0 : layer0[w] = {b \in Bits : w * WordBits + b \in Stored}
<1>1. \A j \in 0 .. Cap - 1 : j \in Nat /\ j < Cap /\ WordOf(j) \in Words0
  BY Words, WordAssumption
<1>2. \A j \in Stored : j \in Nat /\ j < Cap /\ WordOf(j) \in Leaves
  BY <1>1 DEF Stored, Leaves
<1>3. Leaves \in SUBSET Nat /\ layer2 \in SUBSET Nat /\ layer2 \subseteq Words1
  BY Words DEF Leaves, BitmapInv
<1>4. ASSUME NEW u \in Leaves PROVE WordOf(u) \in layer2 /\ u \in Words0
  <2>1. u \in Nat /\ u \in Words0 /\ WordOf(u) \in Words1
    BY Words DEF Leaves
  <2>2. BitOf(u) \in Bits /\ u = WordOf(u) * WordBits + BitOf(u)
    BY <2>1, Split
  <2>3. BitOf(u) \in layer1[WordOf(u)]
    BY <2>1, <2>2 DEF BitmapInv, SummaryOf
  <2> QED BY <2>1, <2>3 DEF BitmapInv
<1>5. ASSUME NEW w \in Words0
      PROVE  layer0[w] = {b \in Bits : w * WordBits + b \in Stored}
  <2>1. w \in Nat
    BY Words
  <2>2. layer0[w] \subseteq Bits
    BY DEF BitmapInv
  <2>3. ASSUME NEW b \in Bits
        PROVE  b \in layer0[w] <=> w * WordBits + b \in Stored
    <3> DEFINE j == w * WordBits + b
    <3>1. j \in Nat /\ WordOf(j) = w /\ BitOf(j) = b
      BY <2>1, Join
    <3>2. b \in layer0[w] => j < Cap
      BY DEF BitmapInv
    <3> HIDE DEF j
    <3>3. b \in layer0[w] <=> j \in Stored
      BY <3>1, <3>2, WordAssumption DEF Stored
    <3> QED BY <3>3 DEF j
  <2> QED BY <2>2, <2>3
<1> QED BY <1>2, <1>3, <1>4, <1>5

\* The first stored key of a leaf word, and the first leaf word of a middle one.
LEMMA FirstKey ==
  ASSUME BitmapInv, NEW u \in Leaves
  PROVE  \E n \in Stored : /\ MakeKey(u, Lowest(layer0[u])) = {n} /\ WordOf(n) = u
                           /\ \A j \in Stored : u <= WordOf(j) => n <= j
<1> DEFINE n == u * WordBits + Lowest(layer0[u])
<1>1. layer0[u] # {} /\ u \in Nat /\ Stored \in SUBSET Nat /\ 0 \in 0 .. WordBits
  BY Layers, WordAssumption DEF Leaves
<1>2. layer0[u] = ItemsFrom(Stored, u, 0)
  <2>1. \A b \in Bits : b >= 0
    BY WordAssumption DEF Bits
  <2> QED BY <2>1, Layers DEF ItemsFrom, ItemsBefore
<1>3. /\ n \in Stored /\ WordOf(n) = u
      /\ \A j \in Stored : j >= u * WordBits + 0 => n <= j
  <2> DEFINE t == 0
  <2>1. n = FirstAt(Stored, u, t) /\ ItemsFrom(Stored, u, t) # {} /\ t \in 0 .. WordBits
    BY <1>1, <1>2 DEF FirstAt
  <2> HIDE DEF n, t
  <2>2. /\ n \in Stored /\ WordOf(n) = u
        /\ \A j \in Stored : j >= u * WordBits + t => n <= j
    BY <1>1, <2>1, FirstIn
  <2> QED BY <2>2 DEF t
<1>4. \A j \in Stored : u <= WordOf(j) => j >= u * WordBits + 0
  BY <1>1, InWord
<1>5. MakeKey(u, Lowest(layer0[u])) = {n}
  BY <1>3, Layers DEF MakeKey
<1> QED BY <1>3, <1>4, <1>5

\* The highest key of a word in use.
LEMMA LastKey ==
  ASSUME BitmapInv, NEW u \in Leaves
  PROVE  \E n \in Stored : /\ MakeKey(u, Highest(layer0[u])) = {n} /\ WordOf(n) = u
                           /\ \A j \in Stored : WordOf(j) <= u => j <= n
<1> DEFINE n == u * WordBits + Highest(layer0[u])
<1>1. layer0[u] # {} /\ u \in Nat /\ Stored \in SUBSET Nat /\ WordBits \in 0 .. WordBits
  BY Layers, WordAssumption DEF Leaves
<1>2. layer0[u] = ItemsBefore(Stored, u, WordBits)
  <2>1. \A b \in Bits : b < WordBits
    BY WordAssumption DEF Bits
  <2> QED BY <2>1, Layers DEF ItemsFrom, ItemsBefore
<1>3. /\ n \in Stored /\ WordOf(n) = u
      /\ \A j \in Stored : j < u * WordBits + WordBits => j <= n
  <2>1. n = LastAt(Stored, u, WordBits)
    BY <1>2 DEF LastAt
  <2> HIDE DEF n
  <2> QED BY <1>1, <1>2, <2>1, LastIn
<1>4. \A j \in Stored : WordOf(j) <= u => j < u * WordBits + WordBits
  BY <1>1, InWord
<1>5. MakeKey(u, Highest(layer0[u])) = {n}
  BY <1>3, Layers DEF MakeKey
<1> QED BY <1>3, <1>4, <1>5

\* The lowest word in use below a word of the middle layer.
LEMMA FirstLeaf ==
  ASSUME BitmapInv, NEW i \in layer2,
         NEW u, u = i * WordBits + Lowest(layer1[i])
  PROVE  u \in Leaves /\ WordOf(u) = i /\ \A v \in Leaves : i <= WordOf(v) => u <= v
<1>1. layer1[i] # {} /\ i \in Nat /\ Leaves \in SUBSET Nat /\ 0 \in 0 .. WordBits
  BY Layers, WordAssumption DEF BitmapInv
<1>2. layer1[i] = ItemsFrom(Leaves, i, 0)
  <2>1. \A b \in Bits : b >= 0
    BY WordAssumption DEF Bits
  <2>2. layer1[i] = {b \in Bits : i * WordBits + b \in Leaves}
    BY Layers DEF BitmapInv, SummaryOf
  <2> QED BY <2>1, <2>2 DEF ItemsFrom, ItemsBefore
<1>3. /\ u \in Leaves /\ WordOf(u) = i
      /\ \A v \in Leaves : v >= i * WordBits + 0 => u <= v
  <2>1. u = FirstAt(Leaves, i, 0)
    BY <1>2 DEF FirstAt
  <2>2. /\ FirstAt(Leaves, i, 0) \in Leaves /\ WordOf(FirstAt(Leaves, i, 0)) = i
        /\ \A v \in Leaves : v >= i * WordBits + 0 => FirstAt(Leaves, i, 0) <= v
    BY <1>1, <1>2, FirstIn
  <2> QED BY <2>1, <2>2
<1>4. \A v \in Leaves : i <= WordOf(v) => v >= i * WordBits + 0
  BY <1>1, InWord
<1> QED BY <1>3, <1>4

\* The highest word in use below a word of the middle layer.
LEMMA LastLeaf ==
  ASSUME BitmapInv, NEW i \in layer2,
         NEW u, u = i * WordBits + Highest(layer1[i])
  PROVE  u \in Leaves /\ WordOf(u) = i /\ \A v \in Leaves : WordOf(v) <= i => v <= u
<1>1. layer1[i] # {} /\ i \in Nat /\ Leaves \in SUBSET Nat /\ WordBits \in 0 .. WordBits
  BY Layers, WordAssumption DEF BitmapInv
<1>2. layer1[i] = ItemsBefore(Leaves, i, WordBits)
  <2>1. \A b \in Bits : b < WordBits
    BY WordAssumption DEF Bits
  <2>2. layer1[i] = {b \in Bits : i * WordBits + b \in Leaves}
    BY Layers DEF BitmapInv, SummaryOf
  <2> QED BY <2>1, <2>2 DEF ItemsFrom, ItemsBefore
<1>3. /\ u \in Leaves /\ WordOf(u) = i
      /\ \A v \in Leaves : v < i * WordBits + WordBits => v <= u
  <2>1. u = LastAt(Leaves, i, WordBits)
    BY <1>2 DEF LastAt
  <2>2. /\ LastAt(Leaves, i, WordBits) \in Leaves /\ WordOf(LastAt(Leaves, i, WordBits)) = i
        /\ \A v \in Leaves : v < i * WordBits + WordBits => v <= LastAt(Leaves, i, WordBits)
    BY <1>1, <1>2, LastIn
  <2> QED BY <2>1, <2>2
<1>4. \A v \in Leaves : WordOf(v) <= i => v < i * WordBits + WordBits
  BY <1>1, InWord
<1> QED BY <1>3, <1>4

\* A key that a search has found to be the nearest is the flat set's answer.
LEMMA FlatLowest ==
  ASSUME NEW S \in SUBSET Nat
  PROVE  /\ S = {} => Flat!Lowest(S) = {}
         /\ \A n \in S : (\A j \in S : n <= j) => Flat!Lowest(S) = {n}
<1>1. ASSUME NEW n \in S, \A j \in S : n <= j PROVE Flat!Lowest(S) = {n}
  <2>1. ASSUME NEW m \in S, \A j \in S : m <= j PROVE m = n
    <3>1. m <= n /\ n <= m /\ m \in Nat /\ n \in Nat
      BY <1>1, <2>1
    <3> QED BY <3>1
  <2> QED BY <1>1, <2>1 DEF Flat!Lowest
<1> QED BY <1>1 DEF Flat!Lowest

\* The highest key of the abstract set, without choosing it.
LEMMA FlatHighest ==
  ASSUME NEW S \in SUBSET Nat
  PROVE  /\ S = {} => Flat!Highest(S) = {}
         /\ \A n \in S : (\A j \in S : j <= n) => Flat!Highest(S) = {n}
<1>1. ASSUME NEW n \in S, \A j \in S : j <= n PROVE Flat!Highest(S) = {n}
  <2>1. ASSUME NEW m \in S, \A j \in S : j <= m PROVE m = n
    <3>1. m <= n /\ n <= m /\ m \in Nat /\ n \in Nat
      BY <1>1, <2>1
    <3> QED BY <3>1
  <2> QED BY <1>1, <2>1 DEF Flat!Highest
<1> QED BY <1>1 DEF Flat!Highest

\* next_from finds the first key from `start` on.
LEMMA NextFromIsLowest ==
  ASSUME BitmapInv, NEW k \in Nat
  PROVE  NextFrom(k) = Flat!Lowest({j \in Stored : j >= k})
<1> DEFINE w0 == WordOf(k)
           w1 == WordOf(w0)
           leaf == BitsFrom(layer0[w0], BitOf(k))
           mid == BitsAfter(layer1[w1], BitOf(w0))
           top == BitsAfter(layer2, w1)
           S == {j \in Stored : j >= k}
<1>1. S \in SUBSET Nat /\ Stored \in SUBSET Nat /\ Leaves \in SUBSET Nat /\ Cap \in Nat
  BY Layers, WordAssumption
<1>2. CASE k >= Cap
  <2>1. NextFrom(k) = {}
    BY <1>1, <1>2 DEF NextFrom
  <2>2. S = {}
    BY <1>1, <1>2, Layers
  <2> QED BY <1>1, <2>1, <2>2, FlatLowest
<1> SUFFICES ASSUME k < Cap PROVE NextFrom(k) = Flat!Lowest(S)
  BY <1>1, <1>2
<1>3. ~(k >= Cap)
  BY <1>1
<1>4. /\ w0 \in Nat /\ w0 \in Words0 /\ BitOf(k) \in Bits /\ k = w0 * WordBits + BitOf(k)
      /\ w1 \in Nat /\ w1 \in Words1 /\ BitOf(w0) \in Bits /\ w0 = w1 * WordBits + BitOf(w0)
  <2>1. k \in 0 .. Cap - 1
    BY <1>1
  <2> QED BY <2>1, Split, Words
<1>5. leaf = ItemsFrom(Stored, w0, BitOf(k)) /\ BitOf(k) \in 0 .. WordBits
  <2>1. leaf = {b \in {c \in Bits : w0 * WordBits + c \in Stored} : b >= BitOf(k)}
    BY <1>4, Layers DEF BitsFrom
  <2> QED BY <1>4, <2>1, WordAssumption DEF ItemsFrom, Bits
<1>6. CASE leaf # {}
  <2> DEFINE n == FirstAt(Stored, w0, BitOf(k))
  <2>1. NextFrom(k) = MakeKey(w0, Lowest(leaf))
    BY <1>3, <1>6 DEF NextFrom
  <2>2. n \in Stored /\ n >= k /\ \A j \in Stored : j >= k => n <= j
    <3>1. n \in Stored /\ n >= w0 * WordBits + BitOf(k)
          /\ \A j \in Stored : j >= w0 * WordBits + BitOf(k) => n <= j
      <4> HIDE DEF leaf, w0
      <4> QED BY <1>1, <1>4, <1>5, <1>6, FirstIn
    <3> QED BY <1>4, <3>1
  <2>3. MakeKey(w0, Lowest(leaf)) = {n}
    BY <1>5, <2>2, Layers DEF MakeKey, FirstAt
  <2> HIDE DEF n, leaf
  <2> QED BY <1>1, <2>1, <2>2, <2>3, FlatLowest
<1>7. CASE leaf = {}
  \* The key found is the first one of a leaf word u behind k's.
  <2>1. ASSUME NEW u \in Leaves, w0 < u, \A j \in S : u <= WordOf(j),
               NextFrom(k) = MakeKey(u, Lowest(layer0[u]))
        PROVE  NextFrom(k) = Flat!Lowest(S)
    <3>1. PICK n \in Stored : /\ MakeKey(u, Lowest(layer0[u])) = {n} /\ WordOf(n) = u
                              /\ \A j \in Stored : u <= WordOf(j) => n <= j
      BY FirstKey
    <3>2. k < n
      BY <1>1, <2>1, <3>1, LaterWord
    <3>3. n \in S /\ \A j \in S : n <= j
      BY <1>1, <2>1, <3>1, <3>2
    <3> HIDE DEF S
    <3> QED BY <1>1, <2>1, <3>1, <3>3, FlatLowest
  <2>2. \A j \in S : WordOf(j) > w0 /\ WordOf(j) \in Leaves
    <3>1. \A j \in Stored : j >= w0 * WordBits + BitOf(k) => WordOf(j) > w0
      <4> HIDE DEF leaf, w0
      <4> QED BY <1>1, <1>4, <1>5, <1>7, NoneFrom
    <3> QED BY <1>4, <3>1, Layers
  <2> DEFINE t == BitOf(w0) + 1
  <2>3. mid = ItemsFrom(Leaves, w1, t) /\ t \in 0 .. WordBits /\ w1 * WordBits + t = w0 + 1
    <3>1. mid = {b \in {c \in Bits : w1 * WordBits + c \in Leaves} : b > BitOf(w0)}
      BY <1>4 DEF BitmapInv, SummaryOf, BitsAfter
    <3>2. \A b \in Bits : b > BitOf(w0) <=> b >= t
      BY <1>4, WordAssumption DEF Bits
    <3>3. w1 * WordBits \in Nat
      BY <1>4, WordAssumption, Product
    <3>4. w1 * WordBits + t = w0 + 1
      <4> DEFINE x == w1 * WordBits
                 b == BitOf(w0)
      <4>1. x \in Nat /\ b \in Nat /\ w0 = x + b
        BY <1>4, <3>3, WordAssumption DEF Bits
      <4> HIDE DEF x, b
      <4> QED BY <4>1 DEF x, b
    <3> QED BY <1>4, <3>1, <3>2, <3>4, WordAssumption DEF ItemsFrom, Bits
  <2>4. CASE mid # {}
    <3> DEFINE u == w1 * WordBits + Lowest(mid)
    <3>1. NextFrom(k) = MakeKey(u, Lowest(layer0[u]))
      BY <1>3, <1>7, <2>4 DEF NextFrom
    <3>2. u = FirstAt(Leaves, w1, t)
      BY <2>3 DEF FirstAt
    <3> HIDE DEF u, t, mid
    <3>3. u \in Leaves /\ u >= w0 + 1 /\ \A v \in Leaves : v >= w0 + 1 => u <= v
      <4>1. u \in Leaves /\ u >= w1 * WordBits + t
            /\ \A v \in Leaves : v >= w1 * WordBits + t => u <= v
        <5> HIDE DEF w1
        <5> QED BY <1>1, <1>4, <2>3, <2>4, <3>2, FirstIn
      <4> QED BY <2>3, <4>1
    <3>4. w0 < u /\ \A j \in S : u <= WordOf(j)
      <4>1. u \in Nat /\ w0 < u
        BY <1>1, <1>4, <3>3
      <4>2. ASSUME NEW j \in S PROVE u <= WordOf(j)
        <5>1. WordOf(j) \in Leaves /\ WordOf(j) \in Nat /\ WordOf(j) > w0
          BY <1>1, <2>2
        <5> QED BY <1>4, <3>3, <5>1
      <4> QED BY <4>1, <4>2
    <3> QED BY <2>1, <3>1, <3>3, <3>4
  <2>5. CASE mid = {}
    <3>1. \A v \in Leaves : v > w0 => WordOf(v) > w1
      <4>1. \A v \in Leaves : v >= w0 + 1 => WordOf(v) > w1
        <5>1. \A v \in Leaves : v >= w1 * WordBits + t => WordOf(v) > w1
          <6> HIDE DEF t, mid, w1
          <6> QED BY <1>1, <1>4, <2>3, <2>5, NoneFrom
        <5> QED BY <2>3, <5>1
      <4> QED BY <1>1, <1>4, <4>1
    <3>2. layer2 \in SUBSET Nat /\ top = {i \in layer2 : i > w1}
      BY Layers DEF BitsAfter
    <3>3. \A j \in S : WordOf(j) \in Leaves /\ WordOf(WordOf(j)) \in top
      BY <2>2, <3>1, <3>2, Layers
    <3>4. CASE top # {}
      <4> DEFINE i == Lowest(top)
                 u == i * WordBits + Lowest(layer1[i])
      <4>1. NextFrom(k) = MakeKey(u, Lowest(layer0[u]))
        BY <1>3, <1>7, <2>5, <3>4 DEF NextFrom
      <4>2. i \in layer2 /\ i > w1 /\ \A x \in top : i <= x
        BY <3>2, <3>4, LowestIn
      <4> HIDE DEF i, top
      <4>3. u \in Leaves /\ WordOf(u) = i /\ \A v \in Leaves : i <= WordOf(v) => u <= v
        BY <4>2, FirstLeaf
      <4> HIDE DEF u
      <4>4. w0 < u
        BY <1>1, <1>4, <4>2, <4>3, LaterWord
      <4>5. \A j \in S : u <= WordOf(j)
        BY <3>3, <4>2, <4>3
      <4> QED BY <2>1, <4>1, <4>3, <4>4, <4>5
    <3>5. CASE top = {}
      <4>1. NextFrom(k) = {}
        BY <1>3, <1>7, <2>5, <3>5 DEF NextFrom
      <4>2. S = {}
        BY <3>3, <3>5
      <4> QED BY <1>1, <4>1, <4>2, FlatLowest
    <3> QED BY <3>4, <3>5
  <2> QED BY <2>4, <2>5
<1> QED BY <1>6, <1>7

\* prev_from finds the last key up to `start`.
LEMMA PrevFromIsHighest ==
  ASSUME BitmapInv, NEW k \in Nat, k < Cap
  PROVE  PrevFrom(k) = Flat!Highest({j \in Stored : j <= k})
<1> DEFINE w0 == WordOf(k)
           w1 == WordOf(w0)
           leaf == BitsThrough(layer0[w0], BitOf(k))
           mid == BitsBefore(layer1[w1], BitOf(w0))
           top == BitsBefore(layer2, w1)
           S == {j \in Stored : j <= k}
<1>1. S \in SUBSET Nat /\ Stored \in SUBSET Nat /\ Leaves \in SUBSET Nat /\ Cap \in Nat
  BY Layers, WordAssumption
<1>3. ~(k >= Cap)
  BY <1>1
<1>4. /\ w0 \in Nat /\ w0 \in Words0 /\ BitOf(k) \in Bits /\ k = w0 * WordBits + BitOf(k)
      /\ w1 \in Nat /\ w1 \in Words1 /\ BitOf(w0) \in Bits /\ w0 = w1 * WordBits + BitOf(w0)
  <2>1. k \in 0 .. Cap - 1
    BY <1>1
  <2> QED BY <2>1, Split, Words
<1> DEFINE s == BitOf(k) + 1
<1>5. leaf = ItemsBefore(Stored, w0, s) /\ s \in 0 .. WordBits /\ w0 * WordBits + s = k + 1
  <2>1. leaf = {b \in {c \in Bits : w0 * WordBits + c \in Stored} : b <= BitOf(k)}
    BY <1>4, Layers DEF BitsThrough
  <2>2. \A b \in Bits : b <= BitOf(k) <=> b < s
    BY <1>4, WordAssumption DEF Bits
  <2>3. w0 * WordBits + s = k + 1
    <3> DEFINE x == w0 * WordBits
               b == BitOf(k)
    <3>1. x \in Nat /\ b \in Nat /\ k = x + b
      BY <1>4, WordAssumption, Product DEF Bits
    <3> HIDE DEF x, b
    <3> QED BY <3>1 DEF x, b
  <2> QED BY <1>4, <2>1, <2>2, <2>3, WordAssumption DEF ItemsBefore, Bits
<1>6. CASE leaf # {}
  <2> DEFINE n == LastAt(Stored, w0, s)
  <2>1. PrevFrom(k) = MakeKey(w0, Highest(leaf))
    BY <1>3, <1>6 DEF PrevFrom
  <2>2. n \in Stored /\ n < k + 1 /\ \A j \in Stored : j < k + 1 => j <= n
    <3>1. n \in Stored /\ n < w0 * WordBits + s
          /\ \A j \in Stored : j < w0 * WordBits + s => j <= n
      <4> HIDE DEF s, leaf, w0
      <4> QED BY <1>1, <1>4, <1>5, <1>6, LastIn
    <3> QED BY <1>5, <3>1
  <2>3. MakeKey(w0, Highest(leaf)) = {n}
    BY <1>5, <2>2, Layers DEF MakeKey, LastAt
  <2> HIDE DEF n, leaf
  <2>4. n \in S /\ \A j \in S : j <= n
    <3>1. \A j \in Stored : j <= k <=> j < k + 1
      BY <1>1
    <3> QED BY <2>2, <3>1
  <2> HIDE DEF S
  <2>5. Flat!Highest(S) = {n}
    BY <1>1, <2>4, FlatHighest
  <2> QED BY <2>1, <2>3, <2>5 DEF S
<1>7. CASE leaf = {}
  \* The key found is the last one of a leaf word u before k's.
  <2>1. ASSUME NEW u \in Leaves, u < w0, \A j \in S : WordOf(j) <= u,
               PrevFrom(k) = MakeKey(u, Highest(layer0[u]))
        PROVE  PrevFrom(k) = Flat!Highest(S)
    <3>1. PICK n \in Stored : /\ MakeKey(u, Highest(layer0[u])) = {n} /\ WordOf(n) = u
                              /\ \A j \in Stored : WordOf(j) <= u => j <= n
      BY LastKey
    <3>2. n < k
      BY <1>1, <2>1, <3>1, LaterWord
    <3>3. n \in S /\ \A j \in S : j <= n
      BY <1>1, <2>1, <3>1, <3>2
    <3> HIDE DEF S
    <3> QED BY <1>1, <2>1, <3>1, <3>3, FlatHighest
  <2>2. \A j \in S : WordOf(j) < w0 /\ WordOf(j) \in Leaves
    <3>1. \A j \in Stored : j < k + 1 => WordOf(j) < w0
      <4>1. \A j \in Stored : j < w0 * WordBits + s => WordOf(j) < w0
        <5> HIDE DEF s, leaf, w0
        <5> QED BY <1>1, <1>4, <1>5, <1>7, NoneBefore
      <4> QED BY <1>5, <4>1
    <3> QED BY <1>1, <3>1, Layers
  <2> DEFINE t == BitOf(w0)
  <2>3. mid = ItemsBefore(Leaves, w1, t) /\ t \in 0 .. WordBits /\ w1 * WordBits + t = w0
    <3>1. mid = {b \in {c \in Bits : w1 * WordBits + c \in Leaves} : b < BitOf(w0)}
      BY <1>4 DEF BitmapInv, SummaryOf, BitsBefore
    <3> QED BY <1>4, <3>1, WordAssumption DEF ItemsBefore, Bits
  <2>4. CASE mid # {}
    <3> DEFINE u == w1 * WordBits + Highest(mid)
    <3>1. PrevFrom(k) = MakeKey(u, Highest(layer0[u]))
      BY <1>3, <1>7, <2>4 DEF PrevFrom
    <3>2. u = LastAt(Leaves, w1, t)
      BY <2>3 DEF LastAt
    <3> HIDE DEF u, t, mid
    <3>3. u \in Leaves /\ u < w0 /\ \A v \in Leaves : v < w0 => v <= u
      <4>1. u \in Leaves /\ u < w1 * WordBits + t
            /\ \A v \in Leaves : v < w1 * WordBits + t => v <= u
        <5> HIDE DEF w1
        <5> QED BY <1>1, <1>4, <2>3, <2>4, <3>2, LastIn
      <4> QED BY <2>3, <4>1
    <3>4. u < w0 /\ \A j \in S : WordOf(j) <= u
      BY <1>1, <1>4, <2>2, <3>3
    <3> QED BY <2>1, <3>1, <3>3, <3>4
  <2>5. CASE mid = {}
    <3>1. \A v \in Leaves : v < w0 => WordOf(v) < w1
      <4>1. \A v \in Leaves : v < w1 * WordBits + t => WordOf(v) < w1
        <5> HIDE DEF t, mid, w1
        <5> QED BY <1>1, <1>4, <2>3, <2>5, NoneBefore
      <4> QED BY <2>3, <4>1
    <3>2. layer2 \in SUBSET Nat /\ top = {i \in layer2 : i < w1} /\ top \in SUBSET (0 .. w1)
      BY <1>4, Layers DEF BitsBefore
    <3>3. \A j \in S : WordOf(j) \in Leaves /\ WordOf(WordOf(j)) \in top
      BY <2>2, <3>1, <3>2, Layers
    <3>4. CASE top # {}
      <4> DEFINE i == Highest(top)
                 u == i * WordBits + Highest(layer1[i])
      <4>1. PrevFrom(k) = MakeKey(u, Highest(layer0[u]))
        BY <1>3, <1>7, <2>5, <3>4 DEF PrevFrom
      <4>2. i \in layer2 /\ i < w1 /\ \A x \in top : x <= i
        BY <1>4, <3>2, <3>4, HighestIn
      <4> HIDE DEF i, top
      <4>3. u \in Leaves /\ WordOf(u) = i /\ \A v \in Leaves : WordOf(v) <= i => v <= u
        BY <4>2, LastLeaf
      <4> HIDE DEF u
      <4>4. u < w0
        BY <1>1, <1>4, <4>2, <4>3, LaterWord
      <4>5. \A j \in S : WordOf(j) <= u
        BY <3>3, <4>2, <4>3
      <4> QED BY <2>1, <4>1, <4>3, <4>4, <4>5
    <3>5. CASE top = {}
      <4>1. PrevFrom(k) = {}
        BY <1>3, <1>7, <2>5, <3>5 DEF PrevFrom
      <4>2. S = {}
        BY <3>3, <3>5
      <4> QED BY <1>1, <4>1, <4>2, FlatHighest
    <3> QED BY <3>4, <3>5
  <2> QED BY <2>4, <2>5
<1> QED BY <1>6, <1>7

-----------------------------------------------------------------------------
(* The specification *)

\* Every step is one of the flat set, on the stored keys.
LEMMA StepIsFlat ==
  ASSUME BitmapInv, [BitmapNext]_bitmapVars
  PROVE  BitmapInv' /\ [Flat!Next]_<<Stored, reply>>
<1>1. CASE UNCHANGED bitmapVars
  BY <1>1 DEF bitmapVars, BitmapInv, Leaves, Stored
<1>2. CASE TakeReply
  <2>1. BitmapInv' /\ Stored' = Stored
    BY <1>2 DEF TakeReply, BitmapInv, Leaves, Stored
  <2>2. Flat!Return
    BY <1>2, <2>1 DEF TakeReply, NoReply, Flat!Return, Flat!NoAnswer
  <2> QED BY <2>1, <2>2 DEF Flat!Next
<1>3. ASSUME reply = NoReply, NEW k \in AllKeys,
             \/ Set(k) \/ RemoveKey(k) \/ Contains(k)
             \/ NextOf(k) \/ NextOrEq(k) \/ PrevOf(k) \/ PrevOrEq(k)
      PROVE  BitmapInv' /\ Flat!Next
  <2>1. k \in Nat /\ Cap \in Nat /\ k \in Flat!AllKeys /\ reply = Flat!NoAnswer
    BY <1>3, WordAssumption DEF AllKeys, Flat!AllKeys, NoReply, Flat!NoAnswer
  <2>2. ASSUME BitmapInv',
               \/ Flat!Set(k) \/ Flat!Remove(k) \/ Flat!Contains(k)
               \/ Flat!NextOf(k) \/ Flat!NextOrEq(k) \/ Flat!PrevOf(k) \/ Flat!PrevOrEq(k)
        PROVE  BitmapInv' /\ Flat!Next
    BY <2>1, <2>2 DEF Flat!Next, Flat!Call
  <2>3. k \in Stored <=> k < Cap /\ BitOf(k) \in layer0[WordOf(k)]
    BY <2>1 DEF Stored
  <2>4. Stored \in SUBSET Nat /\ \A j \in Stored : j < Cap
    BY Layers
  <2>5. UNCHANGED <<layer0, layer1, layer2>> => BitmapInv' /\ Stored' = Stored
    BY DEF BitmapInv, Leaves, Stored
  <2>6. CASE Set(k)
    <3>1. BitmapInv' /\ Stored' = IF k < Cap THEN Stored \cup {k} ELSE Stored
      BY <2>6, SetAdds
    <3>2. Flat!Set(k)
      BY <2>3, <2>6, <3>1 DEF Set, Replies, Flat!Set, Flat!Answers
    <3> QED BY <2>2, <3>1, <3>2
  <2>7. CASE RemoveKey(k)
    <3>1. BitmapInv' /\ Stored' = Stored \ {k}
      BY <2>7, RemoveTakesOut
    <3>2. Flat!Remove(k)
      BY <2>3, <2>7, <3>1 DEF RemoveKey, Replies, Flat!Remove, Flat!Answers
    <3> QED BY <2>2, <3>1, <3>2
  <2>8. CASE Contains(k)
    <3>1. Flat!Contains(k)
      BY <2>3, <2>5, <2>8 DEF Contains, Replies, Flat!Contains, Flat!Answers
    <3> QED BY <2>2, <2>5, <2>8, <3>1 DEF Contains
  <2>9. CASE NextOf(k)
    <3>1. k + 1 \in Nat /\ {j \in Stored : j >= k + 1} = {j \in Stored : j > k}
      <4>1. \A j \in Stored : j >= k + 1 <=> j > k
        BY <2>1, <2>4
      <4> QED BY <2>1, <4>1
    <3>2. NextFrom(k + 1) = Flat!Lowest({j \in Stored : j > k})
      <4>1. NextFrom(k + 1) = Flat!Lowest({j \in Stored : j >= k + 1})
        BY <3>1, NextFromIsLowest
      <4> QED BY <3>1, <4>1
    <3>3. Flat!NextOf(k)
      BY <2>5, <2>9, <3>2 DEF NextOf, Replies, Flat!NextOf, Flat!Answers
    <3> QED BY <2>2, <2>5, <2>9, <3>3 DEF NextOf
  <2>10. CASE NextOrEq(k)
    <3>1. NextFrom(k) = Flat!Lowest({j \in Stored : j >= k})
      BY <2>1, NextFromIsLowest
    <3>2. Flat!NextOrEq(k)
      BY <2>5, <2>10, <3>1 DEF NextOrEq, Replies, Flat!NextOrEq, Flat!Answers
    <3> QED BY <2>2, <2>5, <2>10, <3>2 DEF NextOrEq
  <2>11. ASSUME NEW i \in Nat, Cap # 0
         PROVE  PrevFrom(AtMost(i)) = Flat!Highest({j \in Stored : j <= i})
    <3>1. AtMost(i) \in Nat /\ AtMost(i) < Cap
      BY <2>1, <2>11 DEF AtMost
    <3>2. {j \in Stored : j <= AtMost(i)} = {j \in Stored : j <= i}
      <4>1. \A j \in Stored : j <= AtMost(i) <=> j <= i
        BY <2>1, <2>4, <2>11 DEF AtMost
      <4> QED BY <4>1
    <3>3. PrevFrom(AtMost(i)) = Flat!Highest({j \in Stored : j <= AtMost(i)})
      BY <3>1, PrevFromIsHighest
    <3> QED BY <3>2, <3>3
  <2>12. Cap = 0 => Stored = {}
    BY <2>1, <2>4
  <2>13. CASE PrevOf(k)
    <3>1. k # 0 => k - 1 \in Nat /\ {j \in Stored : j <= k - 1} = {j \in Stored : j < k}
      <4>1. \A j \in Stored : j <= k - 1 <=> j < k
        BY <2>1, <2>4
      <4> QED BY <2>1, <4>1
    <3>2. k = 0 \/ Cap = 0 => {j \in Stored : j < k} = {}
      <4>1. k = 0 => \A j \in Stored : ~(j < k)
        BY <2>4
      <4> QED BY <2>12, <4>1
    <3>3. (IF k = 0 \/ Cap = 0 THEN {} ELSE PrevFrom(AtMost(k - 1)))
            = Flat!Highest({j \in Stored : j < k})
      <4>1. CASE k = 0 \/ Cap = 0
        <5>1. {j \in Stored : j < k} = {}
          BY <3>2, <4>1
        <5>2. Flat!Highest({}) = {}
          BY DEF Flat!Highest
        <5> QED BY <4>1, <5>1, <5>2
      <4>2. CASE ~(k = 0 \/ Cap = 0)
        <5>1. PrevFrom(AtMost(k - 1)) = Flat!Highest({j \in Stored : j <= k - 1})
          BY <2>11, <3>1, <4>2
        <5> QED BY <3>1, <4>2, <5>1
      <4> QED BY <4>1, <4>2
    <3>4. Flat!PrevOf(k)
      BY <2>5, <2>13, <3>3 DEF PrevOf, Replies, Flat!PrevOf, Flat!Answers
    <3> QED BY <2>2, <2>5, <2>13, <3>4 DEF PrevOf
  <2>14. CASE PrevOrEq(k)
    <3>1. (IF Cap = 0 THEN {} ELSE PrevFrom(AtMost(k))) = Flat!Highest({j \in Stored : j <= k})
      <4>1. CASE Cap = 0
        <5>1. {j \in Stored : j <= k} = {}
          BY <2>12, <4>1
        <5>2. Flat!Highest({}) = {}
          BY DEF Flat!Highest
        <5> QED BY <4>1, <5>1, <5>2
      <4>2. CASE Cap # 0
        BY <2>1, <2>11, <4>2
      <4> QED BY <4>1, <4>2
    <3>2. Flat!PrevOrEq(k)
      BY <2>5, <2>14, <3>1 DEF PrevOrEq, Replies, Flat!PrevOrEq, Flat!Answers
    <3> QED BY <2>2, <2>5, <2>14, <3>2 DEF PrevOrEq
  <2> QED BY <1>3, <2>6, <2>7, <2>8, <2>9, <2>10, <2>13, <2>14
<1> QED BY <1>1, <1>2, <1>3 DEF BitmapNext, BitmapCall

\* An empty bitmap is an empty set of keys.
LEMMA InitBitmap == BitmapInit => BitmapInv /\ Flat!Init
<1> SUFFICES ASSUME BitmapInit PROVE BitmapInv /\ Flat!Init
  OBVIOUS
<1>1. Leaves = {}
  BY DEF BitmapInit, Leaves
<1>2. BitmapInv
  BY <1>1 DEF BitmapInit, BitmapInv, SummaryOf
<1>3. Stored = {}
  <2>1. \A k \in 0 .. Cap - 1 : WordOf(k) \in Words0
    BY Words
  <2> QED BY <2>1 DEF BitmapInit, Stored
<1> QED BY <1>2, <1>3 DEF BitmapInit, NoReply, Flat!Init, Flat!NoAnswer

\* The layers agree in every reachable state.
LEMMA BitmapInvariant == BitmapSpec => []BitmapInv
<1>1. BitmapInv /\ [BitmapNext]_bitmapVars => BitmapInv'
  BY StepIsFlat, Zenon
<1> QED BY <1>1, InitBitmap, PTL DEF BitmapSpec

\* Each summary bit of layer1 and layer2 is set exactly when the word it
\* stands for is not empty: bitmap.rs set and remove.
THEOREM SummariesStayExact == BitmapSpec => []SummariesExact
<1>1. BitmapInv => SummariesExact
  <2> SUFFICES ASSUME BitmapInv PROVE SummariesExact
    OBVIOUS
  <2>1. ASSUME NEW w \in Words1
        PROVE  layer1[w] = {b \in Bits : /\ w * WordBits + b \in Words0
                                         /\ layer0[w * WordBits + b] # {}}
    BY DEF BitmapInv, SummaryOf, Leaves
  <2> QED BY <2>1 DEF SummariesExact, BitmapInv
<1> QED BY <1>1, BitmapInvariant, PTL

\* Every change and every search of the three layers is that of the flat set
\* of the keys in the leaves: bitmap.rs set, remove, contains, next, prev.
THEOREM BitmapIsKeySet == BitmapSpec => ImplementsKeySet
<1>1. BitmapInv /\ [BitmapNext]_bitmapVars => [Flat!Next]_<<Stored, reply>>
  BY StepIsFlat, Zenon
<1> QED BY <1>1, InitBitmap, BitmapInvariant, PTL DEF BitmapSpec, ImplementsKeySet, Flat!Spec
=============================================================================
