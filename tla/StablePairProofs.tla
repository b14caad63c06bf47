-------------------------- MODULE StablePairProofs --------------------------
(* Proofs about the stable-pair hook, for every configuration, price and    *)
(* block, and any decay.                                                    *)
EXTENDS StablePair, BasicLemmas

-----------------------------------------------------------------------------
(* One fee per block *)

\* What a swap is quoted from the state, once the state is that of its block.
Quote(d) ==
  LET ratio == PriceRatio(state.price, Reference)
      away  == (state.price < Reference) = d
  IN  ToPips(IF CloseBoundaryFee(ratio) <= 0 THEN InsideFee(ratio, away)
             ELSE IF away THEN 0 ELSE state.decaying)

\* From the first swap on, the state is that of the highest block a swap has
\* run in, and it alone determines the fees quoted since.
QuoteInv ==
  /\ price \in Prices /\ block \in Blocks
  /\ \/ state.price = 0 /\ epoch = -1 /\ quoted = [d \in Directions |-> {}]
     \/ /\ state.price \in Prices /\ state.block \in Blocks /\ epoch = state.block
        /\ quoted \in [Directions -> SUBSET {Quote(d) : d \in Directions}]
        /\ \A d \in Directions : quoted[d] \subseteq {Quote(d)}

\* The clocks are numbers and prices are not the price of a fresh state.
LEMMA QuoteType == QuoteInv => block \in Nat /\ epoch \in Int /\ price # 0
<1> SUFFICES ASSUME QuoteInv PROVE block \in Nat /\ epoch \in Int /\ price # 0
  OBVIOUS
<1> QED BY ConfigAssumption DEF QuoteInv

\* The fees of the two directions, as the swap adds one to them.
LEMMA QuotedAfter ==
  ASSUME NEW zeroForOne \in BOOLEAN, NEW fee,
         NEW old \in [Directions -> SUBSET {Quote(d)' : d \in Directions}],
         \A d \in Directions : old[d] \subseteq {Quote(d)'},
         ToPips(fee) = Quote(zeroForOne)',
         quoted' = [d \in Directions |->
                      old[d] \cup (IF d = zeroForOne THEN {ToPips(fee)} ELSE {})]
  PROVE  /\ quoted' \in [Directions -> SUBSET {Quote(d)' : d \in Directions}]
         /\ \A d \in Directions : quoted'[d] \subseteq {Quote(d)'}
OBVIOUS

\* A swap is quoted what the state of its block says.
LEMMA SwapKeepsQuotes ==
  ASSUME QuoteInv, NEW zeroForOne \in BOOLEAN, NEW after \in Prices, Swap(zeroForOne, after)
  PROVE  QuoteInv'
<1>1. PICK fee \in FeeAt(BasePrice, IsNewBlock, zeroForOne) :
        /\ state' = IF IsNewBlock
                    THEN [decaying |-> fee.decaying, price |-> BasePrice, block |-> block]
                    ELSE state
        /\ quoted' = [d \in Directions |->
                        (IF block > epoch THEN {} ELSE quoted[d])
                          \cup (IF d = zeroForOne THEN {ToPips(fee.lp)} ELSE {})]
  BY DEF Swap
<1>2. epoch' = (IF block > epoch THEN block ELSE epoch) /\ price' = after /\ UNCHANGED block
  BY DEF Swap
<1>3. block \in Nat /\ epoch \in Int /\ price # 0
  BY QuoteType
<1>4. CASE IsNewBlock
  <2>1. state' = [decaying |-> fee.decaying, price |-> price, block |-> block]
    BY <1>1, <1>4 DEF BasePrice
  <2>2. block > epoch
    BY <1>3, <1>4, ConfigAssumption DEF IsNewBlock, QuoteInv
  <2>3. ToPips(fee.lp) = Quote(zeroForOne)'
    <3>1. state'.price = price /\ state'.decaying = fee.decaying
      BY <2>1
    <3>2. fee \in FeeAt(price, TRUE, zeroForOne)
      BY <1>1, <1>4 DEF BasePrice
    <3>3. CASE CloseBoundaryFee(PriceRatio(price, Reference)) <= 0
      BY <3>1, <3>2, <3>3 DEF FeeAt, Quote
    <3>4. CASE ~(CloseBoundaryFee(PriceRatio(price, Reference)) <= 0)
      BY <3>1, <3>2, <3>4 DEF FeeAt, Quote
    <3> QED BY <3>3, <3>4
  <2>4. quoted' = [d \in Directions |->
                     [e \in Directions |-> {}][d]
                       \cup (IF d = zeroForOne THEN {ToPips(fee.lp)} ELSE {})]
    BY <1>1, <2>2
  <2>5. /\ quoted' \in [Directions -> SUBSET {Quote(d)' : d \in Directions}]
        /\ \A d \in Directions : quoted'[d] \subseteq {Quote(d)'}
    BY <2>3, <2>4, QuotedAfter
  <2> QED BY <1>2, <2>1, <2>2, <2>5 DEF QuoteInv
<1>5. CASE ~IsNewBlock
  <2>1. UNCHANGED state /\ BasePrice = state.price
    BY <1>1, <1>5 DEF BasePrice
  <2>2. /\ state.price \in Prices /\ state.block \in Blocks /\ epoch = state.block
        /\ quoted \in [Directions -> SUBSET {Quote(d) : d \in Directions}]
        /\ \A d \in Directions : quoted[d] \subseteq {Quote(d)}
    BY <1>5 DEF QuoteInv, IsNewBlock
  <2>3. ~(block > epoch)
    BY <1>5, <2>2 DEF IsNewBlock
  <2>4. \A d \in Directions : Quote(d)' = Quote(d)
    BY <2>1 DEF Quote
  <2>5. ToPips(fee.lp) = Quote(zeroForOne)
    <3>1. fee \in FeeAt(state.price, FALSE, zeroForOne)
      BY <1>1, <1>5, <2>1 DEF FeeAt
    <3>2. CASE CloseBoundaryFee(PriceRatio(state.price, Reference)) <= 0
      BY <3>1, <3>2 DEF FeeAt, Quote
    <3>3. CASE ~(CloseBoundaryFee(PriceRatio(state.price, Reference)) <= 0)
      BY <3>1, <3>3 DEF FeeAt, Quote
    <3> QED BY <3>2, <3>3
  <2>6. /\ quoted' \in [Directions -> SUBSET {Quote(d)' : d \in Directions}]
        /\ \A d \in Directions : quoted'[d] \subseteq {Quote(d)'}
    <3>1. quoted' = [d \in Directions |->
                       quoted[d] \cup (IF d = zeroForOne THEN {ToPips(fee.lp)} ELSE {})]
      BY <1>1, <2>3
    <3> QED BY <2>2, <2>4, <2>5, <3>1, QuotedAfter DEF Directions
  <2> QED BY <1>2, <2>1, <2>2, <2>3, <2>6 DEF QuoteInv
<1> QED BY <1>4, <1>5

\* The state determines the fees quoted, in every reachable state.
LEMMA QuoteInvariant == Spec => []QuoteInv
<1>1. Init => QuoteInv
  BY DEF Init, QuoteInv
<1>2. QuoteInv /\ [Next]_vars => QuoteInv'
  <2> SUFFICES ASSUME QuoteInv, [Next]_vars PROVE QuoteInv'
    OBVIOUS
  <2>1. ASSUME NEW zeroForOne \in BOOLEAN, NEW after \in Prices, Swap(zeroForOne, after)
        PROVE  QuoteInv'
    BY <2>1, SwapKeepsQuotes
  <2>2. ASSUME NEW b \in Blocks, SetBlockNumber(b) PROVE QuoteInv'
    BY <2>2 DEF SetBlockNumber, QuoteInv, Quote
  <2>3. CASE UNCHANGED vars
    BY <2>3 DEF vars, QuoteInv, Quote
  <2> QED BY <2>1, <2>2, <2>3 DEF Next
<1> QED BY <1>1, <1>2, PTL DEF Spec

\* Until a swap runs in a later block, all swaps of one direction pay the same
\* fee, wherever they move the price: stable_pair.rs before_swap_fee.
THEOREM OneFee == Spec => []OneFeePerBlock
<1>1. QuoteInv => OneFeePerBlock
  BY DEF QuoteInv, OneFeePerBlock
<1> QED BY <1>1, QuoteInvariant, PTL

-----------------------------------------------------------------------------
(* Units and ratios *)

\* The units are positive.
LEMMA Units ==
  /\ Pips \in Nat \ {0} /\ One \in Nat \ {0} /\ Q96 \in Nat \ {0}
  /\ OptimalFee \in Nat /\ Pips - OptimalFee \in Nat \ {0} /\ Pips - OptimalFee <= Pips
<1>1. \A n \in Nat \ {0} : n * n \in Nat \ {0}
  OBVIOUS
<1> QED BY <1>1, ConfigAssumption DEF One, Q96

\* A price ratio is at most one (2^96).
LEMMA RatioBounds ==
  ASSUME NEW a \in Nat \ {0}, NEW b \in Nat \ {0}
  PROVE  PriceRatio(a, b) \in 0 .. Q96
<1>1. Q48 \in Nat \ {0}
  BY ConfigAssumption
<1>2. \A r \in 0 .. Q48 : r * r \in 0 .. Q96
  <2> SUFFICES ASSUME NEW r \in 0 .. Q48 PROVE r * r \in 0 .. Q96
    OBVIOUS
  <2>1. r * r <= Q48 * r /\ r * Q48 <= Q48 * Q48
    BY <1>1, Monotone
  <2> QED BY <1>1, <2>1, Product DEF Q96
<1>3. (IF a < b THEN (a * Q48) \div b ELSE (b * Q48) \div a) \in 0 .. Q48
  <2>1. a < b => (a * Q48) \div b \in 0 .. Q48
    BY <1>1, PartOf
  <2>2. ~(a < b) => (b * Q48) \div a \in 0 .. Q48
    BY <1>1, PartOf
  <2> QED BY <2>1, <2>2
<1> QED BY <1>2, <1>3 DEF PriceRatio

\* The ratio of a price to itself is one.
LEMMA SameRatio ==
  ASSUME NEW a \in Nat \ {0}
  PROVE  PriceRatio(a, a) = Q96
<1>1. Q48 \in Nat \ {0} /\ (a * Q48) \div a = Q48
  <2>1. Q48 \in Nat \ {0} /\ a * Q48 \in Nat
    BY ConfigAssumption, Product
  <2> QED BY <2>1, DivUpper, DivLower
<1> QED BY <1>1 DEF PriceRatio, Q96

-----------------------------------------------------------------------------
(* Fees *)

\* A price in the optimal range or not: the fee at the far boundary is a fee.
LEMMA FarIsFee ==
  ASSUME NEW ratio \in 0 .. Q96
  PROVE  FarBoundaryFee(ratio) \in 0 .. One
<1> DEFINE y == (Scaled * ratio) \div Q96
<1>1. Scaled \in Nat /\ Scaled <= Pips * One
  BY Units, Product, Monotone DEF Scaled
<1>2. y \in 0 .. Scaled
  <2>1. (ratio * Scaled) \div Q96 \in 0 .. Scaled
    BY <1>1, Units, PartOf
  <2>2. ratio * Scaled = Scaled * ratio
    BY <1>1, Units
  <2> QED BY <2>1, <2>2
<1>3. y \div Pips \in Int /\ 0 <= y \div Pips /\ y \div Pips <= One
  BY <1>1, <1>2, Units, DivUpper, DivLower
<1> QED BY <1>3, Units DEF FarBoundaryFee

\* In the optimal range the fees of both directions are fees.
LEMMA InsideIsFee ==
  ASSUME NEW ratio \in 0 .. Q96, CloseBoundaryFee(ratio) <= 0, NEW away \in BOOLEAN
  PROVE  InsideFee(ratio, away) \in 0 .. One
<1> DEFINE x == (One * ratio * Pips) \div (Pips - OptimalFee)
           y == (Scaled * Q96) \div ratio
<1>1. Scaled \in Nat /\ One * ratio * Pips \in Nat /\ Scaled * Q96 \in Nat
  BY Units, Product DEF Scaled
<1>2. Scaled * Q96 <= One * ratio * Pips
  <2>1. x \in Int /\ (Pips - OptimalFee) * x <= One * ratio * Pips
    <3> DEFINE a == One * ratio * Pips
               d == Pips - OptimalFee
    <3>1. a \in Nat /\ d \in Nat \ {0}
      BY <1>1, Units
    <3> HIDE DEF a, d
    <3>2. a \div d \in Int /\ d * (a \div d) <= a
      BY <3>1, DivFloor
    <3> QED BY <3>2 DEF a, d
  <2>2. x \div Q96 \in Int /\ Q96 * (x \div Q96) <= x /\ One <= x \div Q96
    BY <2>1, Units, DivFloor DEF CloseBoundaryFee
  <2>3. One * Q96 <= (x \div Q96) * Q96
    BY <2>2, Units, Monotone
  <2>4. One * Q96 <= x /\ One * Q96 \in Nat
    <3>1. (x \div Q96) * Q96 = Q96 * (x \div Q96)
      BY <2>2, Units
    <3> HIDE DEF x
    <3> QED BY <2>1, <2>2, <2>3, <3>1, Units, Product
  <2>5. (One * Q96) * (Pips - OptimalFee) <= x * (Pips - OptimalFee)
    BY <2>1, <2>4, Units, Monotone
  <2>6. Scaled * Q96 = (One * Q96) * (Pips - OptimalFee)
    BY Units DEF Scaled
  <2> QED BY <2>1, <2>5, <2>6, Units, <1>1
<1>3. ratio # 0
  <2>1. Scaled * Q96 # 0
    BY Units DEF Scaled
  <2> QED BY <2>1, <1>1, <1>2, Units
<1>4. y \div Pips \in Int /\ 0 <= y \div Pips /\ y \div Pips <= One
  <2>1. One * ratio * Pips = ratio * (Pips * One) /\ Pips * One \in Nat
    BY Units
  <2>2. y \in Int /\ 0 <= y /\ y <= Pips * One
    BY <1>1, <1>2, <1>3, <2>1, Units, DivUpper, DivLower
  <2> QED BY <2>2, Units, DivUpper, DivLower
<1>5. InsideFee(ratio, TRUE) \in 0 .. One
  BY <1>4, Units DEF InsideFee
<1>6. InsideFee(ratio, FALSE) = FarBoundaryFee(ratio)
  BY DEF InsideFee, FarBoundaryFee
<1> QED BY <1>5, <1>6, FarIsFee

\* Outside it the close boundary's fee is not above the far one's.
LEMMA CloseBelowFar ==
  ASSUME NEW ratio \in 0 .. Q96
  PROVE  CloseBoundaryFee(ratio) \in Int /\ CloseBoundaryFee(ratio) <= FarBoundaryFee(ratio)
<1> DEFINE y == (Scaled * ratio) \div Q96
           u == y \div Pips
           n == One * ratio
<1>1. Scaled \in Nat /\ n \in Nat /\ n * Pips \in Nat /\ Scaled * ratio \in Nat
  BY Units, Product DEF Scaled
<1>2. y \in Nat /\ Q96 * y <= Scaled * ratio
  BY <1>1, Units, DivFloor, DivLower
<1>3. u \in Nat /\ Pips * u <= y
  BY <1>2, Units, DivFloor, DivLower
<1>4. Pips * (Q96 * u) <= (Pips - OptimalFee) * n
  <2>1. (Pips * u) * Q96 <= y * Q96 /\ Pips * u \in Nat
    BY <1>2, <1>3, Units, Product, Monotone
  <2>2. Scaled * ratio = (Pips - OptimalFee) * n
    BY Units DEF Scaled
  <2>3. Pips * (Q96 * u) = (Pips * u) * Q96 /\ y * Q96 = Q96 * y
    BY <1>2, <1>3, Units
  <2> QED BY <1>2, <1>3, <2>1, <2>2, <2>3, <1>1, Units
<1>5. (Pips - OptimalFee) * (Q96 * u) <= n * Pips
  <2>1. Q96 * u \in Nat /\ Pips * (Q96 * u) \in Nat /\ (Pips - OptimalFee) * n \in Nat
    BY <1>1, <1>3, Units, Product
  <2>2. (Pips - OptimalFee) * (Q96 * u) <= Pips * (Q96 * u)
    BY <2>1, Units, Monotone
  <2>3. (Pips - OptimalFee) * n <= Pips * n
    BY <1>1, Units, Monotone
  <2>4. (Pips - OptimalFee) * (Q96 * u) \in Nat /\ Pips * n = n * Pips
    BY <2>1, <1>1, Units, Product
  <2> QED BY <1>4, <2>1, <2>2, <2>3, <2>4, <1>1
<1> DEFINE x == (n * Pips) \div (Pips - OptimalFee)
<1>6. x \in Int /\ Q96 * u <= x
  <2> DEFINE a == n * Pips
             c == Q96 * u
             d == Pips - OptimalFee
  <2>1. a \in Nat /\ c \in Nat /\ d \in Nat \ {0} /\ d * c <= a
    BY <1>1, <1>3, <1>5, Units, Product
  <2> HIDE DEF a, c, d
  <2>2. a \div d \in Int /\ c <= a \div d
    BY <2>1, DivLower
  <2> QED BY <2>2 DEF a, c, d
<1>7. x \div Q96 \in Int /\ u <= x \div Q96
  BY <1>3, <1>6, Units, DivLower
<1>8. CloseBoundaryFee(ratio) = One - (x \div Q96) /\ FarBoundaryFee(ratio) = One - u
  BY DEF CloseBoundaryFee, FarBoundaryFee
<1> HIDE DEF x, u
<1> QED BY <1>3, <1>7, <1>8, Units

\* The target is a fee no higher than that at the far boundary.
LEMMA TargetIsFee ==
  ASSUME NEW p \in Nat \ {0}, CloseBoundaryFee(PriceRatio(p, Reference)) > 0
  PROVE  /\ TargetFee(p) \in 0 .. FarBoundaryFee(PriceRatio(p, Reference))
         /\ FarBoundaryFee(PriceRatio(p, Reference)) \in 0 .. One
<1> DEFINE ratio == PriceRatio(p, Reference)
           close == CloseBoundaryFee(ratio)
           far == FarBoundaryFee(ratio)
<1>1. ratio \in 0 .. Q96
  BY ConfigAssumption, RatioBounds
<1>2. far \in 0 .. One /\ close \in Nat /\ close <= far
  BY <1>1, FarIsFee, CloseBelowFar
<1>3. (close * Multiplier) \div MaxMultiplier \in 0 .. close
  <2>1. Multiplier \in Nat /\ MaxMultiplier \in Nat \ {0} /\ Multiplier <= MaxMultiplier
    BY ConfigAssumption
  <2>2. (Multiplier * close) \div MaxMultiplier \in 0 .. close
    BY <1>2, <2>1, PartOf
  <2>3. Multiplier * close = close * Multiplier
    BY <1>2, <2>1
  <2> QED BY <2>2, <2>3
<1>4. TargetFee(p) = far - (close * Multiplier) \div MaxMultiplier
  BY DEF TargetFee
<1>5. far - (close * Multiplier) \div MaxMultiplier \in 0 .. far
  <2> HIDE DEF far, close
  <2> QED BY <1>2, <1>3, Units
<1> QED BY <1>2, <1>4, <1>5

-----------------------------------------------------------------------------
(* Decay *)

\* Whatever factor the decay takes, it leaves a part of the fee.
LEMMA FactorIsPart ==
  ASSUME NEW n \in Nat
  PROVE  DecayFactors(n) \subseteq 0 .. Q24
<1>1. Q24 \in Nat \ {0} /\ K \in Nat /\ K <= Q24
  BY ConfigAssumption
<1>2. K * K \in Nat /\ K * K <= Q24 * K /\ K * K <= Q24 * Q24 /\ Q24 * Q24 \in Nat \ {0}
  <2>1. Q24 * K = K * Q24 /\ K * Q24 <= Q24 * Q24 /\ K * K <= Q24 * K
    BY <1>1, Monotone
  <2> QED BY <1>1, <2>1, Product
<1>3. K * K * K \in Nat /\ K * K * K <= (Q24 * Q24) * Q24 /\ (Q24 * Q24) * Q24 \in Nat \ {0}
  <2>1. (K * K) * K <= (Q24 * Q24) * K
    BY <1>1, <1>2, Monotone
  <2>2. K * (Q24 * Q24) <= Q24 * (Q24 * Q24)
    BY <1>1, <1>2, Monotone
  <2>3. K * (Q24 * Q24) = (Q24 * Q24) * K /\ Q24 * (Q24 * Q24) = (Q24 * Q24) * Q24
    BY <1>1
  <2>4. (K * K) * K \in Nat /\ (Q24 * Q24) * K \in Nat /\ (Q24 * Q24) * Q24 \in Nat \ {0}
    BY <1>1, <1>2, Product
  <2> QED BY <2>1, <2>2, <2>3, <2>4
<1>4. /\ K * K * K * K \in Nat /\ (Q24 * Q24 * Q24) * Q24 \in Nat
      /\ K * K * K * K <= (Q24 * Q24 * Q24) * Q24
  <2> DEFINE a == K * K * K
             b == Q24 * Q24 * Q24
  <2>1. a \in Nat /\ b \in Nat /\ a <= b
    BY <1>3
  <2> HIDE DEF a, b
  <2>2. a * K <= b * K /\ K * b <= Q24 * b
    BY <1>1, <2>1, Monotone
  <2>3. K * b = b * K /\ Q24 * b = b * Q24 /\ a * K \in Nat /\ b * Q24 \in Nat /\ b * K \in Nat
    BY <1>1, <2>1, Product
  <2>4. a * K \in Nat /\ b * Q24 \in Nat /\ a * K <= b * Q24
    BY <2>2, <2>3
  <2> QED BY <2>4 DEF a, b
<1>5. (K * K) \div Q24 \in 0 .. Q24
  BY <1>1, <1>2, DivUpper, DivLower
<1>6. (K * K * K) \div (Q24 * Q24) \in 0 .. Q24
  <2> DEFINE a == K * K * K
             b == Q24 * Q24
  <2>1. a \in Nat /\ b \in Nat \ {0} /\ a <= b * Q24
    BY <1>2, <1>3
  <2> HIDE DEF a, b
  <2>2. a \div b \in 0 .. Q24
    BY <1>1, <2>1, DivUpper, DivLower
  <2> QED BY <2>2 DEF a, b
<1>7. (K * K * K * K) \div (Q24 * Q24 * Q24) \in 0 .. Q24
  <2> DEFINE a == K * K * K * K
             b == Q24 * Q24 * Q24
  <2>1. a \in Nat /\ b \in Nat \ {0} /\ a <= b * Q24
    BY <1>3, <1>4
  <2> HIDE DEF a, b
  <2>2. a \div b \in 0 .. Q24
    BY <1>1, <2>1, DivUpper, DivLower
  <2> QED BY <2>2 DEF a, b
<1> DEFINE four == (K * K * K * K) \div (Q24 * Q24 * Q24)
<1>8. 0 .. four \subseteq 0 .. Q24
  <2>1. four \in 0 .. Q24
    BY <1>7
  <2> HIDE DEF four
  <2> QED BY <1>1, <2>1
<1>9. CASE n = 0
  BY <1>1, <1>9 DEF DecayFactors
<1>10. CASE n = 1
  BY <1>1, <1>10 DEF DecayFactors
<1>11. CASE n = 2
  BY <1>5, <1>11 DEF DecayFactors
<1>12. CASE n = 3
  BY <1>6, <1>12 DEF DecayFactors
<1>13. CASE n = 4
  BY <1>7, <1>13 DEF DecayFactors
<1>14. CASE n \notin {0, 1, 2, 3, 4}
  BY <1>8, <1>14 DEF DecayFactors
<1> QED BY <1>9, <1>10, <1>11, <1>12, <1>13, <1>14

\* The fee the decay starts from and ends above, as the state has it.
DecayInv ==
  /\ price \in Prices /\ block \in Blocks /\ state.block \in Blocks
  /\ state.price \in Prices \cup {0}
  /\ \/ state.decaying = Undefined
     \/ /\ state.price \in Prices
        /\ CloseBoundaryFee(PriceRatio(state.price, Reference)) > 0
        /\ state.decaying \in TargetFee(state.price) .. One

\* Decay starts between the target and 100%.
LEMMA StartIsFee ==
  ASSUME DecayInv, NEW p \in Prices, CloseBoundaryFee(PriceRatio(p, Reference)) > 0
  PROVE  TargetFee(p) \in 0 .. One /\ DecayStart(p) \in TargetFee(p) .. One
<1> DEFINE far == FarBoundaryFee(PriceRatio(p, Reference))
<1>1. p \in Nat \ {0} /\ TargetFee(p) \in 0 .. far /\ far \in 0 .. One /\ One \in Nat
  BY ConfigAssumption, TargetIsFee, Units
<1>2. state.decaying # Undefined => state.decaying \in 0 .. One /\ state.price \in Nat \ {0}
  <2> SUFFICES ASSUME state.decaying # Undefined
               PROVE  state.decaying \in 0 .. One /\ state.price \in Nat \ {0}
    OBVIOUS
  <2>1. /\ state.price \in Nat \ {0} /\ state.decaying \in TargetFee(state.price) .. One
        /\ CloseBoundaryFee(PriceRatio(state.price, Reference)) > 0
    BY ConfigAssumption DEF DecayInv
  <2>2. TargetFee(state.price) \in Nat
    BY <2>1, TargetIsFee
  <2> QED BY <1>1, <2>1, <2>2
<1>3. state.decaying # Undefined => AdjustedPrevious(p) \in 0 .. One
  <2> SUFFICES ASSUME state.decaying # Undefined PROVE AdjustedPrevious(p) \in 0 .. One
    OBVIOUS
  <2> DEFINE ratio == PriceRatio(p, state.price)
             rest == One - state.decaying
  <2>1. ratio \in 0 .. Q96 /\ rest \in 0 .. One
    BY <1>1, <1>2, RatioBounds
  <2> HIDE DEF ratio, rest
  <2>2. (ratio * rest) \div Q96 \in 0 .. rest
    BY <2>1, <1>1, Units, PartOf
  <2>3. One - (ratio * rest) \div Q96 \in 0 .. One
    BY <2>1, <2>2, <1>1
  <2> QED BY <2>3 DEF AdjustedPrevious, ratio, rest
<1> HIDE DEF far
<1> DEFINE start == IF state.decaying = Undefined \/ (state.price < Reference) # (p < Reference)
                    THEN far
                    ELSE IF (p < Reference) = (p < state.price) THEN AdjustedPrevious(p)
                    ELSE IF state.decaying > far THEN far ELSE state.decaying
<1>4. start \in 0 .. One
  BY <1>1, <1>2, <1>3
<1>5. DecayStart(p) = IF start > TargetFee(p) THEN start ELSE TargetFee(p)
  BY DEF DecayStart, far
<1> HIDE DEF start
<1> QED BY <1>1, <1>4, <1>5

\* Decay ends between the target and where it started.
LEMMA DecayedIsFee ==
  ASSUME DecayInv, NEW p \in Prices, CloseBoundaryFee(PriceRatio(p, Reference)) > 0
  PROVE  DecayedFees(p) \subseteq TargetFee(p) .. DecayStart(p)
<1> DEFINE target == TargetFee(p)
           start == DecayStart(p)
<1>1. target \in Nat /\ start \in Nat /\ target <= start
  BY StartIsFee, Units
<1>2. BlocksPassed \in Nat
  <2>1. block \in Nat /\ state.block \in Nat
    BY ConfigAssumption DEF DecayInv
  <2> QED BY <2>1 DEF BlocksPassed
<1>3. DecayFactors(BlocksPassed) \subseteq 0 .. Q24 /\ Q24 \in Nat \ {0}
  BY <1>2, FactorIsPart, ConfigAssumption
<1>4. DecayedFees(p) = {target + (f * (start - target)) \div Q24 : f \in DecayFactors(BlocksPassed)}
  BY DEF DecayedFees
<1> HIDE DEF target, start
<1>5. ASSUME NEW f \in 0 .. Q24
      PROVE  target + (f * (start - target)) \div Q24 \in target .. start
  <2> DEFINE d == start - target
  <2>1. d \in Nat
    BY <1>1
  <2> HIDE DEF d
  <2>2. f \in Nat /\ f <= Q24
    BY <1>3
  <2>3. (f * d) \div Q24 \in 0 .. d
    BY <1>3, <2>1, <2>2, PartOf
  <2> QED BY <1>1, <2>3 DEF d
<1>6. DecayedFees(p) \subseteq target .. start
  BY <1>3, <1>4, <1>5
<1> QED BY <1>6 DEF target, start

-----------------------------------------------------------------------------
(* The hook's steps *)

\* A swap's fee, and the fee it leaves to decay.
LEMMA FeeOfSwap ==
  ASSUME DecayInv, NEW zeroForOne \in BOOLEAN,
         NEW fee \in FeeAt(BasePrice, IsNewBlock, zeroForOne)
  PROVE  /\ fee.lp \in Nat
         /\ IsNewBlock =>
              \/ /\ ~(CloseBoundaryFee(PriceRatio(price, Reference)) > 0)
                 /\ fee.decaying = Undefined
              \/ /\ CloseBoundaryFee(PriceRatio(price, Reference)) > 0
                 /\ fee.decaying \in TargetFee(price) .. DecayStart(price)
                 /\ fee.decaying \in TargetFee(price) .. One
<1> DEFINE ratio == PriceRatio(BasePrice, Reference)
           away == (BasePrice < Reference) = zeroForOne
<1>1. BasePrice \in Prices /\ BasePrice \in Nat \ {0} /\ Reference \in Nat \ {0}
  <2>1. BasePrice \in Prices
    BY DEF BasePrice, IsNewBlock, DecayInv
  <2> QED BY <2>1, ConfigAssumption
<1>2. ratio \in 0 .. Q96 /\ CloseBoundaryFee(ratio) \in Int
  BY <1>1, RatioBounds, CloseBelowFar
<1>3. CASE CloseBoundaryFee(ratio) <= 0
  <2>1. fee = [lp |-> InsideFee(ratio, away), decaying |-> Undefined]
    BY <1>3 DEF FeeAt
  <2>2. InsideFee(ratio, away) \in 0 .. One
    BY <1>2, <1>3, InsideIsFee
  <2>3. IsNewBlock => ~(CloseBoundaryFee(PriceRatio(price, Reference)) > 0)
    BY <1>2, <1>3 DEF BasePrice
  <2> HIDE DEF ratio, away
  <2> QED BY <2>1, <2>2, <2>3, Units
<1>4. CASE CloseBoundaryFee(ratio) > 0
  <2>1. PICK d \in IF IsNewBlock THEN DecayedFees(BasePrice) ELSE {state.decaying} :
          fee = [lp |-> IF away THEN 0 ELSE d, decaying |-> d]
    <3>1. ~(CloseBoundaryFee(ratio) <= 0)
      BY <1>2, <1>4
    <3> QED BY <3>1 DEF FeeAt
  <2>2. fee.decaying = d /\ fee.lp = IF away THEN 0 ELSE d
    BY <2>1
  <2>3. CASE IsNewBlock
    <3>1. BasePrice = price
      BY <2>3 DEF BasePrice
    <3>2. d \in TargetFee(price) .. DecayStart(price)
      BY <1>1, <1>4, <2>1, <2>3, <3>1, DecayedIsFee
    <3>3. TargetFee(price) \in 0 .. One /\ DecayStart(price) \in TargetFee(price) .. One
      BY <1>1, <1>4, <3>1, StartIsFee
    <3>4. d \in Nat /\ d \in TargetFee(price) .. One
      BY <3>2, <3>3, Units
    <3> QED BY <1>4, <2>2, <3>1, <3>2, <3>4
  <2>4. CASE ~IsNewBlock
    <3>1. d = state.decaying
      BY <2>1, <2>4
    <3>2. d \in Nat
      <4>1. CASE state.decaying = Undefined
        BY <3>1, <4>1, Units DEF Undefined
      <4>2. CASE state.decaying # Undefined
        <5>1. /\ state.price \in Nat \ {0} /\ state.decaying \in TargetFee(state.price) .. One
              /\ CloseBoundaryFee(PriceRatio(state.price, Reference)) > 0
          BY <4>2, ConfigAssumption DEF DecayInv
        <5>2. TargetFee(state.price) \in Nat
          BY <5>1, TargetIsFee
        <5> QED BY <3>1, <5>1, <5>2, Units
      <4> QED BY <4>1, <4>2
    <3> QED BY <2>2, <2>4, <3>2
  <2> QED BY <2>3, <2>4
<1> QED BY <1>2, <1>3, <1>4

\* to_fee_e6 keeps a fee in pips below 100%.
LEMMA PipsAreFee ==
  ASSUME NEW fee \in Nat
  PROVE  ToPips(fee) \in 0 .. MaxFeePips
<1>1. Pips \in Nat \ {0} /\ MaxFeePips \in Nat
  BY ConfigAssumption DEF MaxFeePips
<1>2. (fee + Pips - 1) \div Pips \in Nat
  BY <1>1, DivLower
<1> QED BY <1>1, <1>2 DEF ToPips

\* Fees in decay stay above their target, in every reachable state.
LEMMA DecayInvariant == Spec => []DecayInv
<1>1. Init => DecayInv
  BY DEF Init, DecayInv
<1>2. DecayInv /\ [Next]_vars => DecayInv'
  <2> SUFFICES ASSUME DecayInv, [Next]_vars PROVE DecayInv'
    OBVIOUS
  <2>1. ASSUME NEW zeroForOne \in BOOLEAN, NEW after \in Prices, Swap(zeroForOne, after)
        PROVE  DecayInv'
    <3>1. PICK fee \in FeeAt(BasePrice, IsNewBlock, zeroForOne) :
            state' = IF IsNewBlock
                     THEN [decaying |-> fee.decaying, price |-> BasePrice, block |-> block]
                     ELSE state
      BY <2>1 DEF Swap
    <3>2. price' = after /\ block' = block
      BY <2>1 DEF Swap
    <3>3. CASE IsNewBlock
      <4>1. state' = [decaying |-> fee.decaying, price |-> price, block |-> block]
        BY <3>1, <3>3 DEF BasePrice
      <4>2. state'.decaying = fee.decaying /\ state'.price = price /\ state'.block = block
        BY <4>1
      <4>3. \/ fee.decaying = Undefined
            \/ /\ CloseBoundaryFee(PriceRatio(price, Reference)) > 0
               /\ fee.decaying \in TargetFee(price) .. One
        BY <3>3, FeeOfSwap
      <4> QED BY <3>2, <4>2, <4>3 DEF DecayInv
    <3>4. CASE ~IsNewBlock
      BY <3>1, <3>2, <3>4 DEF DecayInv
    <3> QED BY <3>3, <3>4
  <2>2. ASSUME NEW b \in Blocks, SetBlockNumber(b) PROVE DecayInv'
    BY <2>2 DEF SetBlockNumber, DecayInv
  <2>3. CASE UNCHANGED vars
    BY <2>3 DEF vars, DecayInv
  <2> QED BY <2>1, <2>2, <2>3 DEF Next
<1> QED BY <1>1, <1>2, PTL DEF Spec

\* The decaying fee lies between the target and 100%, so that no subtraction
\* of calculate_decaying_fee underflows: stable_pair.rs decaying_fee.
THEOREM DecayBounded == Spec => []DecayStaysAboveTarget
<1>1. DecayInv => DecayStaysAboveTarget
  <2> SUFFICES ASSUME DecayInv, state.decaying # Undefined
               PROVE  /\ 0 <= TargetFee(state.price)
                      /\ state.decaying \in TargetFee(state.price) .. One
    BY DEF DecayStaysAboveTarget
  <2>1. /\ state.price \in Nat \ {0} /\ state.decaying \in TargetFee(state.price) .. One
        /\ CloseBoundaryFee(PriceRatio(state.price, Reference)) > 0
    BY ConfigAssumption DEF DecayInv
  <2>2. TargetFee(state.price) \in Nat
    BY <2>1, TargetIsFee
  <2> QED BY <2>1, <2>2
<1> QED BY <1>1, DecayInvariant, PTL

\* No swap is ever charged 100% or more, nor a negative fee: to_fee_e6.
THEOREM FeesBounded == Spec => []FeesBelowAll
<1> DEFINE Inv == quoted \in [Directions -> SUBSET (0 .. MaxFeePips)]
<1>1. Init => Inv
  BY DEF Init
<1>2. DecayInv /\ Inv /\ [Next]_vars => Inv'
  <2> SUFFICES ASSUME DecayInv, Inv, [Next]_vars PROVE Inv'
    OBVIOUS
  <2>1. ASSUME NEW zeroForOne \in BOOLEAN, NEW after \in Prices, Swap(zeroForOne, after)
        PROVE  Inv'
    <3>1. PICK fee \in FeeAt(BasePrice, IsNewBlock, zeroForOne) :
            quoted' = [d \in Directions |->
                         (IF block > epoch THEN {} ELSE quoted[d])
                           \cup (IF d = zeroForOne THEN {ToPips(fee.lp)} ELSE {})]
      BY <2>1 DEF Swap
    <3>2. ToPips(fee.lp) \in 0 .. MaxFeePips
      BY FeeOfSwap, PipsAreFee
    <3> QED BY <3>1, <3>2
  <2>2. ASSUME NEW b \in Blocks, SetBlockNumber(b) PROVE Inv'
    BY <2>2 DEF SetBlockNumber
  <2>3. CASE UNCHANGED vars
    BY <2>3 DEF vars
  <2> QED BY <2>1, <2>2, <2>3 DEF Next
<1>3. Inv => FeesBelowAll
  BY DEF FeesBelowAll
<1> QED BY <1>1, <1>2, <1>3, DecayInvariant, PTL DEF Spec

\* The start of a block that begins at the price of the last one.
LEMMA StartNotAbove ==
  ASSUME DecayInv, state.decaying # Undefined
  PROVE  DecayStart(state.price) <= state.decaying
<1> DEFINE p == state.price
           far == FarBoundaryFee(PriceRatio(p, Reference))
<1>1. /\ p \in Nat \ {0} /\ state.decaying \in TargetFee(p) .. One
      /\ CloseBoundaryFee(PriceRatio(p, Reference)) > 0
  BY ConfigAssumption DEF DecayInv
<1>2. TargetFee(p) \in 0 .. far /\ far \in 0 .. One /\ One \in Nat
  BY <1>1, TargetIsFee, Units
<1>3. AdjustedPrevious(p) = state.decaying
  <2> DEFINE rest == One - state.decaying
  <2>1. PriceRatio(p, state.price) = Q96
    BY <1>1, SameRatio
  <2>2. rest \in Nat
    BY <1>1, <1>2
  <2> HIDE DEF rest
  <2>3. (Q96 * rest) \div Q96 = rest
    <3>1. (Q96 * rest) \div Q96 \in Int /\ rest <= (Q96 * rest) \div Q96
      BY <2>2, Units, DivLower
    <3>2. (Q96 * rest) \div Q96 <= rest
      BY <2>2, Units, DivUpper
    <3> QED BY <2>2, <3>1, <3>2
  <2>4. AdjustedPrevious(p) = One - rest
    BY <2>1, <2>3 DEF AdjustedPrevious, rest
  <2> QED BY <1>1, <1>2, <2>4 DEF rest
<1> DEFINE start == IF state.decaying = Undefined \/ (state.price < Reference) # (p < Reference)
                    THEN far
                    ELSE IF (p < Reference) = (p < state.price) THEN AdjustedPrevious(p)
                    ELSE IF state.decaying > far THEN far ELSE state.decaying
<1>4. start <= state.decaying
  BY <1>1, <1>2, <1>3
<1>5. DecayStart(p) = IF start > TargetFee(p) THEN start ELSE TargetFee(p)
  BY DEF DecayStart
<1> HIDE DEF start
<1> QED BY <1>1, <1>2, <1>4, <1>5

\* While blocks start at the same price the fee to correct it only falls.
THEOREM FeeFalls == Spec => FeeDecays
<1>1. DecayInv /\ [Next]_vars =>
        [state'.price = state.price /\ state.decaying # Undefined
           => state'.decaying <= state.decaying]_vars
  <2> SUFFICES ASSUME DecayInv, [Next]_vars, state'.price = state.price,
                      state.decaying # Undefined
               PROVE  state'.decaying <= state.decaying
    OBVIOUS
  <2>1. state.decaying \in Int /\ DecayStart(state.price) <= state.decaying
    <3>1. /\ state.price \in Nat \ {0} /\ state.decaying \in TargetFee(state.price) .. One
          /\ CloseBoundaryFee(PriceRatio(state.price, Reference)) > 0
      BY ConfigAssumption DEF DecayInv
    <3> QED BY <3>1, StartNotAbove
  <2>2. CASE UNCHANGED state
    BY <2>1, <2>2
  <2>3. ASSUME NEW zeroForOne \in BOOLEAN, NEW after \in Prices, Swap(zeroForOne, after),
               IsNewBlock
        PROVE  state'.decaying <= state.decaying
    <3>1. PICK fee \in FeeAt(BasePrice, IsNewBlock, zeroForOne) :
            state' = [decaying |-> fee.decaying, price |-> BasePrice, block |-> block]
      BY <2>3 DEF Swap
    <3>2. state'.decaying = fee.decaying /\ state'.price = price
      BY <2>3, <3>1 DEF BasePrice
    <3>3. price = state.price
      BY <3>2
    <3>4. fee.decaying \in TargetFee(price) .. DecayStart(price)
      <4>1. CloseBoundaryFee(PriceRatio(price, Reference)) > 0
        BY <3>3 DEF DecayInv
      <4> QED BY <2>3, <4>1, FeeOfSwap
    <3>5. DecayStart(price) \in Int /\ TargetFee(price) \in Int
      <4>1. CloseBoundaryFee(PriceRatio(price, Reference)) > 0 /\ price \in Prices
        BY <3>3 DEF DecayInv
      <4> QED BY <4>1, StartIsFee, Units
    <3> QED BY <2>1, <3>2, <3>3, <3>4, <3>5
  <2>4. ASSUME NEW zeroForOne \in BOOLEAN, NEW after \in Prices, Swap(zeroForOne, after),
               ~IsNewBlock
        PROVE  UNCHANGED state
    BY <2>4 DEF Swap
  <2>5. ASSUME NEW b \in Blocks, SetBlockNumber(b) PROVE UNCHANGED state
    BY <2>5 DEF SetBlockNumber
  <2> QED BY <2>2, <2>3, <2>4, <2>5 DEF Next, vars
<1> QED BY <1>1, DecayInvariant, PTL DEF Spec, FeeDecays
=============================================================================
