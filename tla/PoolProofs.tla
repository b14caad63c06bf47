----------------------------- MODULE PoolProofs -----------------------------
(* Proofs about the pool, for every tick grid, price table and bound. *)
EXTENDS Pool, BasicLemmas

-----------------------------------------------------------------------------
(* Ticks and prices *)

LEMMA TickAtType ==
  ASSUME NEW p \in Prices
  PROVE  /\ TickAt(p) \in Ticks
         /\ SqrtPriceAt[TickAt(p)] <= p
         /\ TickAt(p) < MaxTick => p < SqrtPriceAt[TickAt(p) + 1]
<1> USE TickAssumption, PriceAssumption DEF Ticks
<1> DEFINE Floor(t) == SqrtPriceAt[t] <= p /\ (t < MaxTick => p < SqrtPriceAt[t + 1])
           below == {t \in Ticks : SqrtPriceAt[t] <= p}
<1>1. \E t \in Ticks : Floor(t)
  <2> SUFFICES ASSUME \A t \in Ticks : ~Floor(t) PROVE FALSE
    OBVIOUS
  <2>1. MinTick \in below
    BY DEF Prices
  <2>2. ASSUME NEW t \in MinTick .. MaxTick - 1, t \in below PROVE t + 1 \in below
    <3>1. t \in Ticks /\ t + 1 \in Ticks /\ t < MaxTick
      OBVIOUS
    <3>2. SqrtPriceAt[t + 1] \in Int /\ p \in Int
      BY <3>1 DEF Prices
    <3> QED BY <2>2, <3>1, <3>2
  <2>3. \A t \in MinTick .. MaxTick : t \in below
    <3>1. below \in SUBSET (MinTick .. MaxTick)
      OBVIOUS
    <3> HIDE DEF below
    <3> QED BY <2>1, <2>2, <3>1, IntervalInduction
  <2>4. Floor(MaxTick)
    BY <2>3
  <2> QED BY <2>4
<1> QED BY <1>1 DEF TickAt

LEMMA TickAtUnique ==
  ASSUME NEW t \in Ticks
  PROVE  TickAt(SqrtPriceAt[t]) = t
<1> USE TickAssumption, PriceAssumption DEF Ticks
<1> DEFINE p == SqrtPriceAt[t]
           u == TickAt(p)
<1>1. p \in Prices
  BY DEF Prices
<1>2. u \in Ticks /\ SqrtPriceAt[u] <= p /\ (u < MaxTick => p < SqrtPriceAt[u + 1])
  BY <1>1, TickAtType
<1> HIDE DEF u
<1>3. ~(t < u)
  BY <1>2
<1>4. ~(u < t)
  <2> SUFFICES ASSUME u < t PROVE FALSE
    OBVIOUS
  <2>1. u + 1 \in Ticks /\ u < MaxTick
    BY <1>2
  <2>2. SqrtPriceAt[u + 1] <= p
    BY <1>2, <2>1, u + 1 = t \/ u + 1 < t
  <2> QED BY <1>2, <2>1, <2>2
<1>5. u = t
  BY <1>2, <1>3, <1>4
<1> QED BY <1>5 DEF u

LEMMA WrappingSubType ==
  ASSUME NEW a \in Int, NEW b \in Int
  PROVE  WrappingSub(a, b) \in FeeGrowths
BY DataAssumption DEF WrappingSub, FeeGrowths

LEMMA WordBoundaryType ==
  ASSUME NEW t \in Int, NEW zeroForOne \in BOOLEAN
  PROVE  WordBoundary(t, zeroForOne) \in Ticks
<1> USE TickAssumption DEF Ticks
<1>1. ASSUME NEW x \in Int PROVE Clamp(x) \in Ticks
  BY DEF Clamp
<1>2. ASSUME NEW c \in Int PROVE (c \div WordTicks) * WordTicks \in Int
  OBVIOUS
<1>3. t \div Spacing \in Int
  OBVIOUS
<1> QED BY <1>1, <1>2, <1>3 DEF WordBoundary

LEMMA GrowthInsideType ==
  ASSUME NEW t \in Int, NEW lo \in Int, NEW hi \in Int,
         NEW g \in [Tokens -> FeeGrowths],
         NEW outLo \in [Tokens -> FeeGrowths], NEW outHi \in [Tokens -> FeeGrowths]
  PROVE  GrowthInside(t, g, lo, hi, outLo, outHi) \in [Tokens -> FeeGrowths]
<1>1. FeeGrowths \subseteq Int
  BY DEF FeeGrowths
<1>2. ASSUME NEW i \in Tokens
      PROVE  /\ WrappingSub(outLo[i], outHi[i]) \in FeeGrowths
             /\ WrappingSub(outHi[i], outLo[i]) \in FeeGrowths
             /\ WrappingSub(WrappingSub(g[i], outLo[i]), outHi[i]) \in FeeGrowths
  BY <1>1, WrappingSubType
<1> QED BY <1>2 DEF GrowthInside

LEMMA FeesOwedType ==
  ASSUME NEW liq \in Int,
         NEW inside \in [Tokens -> FeeGrowths], NEW last \in [Tokens -> FeeGrowths]
  PROVE  FeesOwed(liq, inside, last) \in [Tokens -> Int]
<1>1. ASSUME NEW i \in Tokens PROVE WrappingSub(inside[i], last[i]) \in Int
  BY WrappingSubType DEF FeeGrowths
<1>2. ASSUME NEW x \in Int PROVE (x * liq) \div Q128 \in Int
  BY DataAssumption
<1> QED BY <1>1, <1>2 DEF FeesOwed

-----------------------------------------------------------------------------
(* Type correctness of the pieces of modify_liquidity *)

LEMMA UpdateTickType ==
  ASSUME NEW tks, MapOf(tks, Ticks, TickInfos), NEW t \in Ticks, NEW delta \in Int,
         NEW upper \in BOOLEAN, feeGrowth \in [Tokens -> FeeGrowths]
  PROVE  /\ MapOf(UpdateTick(tks, t, delta, upper).ticks, Ticks, TickInfos)
         /\ UpdateTick(tks, t, delta, upper).outside \in [Tokens -> FeeGrowths]
         /\ UpdateTick(tks, t, delta, upper).ok \in BOOLEAN
<1> DEFINE before   == IF t \in DOMAIN tks THEN tks[t] ELSE NewTick
           inserted == [u \in DOMAIN tks \cup {t} |-> IF u = t THEN before ELSE tks[u]]
           gross    == before.gross + delta
           net      == IF upper THEN before.net - delta ELSE before.net + delta
           outside  == IF before.gross = 0 /\ t <= tick THEN feeGrowth ELSE before.outside
           info     == [gross |-> gross, net |-> net, outside |-> outside]
           fits     == TickFits(gross, net, delta)
<1>1. NewTick \in TickInfos
  BY DataAssumption DEF NewTick, TickInfos, FeeGrowths
<1>2. before \in TickInfos
  BY <1>1 DEF MapOf
<1>3. MapOf(inserted, Ticks, TickInfos)
  BY <1>2 DEF MapOf
<1>4. MapOf(Restrict(tks, DOMAIN tks \ {t}), Ticks, TickInfos)
  BY DEF MapOf, Restrict
<1>5. outside \in [Tokens -> FeeGrowths] /\ before.outside \in [Tokens -> FeeGrowths]
  BY <1>2 DEF TickInfos
<1>6. ASSUME fits PROVE MapOf([inserted EXCEPT ![t] = info], Ticks, TickInfos)
  <2> HIDE DEF outside, net, gross
  <2>1. info \in TickInfos
    BY <1>5, <1>6 DEF TickInfos, TickFits
  <2> HIDE DEF info, inserted
  <2> QED BY <2>1, <1>3 DEF MapOf
<1>7. UpdateTick(tks, t, delta, upper) =
        CASE ~fits -> [ok |-> FALSE, ticks |-> inserted, outside |-> before.outside]
          [] fits /\ gross = 0
               -> [ok |-> TRUE, ticks |-> Restrict(tks, DOMAIN tks \ {t}),
                   outside |-> before.outside]
          [] OTHER
               -> [ok |-> TRUE, ticks |-> [inserted EXCEPT ![t] = info],
                   outside |-> info.outside]
  BY Zenon DEF UpdateTick
<1> HIDE DEF before, inserted, gross, net, outside, fits
<1> QED BY <1>3, <1>4, <1>5, <1>6, <1>7

LEMMA UpdateTicksType ==
  ASSUME TypeOK, NEW lo \in Ticks, NEW hi \in Ticks, NEW delta \in Int
  PROVE  /\ MapOf(UpdateTicks(lo, hi, delta).ticks, Ticks, TickInfos)
         /\ UpdateTicks(lo, hi, delta).ok =>
              /\ UpdateTicks(lo, hi, delta).outLo \in [Tokens -> FeeGrowths]
              /\ UpdateTicks(lo, hi, delta).outHi \in [Tokens -> FeeGrowths]
<1> DEFINE low  == UpdateTick(ticks, lo, delta, FALSE)
           high == UpdateTick(low.ticks, hi, delta, TRUE)
           out(t) == IF t \in DOMAIN ticks THEN ticks[t].outside ELSE NewTick.outside
<1>1. /\ MapOf(low.ticks, Ticks, TickInfos) /\ low.ok \in BOOLEAN
      /\ low.outside \in [Tokens -> FeeGrowths]
  BY UpdateTickType DEF TypeOK
<1>2. /\ MapOf(high.ticks, Ticks, TickInfos) /\ high.ok \in BOOLEAN
      /\ high.outside \in [Tokens -> FeeGrowths]
  <2> HIDE DEF low
  <2> QED BY <1>1, UpdateTickType DEF TypeOK
<1>3. ASSUME NEW t \in Ticks PROVE out(t) \in [Tokens -> FeeGrowths]
  BY DataAssumption DEF TypeOK, MapOf, TickInfos, NewTick, FeeGrowths
<1>4. UpdateTicks(lo, hi, delta) =
        CASE delta = 0 -> [ok |-> TRUE, ticks |-> ticks, outLo |-> out(lo), outHi |-> out(hi)]
          [] delta # 0 /\ ~low.ok -> [ok |-> FALSE, ticks |-> low.ticks]
          [] OTHER -> [ok |-> high.ok, ticks |-> high.ticks,
                       outLo |-> low.outside, outHi |-> high.outside]
  BY Zenon DEF UpdateTicks
<1>5. MapOf(ticks, Ticks, TickInfos)
  BY DEF TypeOK
<1>6. out(lo) \in [Tokens -> FeeGrowths] /\ out(hi) \in [Tokens -> FeeGrowths]
  BY <1>3
<1> HIDE DEF low, high, out
<1>7. CASE delta = 0
  <2>1. UpdateTicks(lo, hi, delta)
          = [ok |-> TRUE, ticks |-> ticks, outLo |-> out(lo), outHi |-> out(hi)]
    BY <1>4, <1>7
  <2> QED BY <2>1, <1>5, <1>6
<1>8. CASE delta # 0 /\ ~low.ok
  <2>1. UpdateTicks(lo, hi, delta) = [ok |-> FALSE, ticks |-> low.ticks]
    BY <1>4, <1>8
  <2> QED BY <2>1, <1>1
<1>9. CASE delta # 0 /\ low.ok
  <2>1. UpdateTicks(lo, hi, delta)
          = [ok |-> high.ok, ticks |-> high.ticks, outLo |-> low.outside, outHi |-> high.outside]
    BY <1>4, <1>9
  <2> QED BY <2>1, <1>1, <1>2
<1> QED BY <1>7, <1>8, <1>9

LEMMA UpdatePositionType ==
  ASSUME TypeOK, NEW key \in Owners \X Ticks \X Ticks, NEW delta \in Int,
         NEW inside \in [Tokens -> FeeGrowths]
  PROVE  /\ MapOf(UpdatePosition(key, delta, inside).positions,
                  Owners \X Ticks \X Ticks, PositionStates)
         /\ UpdatePosition(key, delta, inside).owed \in [Tokens -> Int]
<1> DEFINE before   == IF key \in DOMAIN positions THEN positions[key] ELSE NewPosition
           after    == before.liquidity + delta
           store(p) == [k \in DOMAIN positions \cup {key} |-> IF k = key THEN p ELSE positions[k]]
           owed     == FeesOwed(before.liquidity, inside, before.last)
           new      == [liquidity |-> after, last |-> inside]
           fails    == after < 0 \/ after > U128Max \/ (delta = 0 /\ after = 0)
<1>1. NewPosition \in PositionStates /\ NewPosition.last \in [Tokens -> Int]
  BY DataAssumption DEF NewPosition, PositionStates, FeeGrowths
<1>2. before \in PositionStates
  BY <1>1 DEF TypeOK, MapOf
<1>3. ASSUME NEW p \in PositionStates
      PROVE  MapOf(store(p), Owners \X Ticks \X Ticks, PositionStates)
  BY DEF TypeOK, MapOf
<1>4. owed \in [Tokens -> Int]
  BY <1>2, FeesOwedType DEF PositionStates
<1>5. ~fails => new \in PositionStates
  BY <1>2, DataAssumption DEF PositionStates
<1>6. UpdatePosition(key, delta, inside) =
        IF fails
        THEN [ok |-> FALSE, positions |-> store(before), owed |-> NewPosition.last]
        ELSE [ok |-> \A i \in Tokens : owed[i] <= I128Max, positions |-> store(new), owed |-> owed]
  BY Zenon DEF UpdatePosition
<1> HIDE DEF before, after, store, owed, new, fails
<1>7. CASE fails
  <2>1. /\ UpdatePosition(key, delta, inside).positions = store(before)
        /\ UpdatePosition(key, delta, inside).owed = NewPosition.last
    BY <1>6, <1>7
  <2> QED BY <2>1, <1>1, <1>2, <1>3
<1>8. CASE ~fails
  <2>1. /\ UpdatePosition(key, delta, inside).positions = store(new)
        /\ UpdatePosition(key, delta, inside).owed = owed
    BY <1>6, <1>8
  <2> QED BY <2>1, <1>3, <1>4, <1>5, <1>8
<1> QED BY <1>7, <1>8

-----------------------------------------------------------------------------
(* The step of a swap *)

LEMMA PriceOfTick ==
  ASSUME NEW t \in Ticks
  PROVE  SqrtPriceAt[t] \in Prices
BY TickAssumption, PriceAssumption DEF Ticks, Prices

\* Among finitely many ticks there is a lowest and a highest.
LEMMA ExtremeTicks ==
  ASSUME NEW S \in SUBSET Ticks, S # {}
  PROVE  /\ \E t \in S : \A u \in S : t <= u
         /\ \E t \in S : \A u \in S : u <= t
<1> USE TickAssumption DEF Ticks
<1> DEFINE Up   == {n \in Nat : MinTick + n \in S}
           Down == {n \in Nat : MaxTick - n \in S}
<1>1. \A t \in S : t - MinTick \in Up /\ MaxTick - t \in Down
  OBVIOUS
<1>2. Up \in SUBSET Nat /\ Up # {} /\ Down \in SUBSET Nat /\ Down # {}
  BY <1>1
<1>3. PICK n \in Up : \A m \in Up : n <= m
  BY <1>2, LeastNatural, Zenon
<1>4. PICK k \in Down : \A m \in Down : k <= m
  BY <1>2, LeastNatural, Zenon
<1>5. \A u \in S : MinTick + n <= u
  BY <1>1, <1>3
<1>6. \A u \in S : u <= MaxTick - k
  <2>1. \A u \in S : k <= MaxTick - u
    BY <1>1, <1>4, Zenon
  <2>2. k \in Nat
    BY <1>4
  <2> HIDE DEF Up, Down
  <2> QED BY <2>1, <2>2
<1>7. MinTick + n \in S /\ MaxTick - k \in S
  BY <1>3, <1>4
<1> HIDE DEF Up, Down
<1> QED BY <1>5, <1>6, <1>7

LEMMA NextInitializedType ==
  ASSUME TypeOK, NEW t \in Int, NEW zeroForOne \in BOOLEAN,
         NextCandidates(t, zeroForOne) # {}
  PROVE  NextInitialized(t, zeroForOne) \in DOMAIN ticks
<1> DEFINE C == NextCandidates(t, zeroForOne)
<1>1. C \in SUBSET DOMAIN ticks /\ C \in SUBSET Ticks
  BY DEF NextCandidates, TypeOK, MapOf
<1>2. \E u \in C : \A v \in C : IF zeroForOne THEN v <= u ELSE u <= v
  <2> HIDE DEF C
  <2>1. C # {}
    BY DEF C
  <2>2. CASE zeroForOne
    BY <1>1, <2>1, <2>2, ExtremeTicks
  <2>3. CASE ~zeroForOne
    BY <1>1, <2>1, <2>3, ExtremeTicks
  <2> QED BY <2>2, <2>3
<1>3. NextInitialized(t, zeroForOne) \in C
  BY <1>2, Zenon DEF NextInitialized
<1> QED BY <1>1, <1>3

LEMMA StepTickType ==
  ASSUME TypeOK
  PROVE  /\ StepTick.tick \in Ticks
         /\ StepTick.initialized => StepTick.tick \in DOMAIN ticks
<1>1. swap.tick \in Int /\ swap.zeroForOne \in BOOLEAN
  BY TickAssumption DEF TypeOK, SwapLocals, PoolTicks
<1>2. WordBoundary(swap.tick, swap.zeroForOne) \in Ticks
  BY <1>1, WordBoundaryType
<1>3. DOMAIN ticks \subseteq Ticks
  BY DEF TypeOK, MapOf
<1>4. NextCandidates(swap.tick, swap.zeroForOne) # {}
        => NextInitialized(swap.tick, swap.zeroForOne) \in DOMAIN ticks
  BY <1>1, NextInitializedType
<1> DEFINE next     == NextInitialized(swap.tick, swap.zeroForOne)
           boundary == WordBoundary(swap.tick, swap.zeroForOne)
           found    == /\ NextCandidates(swap.tick, swap.zeroForOne) # {}
                       /\ IF swap.zeroForOne THEN next >= boundary ELSE next <= boundary
<1>5. StepTick = IF found THEN [tick |-> next, initialized |-> TRUE]
                          ELSE [tick |-> boundary, initialized |-> FALSE]
  BY Zenon DEF StepTick
<1>6. found => next \in DOMAIN ticks
  BY <1>4
<1>7. boundary \in Ticks
  BY <1>2
<1> HIDE DEF next, boundary, found
<1> QED BY <1>3, <1>5, <1>6, <1>7

\* Crossing a tick keeps every tick a tick.
LEMMA FlipOutsideType ==
  ASSUME TypeOK, NEW t \in DOMAIN ticks, NEW growth \in FeeGrowths
  PROVE  MapOf(FlipOutside(t, growth), Ticks, TickInfos)
<1> DEFINE g    == [feeGrowth EXCEPT ![InToken(swap.zeroForOne)] = growth]
           flip == [i \in Tokens |-> WrappingSub(g[i], ticks[t].outside[i])]
           info == [ticks[t] EXCEPT !.outside = flip]
<1>1. g \in [Tokens -> FeeGrowths]
  BY DEF TypeOK
<1>2. ticks[t] \in TickInfos /\ ticks[t].outside \in [Tokens -> FeeGrowths]
  BY DEF TypeOK, MapOf, TickInfos
<1>3. flip \in [Tokens -> FeeGrowths]
  <2> HIDE DEF g
  <2>1. ASSUME NEW i \in Tokens PROVE g[i] \in Int /\ ticks[t].outside[i] \in Int
    BY <1>1, <1>2 DEF FeeGrowths
  <2> QED BY <2>1, WrappingSubType
<1>4. info \in TickInfos
  <2> HIDE DEF flip
  <2> QED BY <1>2, <1>3 DEF TickInfos
<1>5. FlipOutside(t, growth) = [ticks EXCEPT ![t] = info]
  BY DEF FlipOutside
<1> HIDE DEF info
<1> QED BY <1>4, <1>5 DEF TypeOK, MapOf

\* Where an iteration leaves the tick, it tracks the price.
LEMMA TickAfterStepTracks ==
  ASSUME NEW t \in PoolTicks, NEW p \in Prices, Tracks(t, p),
         swap.tick = t, swap.sqrtPrice = p, swap.zeroForOne \in BOOLEAN,
         NEW next \in Ticks, NEW price \in Prices
  PROVE  LET after == TickAfterStep(next, price = SqrtPriceAt[next], price)
         IN  after \in PoolTicks /\ Tracks(after, price)
<1> DEFINE after == TickAfterStep(next, price = SqrtPriceAt[next], price)
<1> SUFFICES after \in PoolTicks /\ Tracks(after, price)
  OBVIOUS
<1> USE TickAssumption, PriceAssumption DEF Ticks, PoolTicks, TickAfterStep
<1>1. CASE price = SqrtPriceAt[next] /\ swap.zeroForOne
  BY <1>1 DEF Tracks
<1>2. CASE price = SqrtPriceAt[next] /\ ~swap.zeroForOne
  BY <1>2, TickAtUnique DEF Tracks
<1>3. CASE price # SqrtPriceAt[next] /\ price # swap.sqrtPrice
  BY <1>3, TickAtType DEF Tracks
<1>4. CASE price # SqrtPriceAt[next] /\ price = swap.sqrtPrice
  BY <1>4
<1> QED BY <1>1, <1>2, <1>3, <1>4

-----------------------------------------------------------------------------
(* The invariant.  TickTracksPrice looks at the running swap or else at the  *)
(* committed pool; it is inductive only with both tracked all along, and the *)
(* types are needed for ticks and prices to be comparable.                   *)

PoolInv ==
  /\ TypeOK
  /\ Tracks(tick, sqrtPrice)
  /\ Tracks(swap.tick, swap.sqrtPrice)

LEMMA NoSwapOK ==
  NoSwap \in SwapLocals /\ Tracks(NoSwap.tick, NoSwap.sqrtPrice)
<1>1. MinTick \in Ticks /\ MinTick \in PoolTicks
  BY TickAssumption DEF Ticks, PoolTicks
<1>2. SqrtPriceAt[MinTick] \in Prices /\ TickAt(SqrtPriceAt[MinTick]) = MinTick
  BY <1>1, PriceOfTick, TickAtUnique
<1>3. 0 \in FeeGrowths /\ 0 \in 0 .. U128Max
  BY DataAssumption DEF FeeGrowths
<1> QED BY <1>1, <1>2, <1>3 DEF NoSwap, SwapLocals, Tracks

LEMMA InitInv == Init => PoolInv
<1> SUFFICES ASSUME Init PROVE PoolInv
  OBVIOUS
<1>1. sqrtPrice \in Prices /\ TickAt(sqrtPrice) \in Ticks /\ tick = TickAt(sqrtPrice)
  BY TickAtType DEF Init
<1>2. tick \in PoolTicks
  BY <1>1, TickAssumption DEF Ticks, PoolTicks
<1>3. swap \in SwapLocals /\ Tracks(swap.tick, swap.sqrtPrice)
  BY NoSwapOK DEF Init
<1>4. MapOf(ticks, Ticks, TickInfos) /\ MapOf(positions, Owners \X Ticks \X Ticks, PositionStates)
  BY DEF Init, MapOf
<1>5. /\ liquidity \in 0 .. U128Max /\ feeGrowth \in [Tokens -> FeeGrowths]
      /\ unclaimed \in [Tokens -> Int] /\ tainted \in BOOLEAN
  <2>1. 0 \in 0 .. U128Max /\ 0 \in FeeGrowths
    BY DataAssumption DEF FeeGrowths
  <2>2. tainted \in BOOLEAN
    BY Zenon DEF Init
  <2>3. liquidity = 0 /\ feeGrowth = [i \in Tokens |-> 0] /\ unclaimed = [i \in Tokens |-> 0]
    BY DEF Init
  <2> QED BY <2>1, <2>2, <2>3
<1> QED BY <1>1, <1>2, <1>3, <1>4, <1>5 DEF PoolInv, TypeOK, Tracks

LEMMA ModifyLiquidityInv ==
  ASSUME PoolInv, NEW owner \in Owners, NEW lo \in Ticks, NEW hi \in Ticks,
         NEW delta \in Int, ModifyLiquidity(owner, lo, hi, delta)
  PROVE  PoolInv'
<1> DEFINE tk     == UpdateTicks(lo, hi, delta)
           inside == GrowthInside(tick, feeGrowth, lo, hi, tk.outLo, tk.outHi)
           pos    == UpdatePosition(<<owner, lo, hi>>, delta, inside)
           active == IF lo <= tick /\ tick < hi THEN liquidity + delta ELSE liquidity
           fits   == active \in 0 .. U128Max
<1> USE DEF PoolInv
<1>1. /\ ticks' = tk.ticks
      /\ \/ /\ ~tk.ok
            /\ UNCHANGED <<positions, liquidity, unclaimed>>
         \/ /\ tk.ok /\ ~(pos.ok /\ fits)
            /\ positions' = pos.positions
            /\ UNCHANGED <<liquidity, unclaimed>>
         \/ /\ tk.ok /\ pos.ok /\ fits
            /\ positions' = pos.positions
            /\ liquidity' = active
            /\ unclaimed' = [i \in Tokens |-> unclaimed[i] - pos.owed[i]]
      /\ tainted' = (tainted \/ (~(tk.ok /\ pos.ok /\ fits) /\ ticks' # ticks))
      /\ UNCHANGED <<tick, sqrtPrice, feeGrowth, swap>>
  BY Zenon DEF ModifyLiquidity
<1>2. /\ MapOf(tk.ticks, Ticks, TickInfos)
      /\ tk.ok => tk.outLo \in [Tokens -> FeeGrowths] /\ tk.outHi \in [Tokens -> FeeGrowths]
  BY UpdateTicksType
<1>3. tk.ok => inside \in [Tokens -> FeeGrowths]
  <2> HIDE DEF tk
  <2>1. tick \in Int /\ lo \in Int /\ hi \in Int /\ feeGrowth \in [Tokens -> FeeGrowths]
    BY TickAssumption DEF TypeOK, PoolTicks, Ticks
  <2> QED BY <1>2, <2>1, GrowthInsideType
<1>4. tk.ok => /\ MapOf(pos.positions, Owners \X Ticks \X Ticks, PositionStates)
               /\ pos.owed \in [Tokens -> Int]
  <2> HIDE DEF tk, inside
  <2>1. <<owner, lo, hi>> \in Owners \X Ticks \X Ticks
    OBVIOUS
  <2> QED BY <1>3, <2>1, UpdatePositionType
<1> HIDE DEF tk, inside, pos, active, fits
<1>5. MapOf(ticks', Ticks, TickInfos)
  BY <1>1, <1>2
<1>6. MapOf(positions', Owners \X Ticks \X Ticks, PositionStates)
  BY <1>1, <1>4 DEF TypeOK
<1>7. liquidity' \in 0 .. U128Max
  BY <1>1 DEF TypeOK, fits
<1>8. unclaimed' \in [Tokens -> Int]
  BY <1>1, <1>4 DEF TypeOK
<1>9. tainted' \in BOOLEAN
  <2>1. tainted' = (tainted \/ (~(tk.ok /\ pos.ok /\ fits) /\ ticks' # ticks))
    BY <1>1
  <2> QED BY <2>1
<1>10. UNCHANGED <<tick, sqrtPrice, feeGrowth, swap>>
  BY <1>1
<1> QED BY <1>5, <1>6, <1>7, <1>8, <1>9, <1>10 DEF TypeOK, Tracks

LEMMA SwapBeginInv ==
  ASSUME PoolInv, NEW zeroForOne \in BOOLEAN, NEW limit \in Limits,
         SwapBegin(zeroForOne, limit)
  PROVE  PoolInv'
<1>1. limit \in Prices
  BY DataAssumption
<1>2. swap' \in SwapLocals /\ swap'.tick = tick /\ swap'.sqrtPrice = sqrtPrice
  BY <1>1 DEF PoolInv, TypeOK, SwapBegin, SwapLocals, InToken, Tokens
<1>3. UNCHANGED <<tick, sqrtPrice, liquidity, feeGrowth, ticks, positions, unclaimed, tainted>>
  BY DEF SwapBegin
<1> QED BY <1>2, <1>3 DEF PoolInv, TypeOK, Tracks

LEMMA SwapStepInv ==
  ASSUME PoolInv, NEW price \in Prices, NEW fee, NEW exhausted \in BOOLEAN,
         SwapStep(price, fee, exhausted)
  PROVE  PoolInv'
<1> DEFINE next    == StepTick
           target  == StepTarget(next.tick)
           growth  == swap.growth + (fee * Q128) \div swap.liquidity
           reached == price = SqrtPriceAt[next.tick]
           crosses == reached /\ next.initialized
           net     == IF swap.zeroForOne THEN -ticks[next.tick].net ELSE ticks[next.tick].net
           after   == IF crosses THEN swap.liquidity + net ELSE swap.liquidity
           moved   == TickAfterStep(next.tick, reached, price)
<1> USE DEF PoolInv
<1>1. /\ fee \in StepFees[InToken(swap.zeroForOne)]
      /\ growth \in FeeGrowths
      /\ ticks' = IF crosses THEN FlipOutside(next.tick, growth) ELSE ticks
      /\ IF after \in 0 .. U128Max
         THEN /\ swap' = [swap EXCEPT
                   !.sqrtPrice = price,
                   !.liquidity = after,
                   !.growth    = growth,
                   !.remaining = ~exhausted,
                   !.crossed   = @ \/ crosses,
                   !.charged   = @ + fee,
                   !.tick      = moved]
              /\ UNCHANGED tainted
         ELSE swap' = NoSwap /\ tainted' = TRUE
      /\ UNCHANGED <<tick, sqrtPrice, liquidity, feeGrowth, positions, unclaimed>>
  BY Zenon DEF SwapStep
<1>2. next.tick \in Ticks /\ (next.initialized => next.tick \in DOMAIN ticks)
  BY StepTickType
<1>3. swap.tick \in PoolTicks /\ swap.sqrtPrice \in Prices /\ swap.zeroForOne \in BOOLEAN
  BY DEF TypeOK, SwapLocals
<1>4. moved \in PoolTicks /\ Tracks(moved, price)
  <2> HIDE DEF next
  <2> QED BY <1>2, <1>3, TickAfterStepTracks
<1>5. fee \in Nat
  BY <1>1, DataAssumption DEF InToken, Tokens
<1>6. MapOf(ticks', Ticks, TickInfos)
  <2> HIDE DEF next, growth
  <2>1. CASE crosses
    BY <1>1, <1>2, <2>1, FlipOutsideType
  <2>2. CASE ~crosses
    BY <1>1, <2>2 DEF TypeOK
  <2> QED BY <2>1, <2>2
<1> HIDE DEF next, target, growth, net, after, moved, crosses
<1>7. /\ swap' \in SwapLocals /\ Tracks(swap'.tick, swap'.sqrtPrice) /\ tainted' \in BOOLEAN
  <2>1. CASE after \in 0 .. U128Max
    <3>1. /\ swap' = [swap EXCEPT
               !.sqrtPrice = price, !.liquidity = after, !.growth = growth,
               !.remaining = ~exhausted, !.crossed = @ \/ crosses,
               !.charged = @ + fee, !.tick = moved]
          /\ tainted' = tainted
      BY <1>1, <2>1
    <3>2. swap \in SwapLocals /\ tainted \in BOOLEAN /\ growth \in FeeGrowths
      BY <1>1 DEF TypeOK
    <3>3. swap.charged + fee \in Nat
      BY <1>5, <3>2 DEF SwapLocals
    <3>4. (swap.crossed \/ crosses) \in BOOLEAN /\ (~exhausted) \in BOOLEAN
      OBVIOUS
    <3>5. swap' \in SwapLocals
      BY <1>4, <2>1, <3>1, <3>2, <3>3, <3>4 DEF SwapLocals
    <3>6. swap'.tick = moved /\ swap'.sqrtPrice = price
      BY <3>1, <3>2 DEF SwapLocals
    <3> QED BY <1>4, <3>1, <3>2, <3>5, <3>6
  <2>2. CASE ~(after \in 0 .. U128Max)
    BY <1>1, <2>2, NoSwapOK
  <2> QED BY <2>1, <2>2
<1>8. UNCHANGED <<tick, sqrtPrice, liquidity, feeGrowth, positions, unclaimed>>
  BY <1>1
<1> QED BY <1>6, <1>7, <1>8 DEF TypeOK, Tracks

LEMMA SwapCommitInv ==
  ASSUME PoolInv, SwapCommit
  PROVE  PoolInv'
<1>1. swap \in SwapLocals
  BY DEF PoolInv, TypeOK
<1>2. /\ tick' \in PoolTicks /\ sqrtPrice' \in Prices /\ liquidity' \in 0 .. U128Max
      /\ Tracks(tick', sqrtPrice')
  BY <1>1 DEF PoolInv, SwapCommit, SwapLocals
<1>3. feeGrowth' \in [Tokens -> FeeGrowths]
  BY <1>1 DEF PoolInv, TypeOK, SwapCommit, SwapLocals
<1>4. unclaimed' \in [Tokens -> Int]
  <2>1. swap.charged \in Int
    BY <1>1 DEF SwapLocals
  <2>2. /\ unclaimed \in [Tokens -> Int]
        /\ unclaimed' = [unclaimed EXCEPT ![InToken(swap.zeroForOne)] = @ + swap.charged]
    BY DEF PoolInv, TypeOK, SwapCommit
  <2>3. ASSUME NEW i \in Tokens PROVE unclaimed[i] + swap.charged \in Int
    BY <2>1, <2>2
  <2> QED BY <2>2, <2>3
<1>5. swap' \in SwapLocals /\ Tracks(swap'.tick, swap'.sqrtPrice)
  BY NoSwapOK DEF SwapCommit
<1>6. UNCHANGED <<ticks, positions, tainted>>
  BY DEF SwapCommit
<1> QED BY <1>2, <1>3, <1>4, <1>5, <1>6 DEF PoolInv, TypeOK, Tracks

LEMMA SwapFailInv ==
  ASSUME PoolInv, SwapFail
  PROVE  PoolInv'
<1>1. swap' \in SwapLocals /\ Tracks(swap'.tick, swap'.sqrtPrice)
  BY NoSwapOK DEF SwapFail
<1>2. tainted' \in BOOLEAN
  <2>1. tainted' = (tainted \/ swap.crossed)
    BY DEF SwapFail
  <2> QED BY <2>1
<1>3. UNCHANGED <<tick, sqrtPrice, liquidity, feeGrowth, ticks, positions, unclaimed>>
  BY DEF SwapFail
<1> QED BY <1>1, <1>2, <1>3 DEF PoolInv, TypeOK, Tracks

LEMMA NextInv == PoolInv /\ [Next]_vars => PoolInv'
<1> SUFFICES ASSUME PoolInv, [Next]_vars PROVE PoolInv'
  OBVIOUS
<1>1. ASSUME NEW owner \in Owners, NEW r \in Ranges, NEW delta \in Deltas,
             ModifyLiquidity(owner, r[1], r[2], delta)
      PROVE  PoolInv'
  <2>1. r[1] \in Ticks /\ r[2] \in Ticks /\ delta \in Int
    BY DataAssumption
  <2> QED BY <1>1, <2>1, ModifyLiquidityInv
<1>2. ASSUME NEW zeroForOne \in BOOLEAN, NEW limit \in Limits, SwapBegin(zeroForOne, limit)
      PROVE  PoolInv'
  BY <1>2, SwapBeginInv
<1>3. ASSUME NEW price \in Prices, NEW fee, NEW exhausted \in BOOLEAN,
             SwapStep(price, fee, exhausted)
      PROVE  PoolInv'
  BY <1>3, SwapStepInv
<1>4. CASE SwapCommit
  BY <1>4, SwapCommitInv
<1>5. CASE SwapFail
  BY <1>5, SwapFailInv
<1>6. CASE UNCHANGED vars
  BY <1>6 DEF vars, PoolInv, TypeOK, Tracks
<1> QED BY <1>1, <1>2, <1>3, <1>4, <1>5, <1>6 DEF Next

-----------------------------------------------------------------------------
\* Whatever the grid, prices and bounds: every value the pool stores or holds
\* during a swap keeps its type, on every path, failed calls included.
THEOREM TypeCorrect == Spec => []TypeOK
<1>1. PoolInv => TypeOK
  BY DEF PoolInv
<1> QED BY <1>1, InitInv, NextInv, PTL DEF Spec

\* On every grid the tick is the floor tick of the price or, at the price of
\* a tick just crossed downward, the tick below.
THEOREM TickTracks == Spec => []TickTracksPrice
<1>1. PoolInv => TickTracksPrice
  BY DEF PoolInv, TickTracksPrice, Current
<1> QED BY <1>1, InitInv, NextInv, PTL DEF Spec

-----------------------------------------------------------------------------
(* The ledger: the liquidity of the ticks is that of the positions, the active  *)
(* liquidity that of the ticks                                                  *)

Keys == Owners \X Ticks \X Ticks

\* What tick t counts, nothing when it is not initialized.
GrossAt(tks, t) == IF t \in DOMAIN tks THEN tks[t].gross ELSE 0
NetAt(tks, t) == IF t \in DOMAIN tks THEN tks[t].net ELSE 0

\* The net liquidity of the ticks up to t.
NetBelow(tks, t) ==
  SumFunctionOnSet([u \in DOMAIN tks |-> tks[u].net], {u \in DOMAIN tks : u <= t})

\* The liquidity of the positions among K.
Held(pos, K) ==
  SumFunctionOnSet([k \in DOMAIN pos |-> pos[k].liquidity], {k \in DOMAIN pos : k \in K})

From(t) == {k \in Keys : k[2] = t}
To(t) == {k \in Keys : k[3] = t}
Across(t) == {k \in Keys : k[2] <= t /\ t < k[3]}

\* Each tick counts the positions that begin or end there, and is initialized
\* only while there are any; up to each tick the net liquidity is that of the
\* positions whose range it lies in.
Ledger(tks, pos) ==
  /\ \A t \in DOMAIN tks : tks[t].gross # 0
  /\ \A t \in Ticks : /\ GrossAt(tks, t) = Held(pos, From(t)) + Held(pos, To(t))
                      /\ NetAt(tks, t) = Held(pos, From(t)) - Held(pos, To(t))
  /\ \A t \in Int : NetBelow(tks, t) = Held(pos, Across(t))

\* A map of positions with finitely many entries.
Positions(pos) == MapOf(pos, Keys, PositionStates) /\ IsFiniteSet(DOMAIN pos)

-----------------------------------------------------------------------------
(* Sums over ticks and positions                                               *)

LEMMA TicksFinite ==
  ASSUME NEW tks, MapOf(tks, Ticks, TickInfos)
  PROVE  IsFiniteSet(DOMAIN tks)
<1>1. IsFiniteSet(Ticks)
  BY FS_Interval, TickAssumption DEF Ticks
<1> QED BY <1>1, FS_Subset DEF MapOf

LEMMA TickValues ==
  ASSUME NEW tks, MapOf(tks, Ticks, TickInfos), NEW t \in Int
  PROVE  GrossAt(tks, t) \in Nat /\ NetAt(tks, t) \in Int /\ NetBelow(tks, t) \in Int
<1>1. \A u \in DOMAIN tks : tks[u].gross \in Nat /\ tks[u].net \in Int
  BY DataAssumption DEF MapOf, TickInfos
<1>2. IsFiniteSet({u \in DOMAIN tks : u <= t})
  BY TicksFinite, FS_Subset
<1>3. NetBelow(tks, t) \in Int
  BY <1>1, <1>2, SumType DEF NetBelow
<1> QED BY <1>1, <1>3 DEF GrossAt, NetAt

LEMMA HeldType ==
  ASSUME NEW pos, Positions(pos), NEW K
  PROVE  Held(pos, K) \in Nat
<1>1. \A k \in DOMAIN pos : pos[k].liquidity \in Nat
  BY DataAssumption DEF Positions, MapOf, PositionStates
<1>2. IsFiniteSet({k \in DOMAIN pos : k \in K})
  BY FS_Subset DEF Positions
<1> QED BY <1>1, <1>2, SumNatural DEF Held

\* What is added to one position is added to every sum it is part of.
LEMMA HeldChange ==
  ASSUME NEW pos, Positions(pos), NEW new, Positions(new), NEW key, NEW K, NEW delta \in Int,
         DOMAIN new = DOMAIN pos \cup {key},
         \A k \in DOMAIN pos \ {key} : new[k].liquidity = pos[k].liquidity,
         new[key].liquidity = (IF key \in DOMAIN pos THEN pos[key].liquidity ELSE 0) + delta
  PROVE  Held(new, K) = Held(pos, K) + IF key \in K THEN delta ELSE 0
<1> DEFINE f == [k \in DOMAIN pos |-> pos[k].liquidity]
           g == [k \in DOMAIN new |-> new[k].liquidity]
<1>1. /\ DOMAIN f = DOMAIN pos /\ DOMAIN g = DOMAIN new /\ IsFiniteSet(DOMAIN f) /\ IsFiniteSet(DOMAIN g)
      /\ (\A k \in DOMAIN f : f[k] \in Int) /\ (\A k \in DOMAIN g : g[k] \in Int)
  BY DataAssumption DEF Positions, MapOf, PositionStates
<1>2. DOMAIN g \ {key} = DOMAIN f \ {key} /\ \A k \in DOMAIN f \ {key} : g[k] = f[k]
  OBVIOUS
<1>3. /\ {k \in DOMAIN pos : k \in K} = DOMAIN f \cap K
      /\ {k \in DOMAIN new : k \in K} = DOMAIN g \cap K
  OBVIOUS
<1>4. /\ key \in DOMAIN g
      /\ g[key] = (IF key \in DOMAIN f THEN f[key] ELSE 0) + delta
  OBVIOUS
<1>5. Held(pos, K) = SumFunctionOnSet(f, DOMAIN f \cap K)
      /\ Held(new, K) = SumFunctionOnSet(g, DOMAIN g \cap K)
  BY <1>3 DEF Held
<1> HIDE DEF f, g
<1>6. SumFunctionOnSet(g, DOMAIN g \cap K) =
        SumFunctionOnSet(f, DOMAIN f \cap K)
          + IF key \in K THEN (IF key \in DOMAIN g THEN g[key] ELSE 0)
                                - (IF key \in DOMAIN f THEN f[key] ELSE 0) ELSE 0
  BY <1>1, <1>2, SumEntry
<1>7. SumFunctionOnSet(f, DOMAIN f \cap K) \in Int
  BY <1>5, HeldType
<1>8. key \in DOMAIN f => f[key] \in Int
  BY <1>1
<1> QED BY <1>4, <1>5, <1>6, <1>7, <1>8

\* The same of a tick and the sums over ticks.
LEMMA NetBelowChange ==
  ASSUME NEW tks, MapOf(tks, Ticks, TickInfos), NEW new, MapOf(new, Ticks, TickInfos),
         NEW x \in Ticks, NEW t \in Int,
         DOMAIN new \ {x} = DOMAIN tks \ {x},
         \A u \in DOMAIN tks \ {x} : new[u] = tks[u]
  PROVE  NetBelow(new, t) = NetBelow(tks, t) + IF x <= t THEN NetAt(new, x) - NetAt(tks, x) ELSE 0
<1> DEFINE f == [u \in DOMAIN tks |-> tks[u].net]
           g == [u \in DOMAIN new |-> new[u].net]
           K == {u \in Ticks : u <= t}
<1>1. /\ DOMAIN f = DOMAIN tks /\ DOMAIN g = DOMAIN new
      /\ (\A u \in DOMAIN f : f[u] \in Int) /\ (\A u \in DOMAIN g : g[u] \in Int)
  BY DataAssumption DEF MapOf, TickInfos
<1>2. DOMAIN g \ {x} = DOMAIN f \ {x} /\ \A u \in DOMAIN f \ {x} : g[u] = f[u]
  OBVIOUS
<1>3. /\ {u \in DOMAIN tks : u <= t} = DOMAIN f \cap K
      /\ {u \in DOMAIN new : u <= t} = DOMAIN g \cap K
  BY DEF MapOf
<1>4. /\ NetAt(new, x) = IF x \in DOMAIN g THEN g[x] ELSE 0
      /\ NetAt(tks, x) = IF x \in DOMAIN f THEN f[x] ELSE 0
  BY DEF NetAt
<1>5. NetBelow(tks, t) = SumFunctionOnSet(f, DOMAIN f \cap K)
      /\ NetBelow(new, t) = SumFunctionOnSet(g, DOMAIN g \cap K)
  BY <1>3 DEF NetBelow
<1>6. x \in K <=> x <= t
  OBVIOUS
<1>7. IsFiniteSet(DOMAIN f) /\ IsFiniteSet(DOMAIN g)
  BY <1>1, TicksFinite
<1> HIDE DEF f, g, K
<1>8. SumFunctionOnSet(g, DOMAIN g \cap K) =
        SumFunctionOnSet(f, DOMAIN f \cap K)
          + IF x \in K THEN (IF x \in DOMAIN g THEN g[x] ELSE 0)
                              - (IF x \in DOMAIN f THEN f[x] ELSE 0) ELSE 0
  BY <1>1, <1>2, <1>7, SumEntry
<1> QED BY <1>4, <1>5, <1>6, <1>8

-----------------------------------------------------------------------------
(* modify_liquidity                                                            *)

\* The net liquidity a boundary of a range gets.
Signed(upper, delta) == IF upper THEN -delta ELSE delta

\* update_tick, when it does not fail, changes the one tick.
LEMMA UpdateTickEffect ==
  ASSUME NEW tks, MapOf(tks, Ticks, TickInfos), NEW t \in Ticks, NEW delta \in Int,
         NEW upper \in BOOLEAN, NEW r, r = UpdateTick(tks, t, delta, upper), r.ok
  PROVE  /\ DOMAIN r.ticks \ {t} = DOMAIN tks \ {t}
         /\ \A u \in DOMAIN tks \ {t} : r.ticks[u] = tks[u]
         /\ GrossAt(r.ticks, t) = GrossAt(tks, t) + delta
         /\ t \in DOMAIN r.ticks <=> GrossAt(tks, t) + delta # 0
         /\ GrossAt(tks, t) + delta = 0 => NetAt(r.ticks, t) = 0
         /\ GrossAt(tks, t) + delta # 0 => NetAt(r.ticks, t) = NetAt(tks, t) + Signed(upper, delta)
         /\ t \in DOMAIN r.ticks =>
              r.ticks[t].outside = IF GrossAt(tks, t) = 0 /\ t <= tick THEN feeGrowth
                                   ELSE IF t \in DOMAIN tks THEN tks[t].outside ELSE NewTick.outside
         /\ t \in DOMAIN r.ticks => r.outside = r.ticks[t].outside
         /\ GrossAt(tks, t) # 0 => r.outside = tks[t].outside
         /\ delta > 0 => GrossAt(r.ticks, t) <= MaxLiquidityPerTick
<1> DEFINE before   == IF t \in DOMAIN tks THEN tks[t] ELSE NewTick
           inserted == [u \in DOMAIN tks \cup {t} |-> IF u = t THEN before ELSE tks[u]]
           gross    == before.gross + delta
           net      == IF upper THEN before.net - delta ELSE before.net + delta
           outside  == IF before.gross = 0 /\ t <= tick THEN feeGrowth ELSE before.outside
           info     == [gross |-> gross, net |-> net, outside |-> outside]
           fits     == TickFits(gross, net, delta)
           rest     == Restrict(tks, DOMAIN tks \ {t})
           put      == [inserted EXCEPT ![t] = info]
<1>1. r = CASE ~fits -> [ok |-> FALSE, ticks |-> inserted, outside |-> before.outside]
            [] fits /\ gross = 0
                 -> [ok |-> TRUE, ticks |-> rest, outside |-> before.outside]
            [] OTHER
                 -> [ok |-> TRUE, ticks |-> put, outside |-> info.outside]
  BY Zenon DEF UpdateTick
<1>2. before.gross = GrossAt(tks, t) /\ before.net = NetAt(tks, t)
      /\ before.outside = IF t \in DOMAIN tks THEN tks[t].outside ELSE NewTick.outside
  BY DEF NewTick, GrossAt, NetAt
<1>3. before.gross \in Int /\ before.net \in Int
  <2>1. t \in Int
    BY TickAssumption DEF Ticks
  <2>2. GrossAt(tks, t) \in Nat /\ NetAt(tks, t) \in Int
    BY <2>1, TickValues
  <2> HIDE DEF before
  <2> QED BY <1>2, <2>2
<1>4. /\ DOMAIN rest = DOMAIN tks \ {t} /\ \A u \in DOMAIN tks \ {t} : rest[u] = tks[u]
      /\ DOMAIN put = DOMAIN tks \cup {t} /\ put[t] = info
      /\ \A u \in DOMAIN tks \ {t} : put[u] = tks[u]
  <2> HIDE DEF before, info
  <2> QED BY DEF Restrict
<1>5. fits
  <2> HIDE DEF fits, inserted, before
  <2> QED BY <1>1
<1>6. delta > 0 => gross <= MaxLiquidityPerTick
  BY <1>5 DEF TickFits
<1>7. CASE gross = 0
  <2>1. r.ticks = rest /\ t \notin DOMAIN rest
    <3> HIDE DEF fits, inserted, before, gross
    <3> QED BY <1>1, <1>4, <1>5, <1>7
  <2> HIDE DEF before, rest, fits, put
  <2>2. GrossAt(tks, t) + delta = 0
    BY <1>2, <1>7
  <2>3. GrossAt(rest, t) = 0 /\ NetAt(rest, t) = 0
    BY <2>1 DEF GrossAt, NetAt
  <2>4. delta > 0 => FALSE
    BY <1>2, <1>3, <2>2, TickValues DEF Ticks
  <2>5. r.outside = before.outside
    <3> HIDE DEF inserted, gross
    <3> QED BY <1>1, <1>5, <1>7 DEF fits
  <2>6. GrossAt(tks, t) # 0 => before.outside = tks[t].outside
    BY DEF GrossAt, before
  <2> QED BY <1>4, <2>1, <2>2, <2>3, <2>4, <2>5, <2>6
<1>8. CASE gross # 0
  <2>1. r.ticks = put /\ r.outside = outside
    <3> HIDE DEF fits, inserted, before, gross, put, outside, net
    <3> QED BY <1>1, <1>5, <1>8
  <2>2. GrossAt(put, t) = gross /\ NetAt(put, t) = net /\ put[t].outside = outside
    <3> HIDE DEF gross, net, outside, put
    <3> QED BY <1>4 DEF GrossAt, NetAt
  <2>3. DOMAIN put \ {t} = DOMAIN tks \ {t} /\ t \in DOMAIN put
    BY <1>4
  <2>4. net = NetAt(tks, t) + Signed(upper, delta)
    <3> HIDE DEF before
    <3> QED BY <1>2, <1>3 DEF Signed
  <2>5. put[t].outside = IF GrossAt(tks, t) = 0 /\ t <= tick THEN feeGrowth
                         ELSE IF t \in DOMAIN tks THEN tks[t].outside ELSE NewTick.outside
    <3> HIDE DEF before, put
    <3> QED BY <1>2, <2>2
  <2>6. gross = GrossAt(tks, t) + delta
    <3> HIDE DEF before
    <3> QED BY <1>2
  <2>7. GrossAt(tks, t) # 0 => outside = tks[t].outside
    BY <1>2 DEF GrossAt
  <2> HIDE DEF put, rest, fits, before, gross, net, outside
  <2> QED BY <1>4, <1>6, <1>8, <2>1, <2>2, <2>3, <2>4, <2>5, <2>6, <2>7
<1> QED BY <1>3, <1>7, <1>8

\* Both boundaries of a range.
LEMMA UpdateTicksEffect ==
  ASSUME TypeOK, NEW lo \in Ticks, NEW hi \in Ticks, lo < hi, NEW delta \in Int, delta # 0,
         UpdateTicks(lo, hi, delta).ok
  PROVE  LET new == UpdateTicks(lo, hi, delta).ticks
         IN  /\ MapOf(new, Ticks, TickInfos)
             /\ DOMAIN new \ {lo, hi} = DOMAIN ticks \ {lo, hi}
             /\ \A u \in DOMAIN ticks \ {lo, hi} : new[u] = ticks[u]
             /\ \A t \in {lo, hi} : /\ GrossAt(new, t) = GrossAt(ticks, t) + delta
                                    /\ t \in DOMAIN new <=> GrossAt(new, t) # 0
             /\ NetAt(new, lo) = IF GrossAt(new, lo) = 0 THEN 0 ELSE NetAt(ticks, lo) + delta
             /\ NetAt(new, hi) = IF GrossAt(new, hi) = 0 THEN 0 ELSE NetAt(ticks, hi) - delta
             /\ \A t \in Int : NetBelow(new, t) =
                  NetBelow(ticks, t)
                    + (IF lo <= t THEN NetAt(new, lo) - NetAt(ticks, lo) ELSE 0)
                    + (IF hi <= t THEN NetAt(new, hi) - NetAt(ticks, hi) ELSE 0)
             /\ \A t \in {lo, hi} : t \in DOMAIN new =>
                  new[t].outside = IF GrossAt(ticks, t) = 0 /\ t <= tick THEN feeGrowth
                                   ELSE IF t \in DOMAIN ticks THEN ticks[t].outside
                                   ELSE NewTick.outside
             /\ lo \in DOMAIN new => UpdateTicks(lo, hi, delta).outLo = new[lo].outside
             /\ hi \in DOMAIN new => UpdateTicks(lo, hi, delta).outHi = new[hi].outside
             /\ GrossAt(ticks, lo) # 0 => UpdateTicks(lo, hi, delta).outLo = ticks[lo].outside
             /\ GrossAt(ticks, hi) # 0 => UpdateTicks(lo, hi, delta).outHi = ticks[hi].outside
             /\ delta > 0 => \A t \in {lo, hi} : GrossAt(new, t) <= MaxLiquidityPerTick
<1> DEFINE dn   == FALSE
           up   == TRUE
           low  == UpdateTick(ticks, lo, delta, dn)
           high == UpdateTick(low.ticks, hi, delta, up)
           mid  == low.ticks
           new  == high.ticks
<1>1. MapOf(ticks, Ticks, TickInfos) /\ feeGrowth \in [Tokens -> FeeGrowths]
      /\ lo \in Int /\ hi \in Int
  BY TickAssumption DEF TypeOK, Ticks
<1>2. /\ UpdateTicks(lo, hi, delta).ticks = new
      /\ UpdateTicks(lo, hi, delta).outLo = low.outside
      /\ UpdateTicks(lo, hi, delta).outHi = high.outside
      /\ low.ok /\ high.ok
  <2> DEFINE out(t) == IF t \in DOMAIN ticks THEN ticks[t].outside ELSE NewTick.outside
  <2>1. UpdateTicks(lo, hi, delta) =
          CASE delta = 0 -> [ok |-> TRUE, ticks |-> ticks, outLo |-> out(lo), outHi |-> out(hi)]
            [] delta # 0 /\ ~low.ok -> [ok |-> FALSE, ticks |-> low.ticks]
            [] OTHER -> [ok |-> high.ok, ticks |-> high.ticks,
                         outLo |-> low.outside, outHi |-> high.outside]
    BY Zenon DEF UpdateTicks
  <2> HIDE DEF low, high, out
  <2> QED BY <2>1 DEF new
<1>3. MapOf(mid, Ticks, TickInfos)
  BY <1>1, UpdateTickType
<1>4. MapOf(new, Ticks, TickInfos)
  <2> HIDE DEF low
  <2> QED BY <1>1, <1>3, UpdateTickType
<1>5. /\ DOMAIN mid \ {lo} = DOMAIN ticks \ {lo}
      /\ \A u \in DOMAIN ticks \ {lo} : mid[u] = ticks[u]
      /\ GrossAt(mid, lo) = GrossAt(ticks, lo) + delta
      /\ lo \in DOMAIN mid <=> GrossAt(ticks, lo) + delta # 0
      /\ NetAt(mid, lo) = IF GrossAt(ticks, lo) + delta = 0 THEN 0 ELSE NetAt(ticks, lo) + delta
      /\ lo \in DOMAIN mid =>
           mid[lo].outside = IF GrossAt(ticks, lo) = 0 /\ lo <= tick THEN feeGrowth
                             ELSE IF lo \in DOMAIN ticks THEN ticks[lo].outside ELSE NewTick.outside
      /\ lo \in DOMAIN mid => low.outside = mid[lo].outside
      /\ GrossAt(ticks, lo) # 0 => low.outside = ticks[lo].outside
      /\ delta > 0 => GrossAt(mid, lo) <= MaxLiquidityPerTick
  <2>1. low = UpdateTick(ticks, lo, delta, dn) /\ low.ok /\ MapOf(ticks, Ticks, TickInfos)
    BY <1>1, <1>2
  <2>4. dn \in BOOLEAN /\ Signed(dn, delta) = delta
    BY DEF Signed
  <2> HIDE DEF low, dn
  <2>2. GrossAt(ticks, lo) \in Nat /\ NetAt(ticks, lo) \in Int
    BY <1>1, TickValues
  <2>3. /\ DOMAIN low.ticks \ {lo} = DOMAIN ticks \ {lo}
        /\ \A u \in DOMAIN ticks \ {lo} : low.ticks[u] = ticks[u]
        /\ GrossAt(low.ticks, lo) = GrossAt(ticks, lo) + delta
        /\ lo \in DOMAIN low.ticks <=> GrossAt(ticks, lo) + delta # 0
        /\ GrossAt(ticks, lo) + delta = 0 => NetAt(low.ticks, lo) = 0
        /\ GrossAt(ticks, lo) + delta # 0 => NetAt(low.ticks, lo) = NetAt(ticks, lo) + Signed(dn, delta)
        /\ lo \in DOMAIN low.ticks =>
             low.ticks[lo].outside = IF GrossAt(ticks, lo) = 0 /\ lo <= tick THEN feeGrowth
                               ELSE IF lo \in DOMAIN ticks THEN ticks[lo].outside ELSE NewTick.outside
        /\ lo \in DOMAIN low.ticks => low.outside = low.ticks[lo].outside
        /\ GrossAt(ticks, lo) # 0 => low.outside = ticks[lo].outside
        /\ delta > 0 => GrossAt(low.ticks, lo) <= MaxLiquidityPerTick
    BY <2>1, <2>4, UpdateTickEffect
  <2> QED BY <2>2, <2>3, <2>4
<1>6. /\ DOMAIN new \ {hi} = DOMAIN mid \ {hi}
      /\ \A u \in DOMAIN mid \ {hi} : new[u] = mid[u]
      /\ GrossAt(new, hi) = GrossAt(mid, hi) + delta
      /\ hi \in DOMAIN new <=> GrossAt(mid, hi) + delta # 0
      /\ NetAt(new, hi) = IF GrossAt(mid, hi) + delta = 0 THEN 0 ELSE NetAt(mid, hi) - delta
      /\ hi \in DOMAIN new =>
           new[hi].outside = IF GrossAt(mid, hi) = 0 /\ hi <= tick THEN feeGrowth
                             ELSE IF hi \in DOMAIN mid THEN mid[hi].outside ELSE NewTick.outside
      /\ hi \in DOMAIN new => high.outside = new[hi].outside
      /\ GrossAt(mid, hi) # 0 => high.outside = mid[hi].outside
      /\ delta > 0 => GrossAt(new, hi) <= MaxLiquidityPerTick
  <2>1. high = UpdateTick(mid, hi, delta, up) /\ high.ok
    BY <1>2
  <2>2. GrossAt(mid, hi) \in Nat /\ NetAt(mid, hi) \in Int
    BY <1>1, <1>3, TickValues
  <2>4. up \in BOOLEAN /\ Signed(up, delta) = -delta
    BY DEF Signed
  <2> HIDE DEF low, mid, high, up
  <2>3. /\ DOMAIN high.ticks \ {hi} = DOMAIN mid \ {hi}
        /\ \A u \in DOMAIN mid \ {hi} : high.ticks[u] = mid[u]
        /\ GrossAt(high.ticks, hi) = GrossAt(mid, hi) + delta
        /\ hi \in DOMAIN high.ticks <=> GrossAt(mid, hi) + delta # 0
        /\ GrossAt(mid, hi) + delta = 0 => NetAt(high.ticks, hi) = 0
        /\ GrossAt(mid, hi) + delta # 0 => NetAt(high.ticks, hi) = NetAt(mid, hi) + Signed(up, delta)
        /\ hi \in DOMAIN high.ticks =>
             high.ticks[hi].outside = IF GrossAt(mid, hi) = 0 /\ hi <= tick THEN feeGrowth
                               ELSE IF hi \in DOMAIN mid THEN mid[hi].outside ELSE NewTick.outside
        /\ hi \in DOMAIN high.ticks => high.outside = high.ticks[hi].outside
        /\ GrossAt(mid, hi) # 0 => high.outside = mid[hi].outside
        /\ delta > 0 => GrossAt(high.ticks, hi) <= MaxLiquidityPerTick
    BY <1>3, <2>1, <2>4, UpdateTickEffect
  <2> QED BY <2>2, <2>3, <2>4 DEF new
<1>7. ASSUME NEW t \in Int
      PROVE  NetBelow(new, t) = NetBelow(ticks, t)
               + (IF lo <= t THEN NetAt(mid, lo) - NetAt(ticks, lo) ELSE 0)
               + (IF hi <= t THEN NetAt(new, hi) - NetAt(mid, hi) ELSE 0)
  <2> HIDE DEF mid, new
  <2>1. NetBelow(mid, t) = NetBelow(ticks, t)
                             + IF lo <= t THEN NetAt(mid, lo) - NetAt(ticks, lo) ELSE 0
    BY <1>1, <1>3, <1>5, NetBelowChange
  <2>2. NetBelow(new, t) = NetBelow(mid, t)
                             + IF hi <= t THEN NetAt(new, hi) - NetAt(mid, hi) ELSE 0
    BY <1>3, <1>4, <1>6, NetBelowChange
  <2>3. NetBelow(ticks, t) \in Int /\ NetAt(mid, lo) \in Int /\ NetAt(ticks, lo) \in Int
        /\ NetAt(new, hi) \in Int /\ NetAt(mid, hi) \in Int
    BY <1>1, <1>3, <1>4, TickValues
  <2> QED BY <2>1, <2>2, <2>3
<1>8. lo # hi
  BY <1>1
<1>9. /\ lo \in DOMAIN new <=> lo \in DOMAIN mid
      /\ lo \in DOMAIN mid => new[lo] = mid[lo]
      /\ hi \in DOMAIN mid <=> hi \in DOMAIN ticks
      /\ hi \in DOMAIN ticks => mid[hi] = ticks[hi]
      /\ DOMAIN new \ {lo, hi} = DOMAIN ticks \ {lo, hi}
      /\ \A u \in DOMAIN ticks \ {lo, hi} : new[u] = ticks[u]
  <2> HIDE DEF mid, new
  <2>1. lo \in DOMAIN new <=> lo \in DOMAIN mid
    BY <1>6, <1>8
  <2>2. hi \in DOMAIN mid <=> hi \in DOMAIN ticks
    BY <1>5, <1>8
  <2> QED BY <1>5, <1>6, <1>8, <2>1, <2>2
<1>10. /\ GrossAt(new, lo) = GrossAt(mid, lo) /\ NetAt(new, lo) = NetAt(mid, lo)
       /\ GrossAt(mid, hi) = GrossAt(ticks, hi) /\ NetAt(mid, hi) = NetAt(ticks, hi)
  <2> HIDE DEF mid, new
  <2> QED BY <1>9 DEF GrossAt, NetAt
<1> HIDE DEF mid, new, low, high
<1>11. \A t \in {lo, hi} : GrossAt(new, t) = GrossAt(ticks, t) + delta
  BY <1>5, <1>6, <1>10
<1>12. \A t \in {lo, hi} : t \in DOMAIN new <=> GrossAt(new, t) # 0
  BY <1>5, <1>6, <1>9, <1>10, <1>11
<1>13. \A t \in {lo, hi} : t \in DOMAIN new =>
         new[t].outside = IF GrossAt(ticks, t) = 0 /\ t <= tick THEN feeGrowth
                          ELSE IF t \in DOMAIN ticks THEN ticks[t].outside ELSE NewTick.outside
  <2>3. hi \in DOMAIN new =>
         new[hi].outside = IF GrossAt(ticks, hi) = 0 /\ hi <= tick THEN feeGrowth
                          ELSE IF hi \in DOMAIN ticks THEN ticks[hi].outside ELSE NewTick.outside
    BY <1>6, <1>9, <1>10
  <2>4. lo \in DOMAIN new =>
         new[lo].outside = IF GrossAt(ticks, lo) = 0 /\ lo <= tick THEN feeGrowth
                          ELSE IF lo \in DOMAIN ticks THEN ticks[lo].outside ELSE NewTick.outside
    BY <1>5, <1>9
  <2> QED BY <2>3, <2>4
<1>14. (lo \in DOMAIN new => low.outside = new[lo].outside)
       /\ (hi \in DOMAIN new => high.outside = new[hi].outside)
  BY <1>5, <1>6, <1>9
<1>18. /\ GrossAt(ticks, lo) # 0 => low.outside = ticks[lo].outside
       /\ GrossAt(ticks, hi) # 0 => high.outside = ticks[hi].outside
  <2>1. GrossAt(ticks, hi) # 0 => hi \in DOMAIN ticks
    BY DEF GrossAt
  <2> QED BY <1>5, <1>6, <1>9, <1>10, <2>1
<1>15. delta > 0 => \A t \in {lo, hi} : GrossAt(new, t) <= MaxLiquidityPerTick
  BY <1>5, <1>6, <1>10
<1>16. /\ NetAt(new, lo) = IF GrossAt(new, lo) = 0 THEN 0 ELSE NetAt(ticks, lo) + delta
       /\ NetAt(new, hi) = IF GrossAt(new, hi) = 0 THEN 0 ELSE NetAt(ticks, hi) - delta
  BY <1>5, <1>6, <1>10
<1>17. \A t \in Int : NetBelow(new, t) =
         NetBelow(ticks, t)
           + (IF lo <= t THEN NetAt(new, lo) - NetAt(ticks, lo) ELSE 0)
           + (IF hi <= t THEN NetAt(new, hi) - NetAt(ticks, hi) ELSE 0)
  BY <1>7, <1>10
<1> QED BY <1>2, <1>4, <1>9, <1>11, <1>12, <1>13, <1>14, <1>15, <1>16, <1>17, <1>18

\* A change of both boundaries and of the position keeps the ledger.
LEMMA ModifyLedger ==
  ASSUME TypeOK, Positions(positions), Ledger(ticks, positions),
         NEW key \in Keys, key[2] < key[3], NEW delta \in Int, delta # 0,
         UpdateTicks(key[2], key[3], delta).ok,
         NEW new, new = UpdateTicks(key[2], key[3], delta).ticks,
         NEW pos, Positions(pos), DOMAIN pos = DOMAIN positions \cup {key},
         \A k \in DOMAIN positions \ {key} : pos[k].liquidity = positions[k].liquidity,
         pos[key].liquidity = (IF key \in DOMAIN positions THEN positions[key].liquidity ELSE 0) + delta
  PROVE  /\ Ledger(new, pos)
         /\ \A t \in Int : NetBelow(new, t) =
              NetBelow(ticks, t) + IF key[2] <= t /\ t < key[3] THEN delta ELSE 0
<1> DEFINE lo == key[2]
           hi == key[3]
<1>1. lo \in Ticks /\ hi \in Ticks /\ lo \in Int /\ hi \in Int /\ lo < hi
  BY TickAssumption DEF Keys, Ticks
<1>2. /\ MapOf(new, Ticks, TickInfos)
      /\ DOMAIN new \ {lo, hi} = DOMAIN ticks \ {lo, hi}
      /\ \A u \in DOMAIN ticks \ {lo, hi} : new[u] = ticks[u]
      /\ \A t \in {lo, hi} : /\ GrossAt(new, t) = GrossAt(ticks, t) + delta
                             /\ t \in DOMAIN new <=> GrossAt(new, t) # 0
      /\ NetAt(new, lo) = IF GrossAt(new, lo) = 0 THEN 0 ELSE NetAt(ticks, lo) + delta
      /\ NetAt(new, hi) = IF GrossAt(new, hi) = 0 THEN 0 ELSE NetAt(ticks, hi) - delta
      /\ \A t \in Int : NetBelow(new, t) =
           NetBelow(ticks, t)
             + (IF lo <= t THEN NetAt(new, lo) - NetAt(ticks, lo) ELSE 0)
             + (IF hi <= t THEN NetAt(new, hi) - NetAt(ticks, hi) ELSE 0)
  BY <1>1, UpdateTicksEffect
<1>3. MapOf(ticks, Ticks, TickInfos)
  BY DEF TypeOK
<1>4. \A K : Held(pos, K) = Held(positions, K) + IF key \in K THEN delta ELSE 0
  <2> SUFFICES ASSUME NEW K
               PROVE  Held(pos, K) = Held(positions, K) + IF key \in K THEN delta ELSE 0
    OBVIOUS
  <2> QED BY HeldChange
<1>5. \A K : Held(pos, K) \in Nat /\ Held(positions, K) \in Nat
  BY HeldType
<1>6. ASSUME NEW t
      PROVE  /\ key \in From(t) <=> lo = t
             /\ key \in To(t) <=> hi = t
             /\ key \in Across(t) <=> lo <= t /\ t < hi
  BY DEF From, To, Across
<1> HIDE DEF lo, hi
<1>7. ASSUME NEW t \in Ticks
      PROVE  /\ GrossAt(new, t) = Held(pos, From(t)) + Held(pos, To(t))
             /\ NetAt(new, t) = Held(pos, From(t)) - Held(pos, To(t))
  <2>1. /\ GrossAt(ticks, t) = Held(positions, From(t)) + Held(positions, To(t))
        /\ NetAt(ticks, t) = Held(positions, From(t)) - Held(positions, To(t))
    BY DEF Ledger
  <2>2. /\ Held(pos, From(t)) = Held(positions, From(t)) + IF lo = t THEN delta ELSE 0
        /\ Held(pos, To(t)) = Held(positions, To(t)) + IF hi = t THEN delta ELSE 0
    BY <1>4, <1>6
  <2>3. /\ Held(pos, From(t)) \in Nat /\ Held(pos, To(t)) \in Nat
        /\ Held(positions, From(t)) \in Nat /\ Held(positions, To(t)) \in Nat
    BY <1>5
  <2>4. CASE t = lo
    <3>1. GrossAt(new, t) = GrossAt(ticks, t) + delta
          /\ NetAt(new, t) = IF GrossAt(new, t) = 0 THEN 0 ELSE NetAt(ticks, t) + delta
      BY <1>2, <2>4
    <3>2. hi # t
      BY <1>1, <2>4
    <3> QED BY <2>1, <2>2, <2>3, <2>4, <3>1, <3>2
  <2>5. CASE t = hi
    <3>1. GrossAt(new, t) = GrossAt(ticks, t) + delta
          /\ NetAt(new, t) = IF GrossAt(new, t) = 0 THEN 0 ELSE NetAt(ticks, t) - delta
      BY <1>2, <2>5
    <3>2. lo # t
      BY <1>1, <2>5
    <3> QED BY <2>1, <2>2, <2>3, <2>5, <3>1, <3>2
  <2>6. CASE t \notin {lo, hi}
    <3>1. GrossAt(new, t) = GrossAt(ticks, t) /\ NetAt(new, t) = NetAt(ticks, t)
      BY <1>2, <2>6 DEF GrossAt, NetAt
    <3> QED BY <2>1, <2>2, <2>3, <2>6, <3>1
  <2> QED BY <2>4, <2>5, <2>6
<1>8. NetAt(new, lo) = NetAt(ticks, lo) + delta /\ NetAt(new, hi) = NetAt(ticks, hi) - delta
  <2>1. NetAt(ticks, lo) = Held(positions, From(lo)) - Held(positions, To(lo))
        /\ NetAt(ticks, hi) = Held(positions, From(hi)) - Held(positions, To(hi))
    BY <1>1 DEF Ledger
  <2>2. /\ Held(pos, From(lo)) = Held(positions, From(lo)) + delta
        /\ Held(pos, To(lo)) = Held(positions, To(lo)) + 0
        /\ Held(pos, From(hi)) = Held(positions, From(hi)) + 0
        /\ Held(pos, To(hi)) = Held(positions, To(hi)) + delta
    BY <1>1, <1>4, <1>6
  <2>3. /\ Held(positions, From(lo)) \in Nat /\ Held(positions, To(lo)) \in Nat
        /\ Held(positions, From(hi)) \in Nat /\ Held(positions, To(hi)) \in Nat
    BY <1>5
  <2>4. NetAt(new, lo) = Held(pos, From(lo)) - Held(pos, To(lo))
        /\ NetAt(new, hi) = Held(pos, From(hi)) - Held(pos, To(hi))
    BY <1>1, <1>7
  <2> QED BY <2>1, <2>2, <2>3, <2>4
<1>9. ASSUME NEW t \in Int
      PROVE  /\ NetBelow(new, t) = NetBelow(ticks, t) + IF lo <= t /\ t < hi THEN delta ELSE 0
             /\ NetBelow(new, t) = Held(pos, Across(t))
  <2>1. NetBelow(ticks, t) = Held(positions, Across(t)) /\ NetBelow(ticks, t) \in Int
        /\ NetAt(ticks, lo) \in Int /\ NetAt(ticks, hi) \in Int
    BY <1>1, <1>3, TickValues DEF Ledger
  <2>2. NetBelow(new, t) = NetBelow(ticks, t) + IF lo <= t /\ t < hi THEN delta ELSE 0
    BY <1>1, <1>2, <1>8, <2>1
  <2>3. Held(pos, Across(t)) = Held(positions, Across(t)) + IF lo <= t /\ t < hi THEN delta ELSE 0
    BY <1>4, <1>6
  <2> QED BY <2>1, <2>2, <2>3
<1>10. ASSUME NEW t \in DOMAIN new PROVE new[t].gross # 0
  <2>1. CASE t \in {lo, hi}
    BY <1>2, <2>1 DEF GrossAt
  <2>2. CASE t \notin {lo, hi}
    BY <1>2, <2>2 DEF Ledger
  <2> QED BY <2>1, <2>2
<1> QED BY <1>7, <1>9, <1>10 DEF Ledger, lo, hi

\* The cap is a quotient of naturals.
LEMMA CapType ==
  /\ MaxLiquidityPerTick \in Nat
  /\ MaxTick \div Spacing - MinTick \div Spacing + 1 \in Nat \ {0}
<1> USE TickAssumption
<1> DEFINE hi == MaxTick \div Spacing
           lo == MinTick \div Spacing
<1>1. /\ MaxTick = Spacing * hi + (MaxTick % Spacing) /\ MaxTick % Spacing \in 0 .. Spacing - 1
      /\ MinTick = Spacing * lo + (MinTick % Spacing) /\ MinTick % Spacing \in 0 .. Spacing - 1
      /\ hi \in Int /\ lo \in Int
  <2>1. MaxTick \in Int /\ MinTick \in Int /\ Spacing \in Int /\ Spacing > 0
    OBVIOUS
  <2>2. \A x \in Int : /\ x = Spacing * (x \div Spacing) + (x % Spacing)
                       /\ x % Spacing \in 0 .. Spacing - 1 /\ x \div Spacing \in Int
    <3> TAKE x \in Int
    <3>1. x = Spacing * (x \div Spacing) + (x % Spacing) /\ x % Spacing \in 0 .. Spacing - 1
      BY <2>1, Remainder
    <3> QED BY <2>1, <3>1
  <2>3. /\ MaxTick = Spacing * (MaxTick \div Spacing) + (MaxTick % Spacing)
        /\ MaxTick % Spacing \in 0 .. Spacing - 1 /\ MaxTick \div Spacing \in Int
    BY <2>1, <2>2
  <2>4. /\ MinTick = Spacing * (MinTick \div Spacing) + (MinTick % Spacing)
        /\ MinTick % Spacing \in 0 .. Spacing - 1 /\ MinTick \div Spacing \in Int
    BY <2>1, <2>2
  <2> QED BY <2>3, <2>4
<1> HIDE DEF hi, lo
<1>2. Spacing * lo <= Spacing * hi + Spacing - 1
  <2> DEFINE a == Spacing * lo
             b == Spacing * hi
  <2>1. a \in Int /\ b \in Int
    BY <1>1
  <2>2. a <= MinTick /\ MaxTick <= b + Spacing - 1
    <3> DEFINE x == MinTick % Spacing
               y == MaxTick % Spacing
    <3>1. MinTick = a + x /\ MaxTick = b + y /\ x \in 0 .. Spacing - 1 /\ y \in 0 .. Spacing - 1
      BY <1>1
    <3> HIDE DEF a, b, x, y
    <3> QED BY <2>1, <3>1
  <2> HIDE DEF a, b
  <2>3. a <= b + Spacing - 1
    BY <2>1, <2>2
  <2> QED BY <2>3 DEF a, b
<1>3. lo <= hi
  <2> SUFFICES ASSUME hi + 1 <= lo PROVE FALSE
    BY <1>1
  <2>1. Spacing * hi + Spacing <= Spacing * lo
    BY <1>1
  <2>2. Spacing * hi \in Int /\ Spacing * lo \in Int
    BY <1>1
  <2> QED BY <1>2, <2>1, <2>2
<1>4. hi - lo + 1 \in Nat \ {0}
  BY <1>1, <1>3
<1>5. MaxLiquidityPerTick = U128Max \div (hi - lo + 1)
  BY DEF MaxLiquidityPerTick, hi, lo
<1>6. MaxLiquidityPerTick \in Nat
  BY <1>4, <1>5, DataAssumption
<1> QED BY <1>4, <1>6 DEF hi, lo

\* Every tick is aligned and holds no more than its share.
Capped(tks) == \A t \in DOMAIN tks : Aligned(t) /\ tks[t].gross <= MaxLiquidityPerTick

\* update_tick keeps it so, on its failing paths too.
LEMMA UpdateTickCapped ==
  ASSUME NEW tks, MapOf(tks, Ticks, TickInfos), Capped(tks), NEW t \in Ticks, Aligned(t),
         NEW delta \in Int, NEW upper \in BOOLEAN,
         NEW r, r = UpdateTick(tks, t, delta, upper)
  PROVE  Capped(r.ticks)
<1> DEFINE before   == IF t \in DOMAIN tks THEN tks[t] ELSE NewTick
           inserted == [u \in DOMAIN tks \cup {t} |-> IF u = t THEN before ELSE tks[u]]
           gross    == before.gross + delta
           net      == IF upper THEN before.net - delta ELSE before.net + delta
           outside  == IF before.gross = 0 /\ t <= tick THEN feeGrowth ELSE before.outside
           info     == [gross |-> gross, net |-> net, outside |-> outside]
           fits     == TickFits(gross, net, delta)
           rest     == Restrict(tks, DOMAIN tks \ {t})
           put      == [inserted EXCEPT ![t] = info]
<1>1. r = CASE ~fits -> [ok |-> FALSE, ticks |-> inserted, outside |-> before.outside]
            [] fits /\ gross = 0
                 -> [ok |-> TRUE, ticks |-> rest, outside |-> before.outside]
            [] OTHER
                 -> [ok |-> TRUE, ticks |-> put, outside |-> info.outside]
  BY Zenon DEF UpdateTick
<1>2. before.gross <= MaxLiquidityPerTick /\ before.gross \in Nat
  <2>1. CASE t \in DOMAIN tks
    BY <2>1, DataAssumption DEF Capped, MapOf, TickInfos
  <2>2. CASE t \notin DOMAIN tks
    BY <2>2, CapType DEF NewTick
  <2> QED BY <2>1, <2>2
<1>3. Capped(inserted)
  <2> HIDE DEF before
  <2> QED BY <1>2 DEF Capped
<1>4. Capped(rest)
  BY DEF Capped, Restrict
<1>5. fits => Capped(put)
  <2> SUFFICES ASSUME fits PROVE Capped(put)
    OBVIOUS
  <2>1. delta > 0 => gross <= MaxLiquidityPerTick
    BY DEF TickFits
  <2>2. gross <= MaxLiquidityPerTick
    <3> HIDE DEF before
    <3> QED BY <1>2, <2>1, CapType
  <2>3. DOMAIN put = DOMAIN tks \cup {t} /\ put[t].gross = gross
        /\ \A u \in DOMAIN tks \ {t} : put[u] = tks[u]
    <3> HIDE DEF before, gross, net, outside
    <3> QED OBVIOUS
  <2> HIDE DEF put, gross
  <2> QED BY <2>2, <2>3 DEF Capped
<1> HIDE DEF before, inserted, gross, net, outside, fits, rest, put
<1> QED BY <1>1, <1>3, <1>4, <1>5

LEMMA UpdateTicksCapped ==
  ASSUME TypeOK, Capped(ticks), NEW lo \in Ticks, NEW hi \in Ticks, Aligned(lo), Aligned(hi),
         NEW delta \in Int
  PROVE  Capped(UpdateTicks(lo, hi, delta).ticks)
<1> DEFINE dn   == FALSE
           up   == TRUE
           low  == UpdateTick(ticks, lo, delta, dn)
           high == UpdateTick(low.ticks, hi, delta, up)
           out(t) == IF t \in DOMAIN ticks THEN ticks[t].outside ELSE NewTick.outside
<1>1. UpdateTicks(lo, hi, delta) =
        CASE delta = 0 -> [ok |-> TRUE, ticks |-> ticks, outLo |-> out(lo), outHi |-> out(hi)]
          [] delta # 0 /\ ~low.ok -> [ok |-> FALSE, ticks |-> low.ticks]
          [] OTHER -> [ok |-> high.ok, ticks |-> high.ticks,
                       outLo |-> low.outside, outHi |-> high.outside]
  BY Zenon DEF UpdateTicks
<1>2. MapOf(ticks, Ticks, TickInfos) /\ feeGrowth \in [Tokens -> FeeGrowths]
  BY DEF TypeOK
<1>3. dn \in BOOLEAN /\ up \in BOOLEAN
  OBVIOUS
<1> HIDE DEF dn, up
<1>4. Capped(low.ticks) /\ MapOf(low.ticks, Ticks, TickInfos)
  <2>1. low = UpdateTick(ticks, lo, delta, dn)
    OBVIOUS
  <2> HIDE DEF low
  <2> QED BY <1>2, <1>3, <2>1, UpdateTickCapped, UpdateTickType
<1>5. Capped(high.ticks)
  <2>1. high = UpdateTick(low.ticks, hi, delta, up)
    OBVIOUS
  <2> HIDE DEF low, high
  <2> QED BY <1>3, <1>4, <2>1, UpdateTickCapped
<1> HIDE DEF low, high, out
<1> QED BY <1>1, <1>4, <1>5

\* The position a key has, or the one it starts with.
PositionAt(pos, k) == IF k \in DOMAIN pos THEN pos[k] ELSE NewPosition

\* update_position writes the one position: updated when it succeeds, updated or
\* merely created when it does not.
LEMMA UpdatePositionEffect ==
  ASSUME TypeOK, NEW key \in Keys, NEW delta \in Int, NEW inside,
         NEW r, r = UpdatePosition(key, delta, inside)
  PROVE  /\ DOMAIN r.positions = DOMAIN positions \cup {key}
         /\ \A k \in DOMAIN positions \ {key} : r.positions[k] = positions[k]
         /\ \/ r.positions[key] = PositionAt(positions, key) /\ ~r.ok
            \/ r.positions[key] = [liquidity |-> PositionAt(positions, key).liquidity + delta,
                                   last      |-> inside]
         /\ r.ok => r.owed = FeesOwed(PositionAt(positions, key).liquidity, inside,
                                      PositionAt(positions, key).last)
<1> DEFINE before   == IF key \in DOMAIN positions THEN positions[key] ELSE NewPosition
           after    == before.liquidity + delta
           store(p) == [k \in DOMAIN positions \cup {key} |-> IF k = key THEN p ELSE positions[k]]
           owed     == FeesOwed(before.liquidity, inside, before.last)
           new      == [liquidity |-> after, last |-> inside]
           fails    == after < 0 \/ after > U128Max \/ (delta = 0 /\ after = 0)
<1>1. r = IF fails
          THEN [ok |-> FALSE, positions |-> store(before), owed |-> NewPosition.last]
          ELSE [ok |-> \A i \in Tokens : owed[i] <= I128Max, positions |-> store(new), owed |-> owed]
  BY Zenon DEF UpdatePosition
<1>2. ASSUME NEW p
      PROVE  /\ DOMAIN store(p) = DOMAIN positions \cup {key} /\ store(p)[key] = p
             /\ \A k \in DOMAIN positions \ {key} : store(p)[k] = positions[k]
  OBVIOUS
<1>3. before = PositionAt(positions, key)
  BY DEF PositionAt
<1> HIDE DEF before, store, fails, owed
<1>4. CASE fails
  <2>1. r.positions = store(before) /\ r.ok = FALSE
    BY <1>1, <1>4
  <2> QED BY <1>2, <1>3, <2>1
<1>5. CASE ~fails
  <2>1. r.positions = store(new) /\ r.owed = owed
    BY <1>1, <1>5
  <2> QED BY <1>2, <1>3, <2>1 DEF owed
<1> QED BY <1>4, <1>5

-----------------------------------------------------------------------------
(* A step of a swap                                                            *)

\* The word boundary a step may walk to lies on its way.
LEMMA WordBoundarySide ==
  ASSUME NEW t \in PoolTicks, NEW zeroForOne \in BOOLEAN
  PROVE  /\ zeroForOne /\ t \in Ticks => WordBoundary(t, zeroForOne) <= t
         /\ ~zeroForOne /\ t < MaxTick => t < WordBoundary(t, zeroForOne)
<1> USE TickAssumption DEF Ticks, PoolTicks
<1> DEFINE c        == t \div Spacing
           first(d) == (d \div WordTicks) * WordTicks
           down     == first(c)
           up       == first(c + 1) + WordTicks - 1
<1>1. c \in Int /\ Spacing * c <= t /\ t < Spacing * c + Spacing
  BY Remainder
<1>2. ASSUME NEW d \in Int
      PROVE  first(d) \in Int /\ first(d) <= d /\ d <= first(d) + WordTicks - 1
  <2>1. d = WordTicks * (d \div WordTicks) + (d % WordTicks) /\ d % WordTicks \in 0 .. WordTicks - 1
        /\ d \div WordTicks \in Int
    BY Remainder
  <2>2. first(d) = WordTicks * (d \div WordTicks) /\ WordTicks * (d \div WordTicks) \in Int
    BY <2>1
  <2> QED BY <2>1, <2>2
<1>3. WordBoundary(t, zeroForOne) = Clamp(IF zeroForOne THEN down * Spacing ELSE up * Spacing)
  BY DEF WordBoundary
<1> HIDE DEF first
<1>4. down \in Int /\ down <= c /\ up \in Int /\ c + 1 <= up
  BY <1>1, <1>2
<1> HIDE DEF c, down, up
<1>5. down * Spacing <= Spacing * c /\ Spacing * (c + 1) <= up * Spacing
      /\ Spacing * (c + 1) = Spacing * c + Spacing
      /\ down * Spacing \in Int /\ up * Spacing \in Int
  BY <1>1, <1>4
<1>6. CASE zeroForOne
  BY <1>1, <1>3, <1>5, <1>6 DEF Clamp
<1>7. CASE ~zeroForOne
  BY <1>1, <1>3, <1>5, <1>7 DEF Clamp
<1> QED BY <1>6, <1>7

\* The walk passes no initialized tick before the one it stops at.
LEMMA StepTickNext ==
  ASSUME TypeOK, swap.zeroForOne => swap.tick \in Ticks, ~swap.zeroForOne => swap.tick < MaxTick
  PROVE  /\ StepTick.tick \in Ticks
         /\ StepTick.initialized <=> StepTick.tick \in DOMAIN ticks
         /\ swap.zeroForOne => /\ StepTick.tick <= swap.tick
                               /\ \A u \in DOMAIN ticks : ~(StepTick.tick < u /\ u <= swap.tick)
         /\ ~swap.zeroForOne => /\ swap.tick < StepTick.tick
                                /\ \A u \in DOMAIN ticks : ~(swap.tick < u /\ u < StepTick.tick)
<1>1. swap.tick \in PoolTicks /\ swap.tick \in Int /\ swap.zeroForOne \in BOOLEAN
  BY TickAssumption DEF TypeOK, SwapLocals, PoolTicks
<1>2. DOMAIN ticks \subseteq Ticks /\ Ticks \subseteq Int
  BY TickAssumption DEF TypeOK, MapOf, Ticks
<1> DEFINE z        == swap.zeroForOne
           T        == swap.tick
           C        == NextCandidates(T, z)
           next     == NextInitialized(T, z)
           boundary == WordBoundary(T, z)
           found    == C # {} /\ IF z THEN next >= boundary ELSE next <= boundary
<1>3. StepTick = IF found THEN [tick |-> next, initialized |-> TRUE]
                          ELSE [tick |-> boundary, initialized |-> FALSE]
  BY Zenon DEF StepTick
<1>4. /\ boundary \in Ticks /\ (z => boundary <= T) /\ (~z => T < boundary)
  BY <1>1, WordBoundaryType, WordBoundarySide
<1>5. C # {} => next \in C /\ \A v \in C : IF z THEN v <= next ELSE next <= v
  <2> SUFFICES ASSUME C # {} PROVE next \in C /\ \A v \in C : IF z THEN v <= next ELSE next <= v
    OBVIOUS
  <2>1. C \in SUBSET Ticks
    BY <1>2 DEF NextCandidates
  <2>2. \E u \in C : \A v \in C : IF z THEN v <= u ELSE u <= v
    <3> HIDE DEF C
    <3>1. CASE z
      BY <2>1, <3>1, ExtremeTicks
    <3>2. CASE ~z
      BY <2>1, <3>2, ExtremeTicks
    <3> QED BY <3>1, <3>2
  <2> QED BY <2>2, Zenon DEF NextInitialized
<1>6. \A u : u \in C <=> u \in DOMAIN ticks /\ IF z THEN u <= T ELSE u > T
  BY DEF NextCandidates
<1> HIDE DEF C, next, boundary
<1>7. CASE found
  <2>1. StepTick.tick = next /\ StepTick.initialized = TRUE /\ next \in C
        /\ \A v \in C : IF z THEN v <= next ELSE next <= v
    BY <1>3, <1>5, <1>7
  <2>2. next \in DOMAIN ticks /\ next \in Ticks /\ IF z THEN next <= T ELSE next > T
    BY <1>2, <1>6, <2>1
  <2>3. ASSUME z, NEW u \in DOMAIN ticks, next < u, u <= T PROVE FALSE
    <3>1. u \in C /\ u \in Int /\ next \in Int
      BY <1>2, <1>6, <2>2, <2>3
    <3> QED BY <2>1, <2>3, <3>1
  <2>4. ASSUME ~z, NEW u \in DOMAIN ticks, T < u, u < next PROVE FALSE
    <3>1. u \in C /\ u \in Int /\ next \in Int
      BY <1>1, <1>2, <1>6, <2>2, <2>4
    <3> QED BY <2>1, <2>4, <3>1
  <2> QED BY <1>1, <1>2, <2>1, <2>2, <2>3, <2>4
<1>8. CASE ~found
  <2>1. StepTick.tick = boundary /\ StepTick.initialized = FALSE
    BY <1>3, <1>8
  <2>2. \A u \in C : IF z THEN u < boundary ELSE boundary < u
    <3> SUFFICES ASSUME NEW u \in C PROVE IF z THEN u < boundary ELSE boundary < u
      OBVIOUS
    <3>1. next \in C /\ IF z THEN u <= next ELSE next <= u
      BY <1>5
    <3>2. IF z THEN ~(next >= boundary) ELSE ~(next <= boundary)
      BY <1>8
    <3>3. next \in Int /\ u \in Int /\ boundary \in Int
      BY <1>2, <1>4, <1>6, <3>1
    <3> QED BY <3>1, <3>2, <3>3
  <2>3. boundary \notin DOMAIN ticks
    <3>1. boundary \notin C
      BY <1>2, <1>4, <2>2
    <3> QED BY <1>1, <1>2, <1>4, <1>6, <3>1
  <2>4. ASSUME z, NEW u \in DOMAIN ticks, boundary < u, u <= T PROVE FALSE
    <3>1. u \in C /\ u \in Int /\ boundary \in Int
      BY <1>2, <1>4, <1>6, <2>4
    <3> QED BY <2>2, <2>4, <3>1
  <2>5. ASSUME ~z, NEW u \in DOMAIN ticks, T < u, u < boundary PROVE FALSE
    <3>1. u \in C /\ u \in Int /\ boundary \in Int
      BY <1>1, <1>2, <1>4, <1>6, <2>5
    <3> QED BY <2>2, <2>5, <3>1
  <2> QED BY <1>4, <2>1, <2>3, <2>4, <2>5
<1> QED BY <1>7, <1>8

\* The floor tick, against any other tick.
LEMMA TickAtSide ==
  ASSUME NEW p \in Prices, NEW t \in Ticks
  PROVE  t <= TickAt(p) <=> SqrtPriceAt[t] <= p
<1> USE TickAssumption, PriceAssumption DEF Ticks
<1> DEFINE f == TickAt(p)
<1>1. f \in Ticks /\ SqrtPriceAt[f] <= p /\ (f < MaxTick => p < SqrtPriceAt[f + 1])
  BY TickAtType
<1>2. p \in Int
  BY DEF Prices
<1> HIDE DEF f
<1>3. ASSUME t <= f PROVE SqrtPriceAt[t] <= p
  <2>1. SqrtPriceAt[t] <= SqrtPriceAt[f]
    BY <1>1, <1>3, t = f \/ t < f
  <2> QED BY <1>1, <1>2, <2>1
<1>4. ASSUME f < t PROVE p < SqrtPriceAt[t]
  <2>1. f + 1 \in Ticks /\ f < MaxTick
    BY <1>1, <1>4
  <2>2. SqrtPriceAt[f + 1] <= SqrtPriceAt[t]
    BY <1>1, <1>4, <2>1, f + 1 = t \/ f + 1 < t
  <2> QED BY <1>1, <1>2, <2>1, <2>2
<1>5. t \in Int /\ f \in Int /\ SqrtPriceAt[t] \in Int
  BY <1>1
<1> QED BY <1>2, <1>3, <1>4, <1>5 DEF f

\* The price has not passed the limit.
Ahead(s) == IF s.zeroForOne THEN s.limit <= s.sqrtPrice ELSE s.sqrtPrice <= s.limit

\* The ticks at or below the pool tick are the same after an iteration, but for
\* the one it reaches.
LEMMA SwapStepMoves ==
  ASSUME PoolInv, swap.running, LoopRuns, Ahead(swap),
         NEW price \in Prices, price \in StepPrice(StepTarget(StepTick.tick)),
         NEW moved, moved = TickAfterStep(StepTick.tick, price = SqrtPriceAt[StepTick.tick], price)
  PROVE  /\ StepTick.tick \in Ticks
         /\ StepTick.initialized <=> StepTick.tick \in DOMAIN ticks
         /\ Ahead([swap EXCEPT !.sqrtPrice = price])
         /\ moved \in Int
         /\ \A u \in DOMAIN ticks \ {StepTick.tick} : u <= moved <=> u <= swap.tick
         /\ price = SqrtPriceAt[StepTick.tick] /\ swap.zeroForOne
              => StepTick.tick <= swap.tick /\ moved = StepTick.tick - 1
         /\ price = SqrtPriceAt[StepTick.tick] /\ ~swap.zeroForOne
              => swap.tick < StepTick.tick /\ moved = StepTick.tick
         /\ price # SqrtPriceAt[StepTick.tick] /\ StepTick.tick \in DOMAIN ticks
              => (StepTick.tick <= moved <=> StepTick.tick <= swap.tick)
<1> USE TickAssumption, PriceAssumption DEF Ticks
<1> DEFINE n == StepTick.tick
           T == swap.tick
           p == swap.sqrtPrice
           z == swap.zeroForOne
           reached == price = SqrtPriceAt[n]
<1>1. /\ swap \in SwapLocals /\ T \in PoolTicks /\ T \in Int /\ z \in BOOLEAN
      /\ p \in Prices /\ swap.limit \in Prices /\ Prices \subseteq Int
      /\ p \in Int /\ swap.limit \in Int
      /\ DOMAIN ticks \subseteq Ticks
  BY DEF PoolInv, TypeOK, SwapLocals, PoolTicks, Prices, MapOf
<1>2. /\ \A q \in Prices : SqrtPriceAt[MinTick] <= q /\ q <= SqrtPriceAt[MaxTick]
      /\ \A t \in Ticks : SqrtPriceAt[t] \in Prices
  BY PriceOfTick DEF Prices
<1>3. p # swap.limit /\ IF z THEN swap.limit < p ELSE p < swap.limit
  BY <1>1 DEF LoopRuns, Ahead
<1>4. Tracks(T, p)
  BY DEF PoolInv
<1>5. z => T \in Ticks
  <2> SUFFICES ASSUME z, T \notin Ticks PROVE FALSE
    OBVIOUS
  <2>1. T = MinTick - 1
    BY <1>1 DEF PoolTicks
  <2>2. p = SqrtPriceAt[MinTick]
    <3>1. TickAt(p) \in Ticks
      BY <1>1, TickAtType
    <3> QED BY <1>4, <2>1, <3>1 DEF Tracks
  <2>3. SqrtPriceAt[MinTick] <= swap.limit
    BY <1>1, <1>2
  <2> QED BY <1>1, <1>3, <2>2, <2>3
<1>6. ~z => T < MaxTick
  <2> SUFFICES ASSUME ~z, ~(T < MaxTick) PROVE FALSE
    OBVIOUS
  <2>1. TickAt(p) = MaxTick
    BY <1>1, <1>4 DEF Tracks, PoolTicks
  <2>2. SqrtPriceAt[MaxTick] <= p
    BY <1>1, <2>1, TickAtType
  <2>3. swap.limit <= SqrtPriceAt[MaxTick] /\ SqrtPriceAt[MaxTick] \in Int
    BY <1>1, <1>2
  <2> QED BY <1>1, <1>3, <2>2, <2>3
<1>7. /\ n \in Ticks
      /\ StepTick.initialized <=> n \in DOMAIN ticks
      /\ z => n <= T /\ \A u \in DOMAIN ticks : ~(n < u /\ u <= T)
      /\ ~z => T < n /\ \A u \in DOMAIN ticks : ~(T < u /\ u < n)
  BY <1>5, <1>6, StepTickNext DEF PoolInv
<1>8. StepTarget(n) = IF z THEN IF SqrtPriceAt[n] > swap.limit THEN SqrtPriceAt[n] ELSE swap.limit
                          ELSE IF SqrtPriceAt[n] < swap.limit THEN SqrtPriceAt[n] ELSE swap.limit
  BY DEF StepTarget
<1> HIDE DEF n
<1>9. SqrtPriceAt[n] \in Int /\ SqrtPriceAt[n] \in Prices /\ price \in Int /\ swap.limit \in Int /\ p \in Int
  BY <1>1, <1>2, <1>7
<1>10. IF z THEN /\ price <= p /\ swap.limit <= price /\ SqrtPriceAt[n] <= price
           ELSE /\ p <= price /\ price <= swap.limit /\ price <= SqrtPriceAt[n]
  BY <1>8, <1>9 DEF StepPrice, n
<1>11. Ahead([swap EXCEPT !.sqrtPrice = price])
  BY <1>1, <1>10 DEF Ahead, SwapLocals
<1>12. moved = TickAfterStep(n, reached, price)
  BY DEF n
<1>13. CASE reached
  <2>1. moved = IF z THEN n - 1 ELSE n
    BY <1>12, <1>13 DEF TickAfterStep
  <2>2. moved \in Int
    BY <1>7, <2>1
  <2>3. ASSUME NEW u \in DOMAIN ticks \ {n} PROVE u <= moved <=> u <= T
    <3>1. u \in Int /\ T \in Int /\ n \in Int /\ u # n
      BY <1>1, <1>7
    <3>2. CASE z
      <4>1. moved = n - 1 /\ n <= T /\ ~(n < u /\ u <= T)
        BY <1>7, <2>1, <3>2
      <4> QED BY ONLY <3>1, <4>1
    <3>3. CASE ~z
      <4>1. moved = n /\ T < n /\ ~(T < u /\ u < n)
        BY <1>7, <2>1, <3>3
      <4> QED BY ONLY <3>1, <4>1
    <3> QED BY <3>2, <3>3
  <2> QED BY <1>7, <1>11, <1>13, <2>1, <2>2, <2>3 DEF n
<1>14. CASE ~reached
  <2>1. price # SqrtPriceAt[n]
    BY <1>12, <1>14
  <2>2. moved = IF price # p THEN TickAt(price) ELSE T
    BY <1>12, <1>14 DEF TickAfterStep
  <2>3. TickAt(price) \in Ticks /\ TickAt(p) \in Ticks
    BY <1>1, TickAtType
  <2>4. moved \in Int
    BY <1>1, <2>2, <2>3
  <2>5. ASSUME z PROVE n <= moved /\ moved <= T
    <3>1. CASE price = p
      BY <1>1, <1>7, <2>2, <2>5, <3>1
    <3>2. CASE price # p
      <4>1. moved = TickAt(price) /\ n <= TickAt(price)
        BY <1>7, <1>9, <1>10, <2>2, <2>5, <3>2, TickAtSide
      <4>2. CASE T = TickAt(p)
        <5>1. SqrtPriceAt[TickAt(price)] <= price
          BY TickAtType
        <5>2. SqrtPriceAt[TickAt(price)] <= p
          BY <1>9, <1>10, <2>3, <2>5, <5>1
        <5> QED BY <1>1, <2>3, <4>1, <4>2, <5>2, TickAtSide
      <4>3. CASE T < MaxTick /\ p = SqrtPriceAt[T + 1]
        <5>1. T + 1 \in Ticks
          BY <1>1, <4>3 DEF PoolTicks
        <5>2. ~(SqrtPriceAt[T + 1] <= price)
          BY <1>9, <1>10, <2>5, <3>2, <4>3
        <5>3. ~(T + 1 <= TickAt(price))
          BY <5>1, <5>2, TickAtSide
        <5> QED BY <1>1, <2>3, <4>1, <5>3
      <4> QED BY <1>4, <4>2, <4>3 DEF Tracks
    <3> QED BY <3>1, <3>2
  <2>6. ASSUME ~z PROVE T <= moved /\ moved < n
    <3>1. CASE price = p
      BY <1>1, <1>7, <2>2, <2>6, <3>1
    <3>2. CASE price # p
      <4>1. moved = TickAt(price) /\ ~(n <= TickAt(price))
        BY <1>7, <1>9, <1>10, <2>1, <2>2, <2>6, <3>2, TickAtSide
      <4>2. CASE T = TickAt(p)
        <5>1. SqrtPriceAt[TickAt(p)] <= p
          BY <1>1, TickAtType
        <5>2. SqrtPriceAt[TickAt(p)] <= price
          BY <1>9, <1>10, <2>3, <2>6, <5>1
        <5>3. TickAt(p) <= TickAt(price)
          BY <2>3, <5>2, TickAtSide
        <5> QED BY <1>7, <2>3, <4>1, <4>2, <5>3
      <4>3. CASE T < MaxTick /\ p = SqrtPriceAt[T + 1]
        <5>1. T + 1 \in Ticks
          BY <1>1, <4>3 DEF PoolTicks
        <5>2. SqrtPriceAt[T + 1] <= price
          BY <1>9, <1>10, <2>6, <4>3
        <5>3. T + 1 <= TickAt(price)
          BY <5>1, <5>2, TickAtSide
        <5> QED BY <1>1, <1>7, <2>3, <4>1, <5>3
      <4> QED BY <1>4, <4>2, <4>3 DEF Tracks
    <3> QED BY <3>1, <3>2
  <2>7. ASSUME NEW u \in DOMAIN ticks, u # n PROVE u <= moved <=> u <= T
    <3>1. u \in Int /\ n \in Int
      BY <1>1, <1>7, <2>7
    <3>2. CASE z
      <4>1. n <= moved /\ moved <= T /\ ~(n < u /\ u <= T)
        BY <1>7, <2>5, <3>2
      <4> QED BY <1>1, <2>4, <2>7, <3>1, <4>1
    <3>3. CASE ~z
      <4>1. T <= moved /\ moved < n /\ ~(T < u /\ u < n)
        BY <1>7, <2>6, <3>3
      <4> QED BY <1>1, <2>4, <2>7, <3>1, <4>1
    <3> QED BY <3>2, <3>3
  <2>8. n \in DOMAIN ticks => (n <= moved <=> n <= T)
    BY <1>1, <1>7, <2>4, <2>5, <2>6
  <2> QED BY <1>7, <1>11, <1>14, <2>4, <2>7, <2>8 DEF n
<1> QED BY <1>12, <1>13, <1>14

\* Between two ticks that only n separates, the net liquidity differs by n's.
LEMMA NetBelowMove ==
  ASSUME NEW tks, MapOf(tks, Ticks, TickInfos), NEW n \in Int, NEW s \in Int, NEW t \in Int,
         \A u \in DOMAIN tks \ {n} : u <= t <=> u <= s
  PROVE  NetBelow(tks, t) = NetBelow(tks, s)
           + (IF n <= t THEN NetAt(tks, n) ELSE 0) - (IF n <= s THEN NetAt(tks, n) ELSE 0)
<1> DEFINE f == [u \in DOMAIN tks |-> tks[u].net]
           B(x) == {u \in DOMAIN tks : u <= x}
           R == B(s) \ {n}
<1>1. IsFiniteSet(DOMAIN tks) /\ \A u \in DOMAIN tks : f[u] \in Int
  BY TicksFinite, DataAssumption DEF MapOf, TickInfos
<1>2. \A x : NetBelow(tks, x) = SumFunctionOnSet(f, B(x))
  BY DEF NetBelow
<1>3. B(t) \ {n} = R
  OBVIOUS
<1>4. ASSUME NEW x \in Int, B(x) \ {n} = R
      PROVE  NetBelow(tks, x) = SumFunctionOnSet(f, R) + IF n <= x THEN NetAt(tks, n) ELSE 0
  <2>1. IsFiniteSet(B(x)) /\ IsFiniteSet(R) /\ (\A u \in R : f[u] \in Int)
        /\ \A u \in B(x) : f[u] \in Int
    BY <1>1, FS_Subset
  <2>2. CASE n \in B(x)
    <3>1. SumFunctionOnSet(f, B(x)) = f[n] + SumFunctionOnSet(f, B(x) \ {n})
      <4> HIDE DEF f, B
      <4> QED BY <2>1, <2>2, SumRemove
    <3>2. f[n] = NetAt(tks, n) /\ n <= x /\ f[n] \in Int
      BY <1>1, <2>2 DEF NetAt
    <3>3. SumFunctionOnSet(f, R) \in Int
      <4> HIDE DEF f, R
      <4> QED BY <2>1, SumType
    <3>4. NetBelow(tks, x) = SumFunctionOnSet(f, B(x))
          /\ SumFunctionOnSet(f, B(x) \ {n}) = SumFunctionOnSet(f, R)
      BY <1>2, <1>4, Zenon
    <3> HIDE DEF f, B, R
    <3> QED BY <3>1, <3>2, <3>3, <3>4
  <2>3. CASE n \notin B(x)
    <3>1. B(x) = R
      BY <1>4, <2>3
    <3>2. n <= x => NetAt(tks, n) = 0
      BY <2>3 DEF NetAt
    <3>3. SumFunctionOnSet(f, R) \in Int
      <4> HIDE DEF f, R
      <4> QED BY <2>1, SumType
    <3> HIDE DEF f, B, R
    <3> QED BY <1>2, <3>1, <3>2, <3>3
  <2> QED BY <2>2, <2>3
<1>5. NetBelow(tks, t) = SumFunctionOnSet(f, R) + IF n <= t THEN NetAt(tks, n) ELSE 0
  BY <1>3, <1>4
<1>6. NetBelow(tks, s) = SumFunctionOnSet(f, R) + IF n <= s THEN NetAt(tks, n) ELSE 0
  BY <1>4
<1>7. SumFunctionOnSet(f, R) \in Int /\ NetAt(tks, n) \in Int
  <2>1. IsFiniteSet(R) /\ \A u \in R : f[u] \in Int
    BY <1>1, FS_Subset
  <2> HIDE DEF f, R
  <2> QED BY <2>1, SumType, TickValues
<1> HIDE DEF f, R
<1> QED BY <1>5, <1>6, <1>7

\* Only gross and net liquidity matter to the ledger.
LEMMA LedgerSame ==
  ASSUME NEW tks, NEW new, DOMAIN new = DOMAIN tks,
         \A u \in DOMAIN tks : new[u].gross = tks[u].gross /\ new[u].net = tks[u].net
  PROVE  /\ \A t : NetBelow(new, t) = NetBelow(tks, t)
         /\ \A pos : Ledger(tks, pos) => Ledger(new, pos)
<1>1. [u \in DOMAIN new |-> new[u].net] = [u \in DOMAIN tks |-> tks[u].net]
  OBVIOUS
<1>2. \A t : NetBelow(new, t) = NetBelow(tks, t)
  BY <1>1 DEF NetBelow
<1>3. \A t : GrossAt(new, t) = GrossAt(tks, t) /\ NetAt(new, t) = NetAt(tks, t)
  BY DEF GrossAt, NetAt
<1> QED BY <1>2, <1>3 DEF Ledger

-----------------------------------------------------------------------------
(* The invariant.  The properties speak of the tick map alone, or of it and  *)
(* the active liquidity; what makes them inductive is the ledger between     *)
(* ticks and positions, kept both at the committed tick and at the running   *)
(* swap's, which a swap that fails before any crossing falls back from.      *)

\* What holds even after a call that failed half way.
Shaped ==
  /\ Positions(positions)
  /\ \A k \in DOMAIN positions : CheckTicks(k[2], k[3])
  /\ Capped(ticks)
  /\ swap.running => Ahead(swap)
  /\ swap.running /\ ~swap.crossed => \A u \in DOMAIN ticks : u <= tick <=> u <= swap.tick

\* What holds until then.
Balanced ==
  /\ Ledger(ticks, positions)
  /\ liquidity = NetBelow(ticks, tick)
  /\ swap.running => swap.liquidity = NetBelow(ticks, swap.tick)

LedgerInv == PoolInv /\ Shaped /\ (~tainted => Balanced)

LEMMA InitLedger == Init => LedgerInv
<1> SUFFICES ASSUME Init PROVE LedgerInv
  OBVIOUS
<1>1. PoolInv
  BY InitInv
<1>2. DOMAIN ticks = {} /\ DOMAIN positions = {} /\ ~swap.running /\ liquidity = 0
  BY DEF Init, NoSwap
<1>3. Positions(positions)
  BY <1>1, <1>2, FS_EmptySet DEF Positions, PoolInv, TypeOK, Keys
<1>4. Shaped
  BY <1>2, <1>3 DEF Shaped, Capped
<1>5. \A t : NetBelow(ticks, t) = 0
  <2> TAKE t
  <2>1. {u \in DOMAIN ticks : u <= t} = {}
    BY <1>2
  <2> QED BY <2>1, SumEmpty DEF NetBelow
<1>6. \A K : Held(positions, K) = 0
  <2> TAKE K
  <2>1. {k \in DOMAIN positions : k \in K} = {}
    BY <1>2
  <2> QED BY <2>1, SumEmpty DEF Held
<1>7. \A t : GrossAt(ticks, t) = 0 /\ NetAt(ticks, t) = 0
  BY <1>2 DEF GrossAt, NetAt
<1>8. Balanced
  BY <1>2, <1>5, <1>6, <1>7 DEF Balanced, Ledger
<1> QED BY <1>1, <1>4, <1>8 DEF LedgerInv

LEMMA ModifyLiquidityLedger ==
  ASSUME LedgerInv, NEW owner \in Owners, NEW lo \in Ticks, NEW hi \in Ticks,
         NEW delta \in Int, ModifyLiquidity(owner, lo, hi, delta)
  PROVE  LedgerInv'
<1> DEFINE key    == <<owner, lo, hi>>
           tk     == UpdateTicks(lo, hi, delta)
           inside == GrowthInside(tick, feeGrowth, lo, hi, tk.outLo, tk.outHi)
           pos    == UpdatePosition(key, delta, inside)
           inRange == lo <= tick /\ tick < hi
           active == IF inRange THEN liquidity + delta ELSE liquidity
           fits   == active \in 0 .. U128Max
<1>1. /\ ~swap.running /\ CheckTicks(lo, hi)
      /\ ticks' = tk.ticks
      /\ \/ /\ ~tk.ok
            /\ UNCHANGED <<positions, liquidity, unclaimed>>
         \/ /\ tk.ok /\ ~(pos.ok /\ fits)
            /\ positions' = pos.positions
            /\ UNCHANGED <<liquidity, unclaimed>>
         \/ /\ tk.ok /\ pos.ok /\ fits
            /\ positions' = pos.positions
            /\ liquidity' = active
            /\ unclaimed' = [i \in Tokens |-> unclaimed[i] - pos.owed[i]]
      /\ tainted' = (tainted \/ (~(tk.ok /\ pos.ok /\ fits) /\ ticks' # ticks))
      /\ UNCHANGED <<tick, sqrtPrice, feeGrowth, swap>>
  BY Zenon DEF ModifyLiquidity
<1>2. /\ PoolInv /\ PoolInv' /\ TypeOK /\ Shaped
      /\ key \in Keys /\ key[2] = lo /\ key[3] = hi /\ lo < hi /\ Aligned(lo) /\ Aligned(hi)
      /\ tick \in Int /\ lo \in Int /\ hi \in Int
  <2>1. PoolInv'
    BY ModifyLiquidityInv DEF LedgerInv
  <2>2. TypeOK /\ tick \in Int /\ lo \in Int /\ hi \in Int
    BY TickAssumption DEF LedgerInv, PoolInv, TypeOK, PoolTicks, Ticks
  <2> QED BY <1>1, <2>1, <2>2 DEF LedgerInv, Keys, CheckTicks
<1>3. /\ DOMAIN pos.positions = DOMAIN positions \cup {key}
      /\ \A k \in DOMAIN positions \ {key} : pos.positions[k] = positions[k]
      /\ \/ pos.positions[key] = PositionAt(positions, key) /\ ~pos.ok
         \/ pos.positions[key] = [liquidity |-> PositionAt(positions, key).liquidity + delta,
                                  last      |-> inside]
  <2>1. pos = UpdatePosition(key, delta, inside)
    OBVIOUS
  <2> HIDE DEF pos, inside, key
  <2> QED BY <1>2, <2>1, UpdatePositionEffect
<1> HIDE DEF tk, inside, pos, key, fits
<1>4. Shaped'
  <2>1. Capped(ticks')
    BY <1>1, <1>2, UpdateTicksCapped DEF Shaped, tk
  <2>2. Positions(positions') /\ \A k \in DOMAIN positions' : CheckTicks(k[2], k[3])
    <3>1. CASE positions' = positions
      BY <1>2, <3>1 DEF Shaped
    <3>2. CASE positions' = pos.positions
      <4>1. IsFiniteSet(DOMAIN positions')
        BY <1>2, <1>3, <3>2, FS_AddElement DEF Shaped, Positions
      <4>2. MapOf(positions', Keys, PositionStates)
        BY <1>2 DEF PoolInv, TypeOK, Keys
      <4> QED BY <1>1, <1>2, <1>3, <3>2, <4>1, <4>2 DEF Shaped, Positions
    <3> QED BY <1>1, <3>1, <3>2
  <2>3. ~swap'.running
    BY <1>1
  <2> QED BY <2>1, <2>2, <2>3 DEF Shaped
<1>5. ASSUME ~tainted' PROVE Balanced'
  <2>1. Balanced /\ Ledger(ticks, positions) /\ liquidity = NetBelow(ticks, tick)
    BY <1>1, <1>5 DEF LedgerInv, Balanced
  <2>2. (tk.ok /\ pos.ok /\ fits) \/ ticks' = ticks
    BY <1>1, <1>5
  <2>3. Positions(positions) /\ Positions(positions')
    BY <1>2, <1>4 DEF Shaped
  <2>4. CASE positions' = positions /\ ticks' = ticks /\ liquidity' = liquidity
    BY <1>1, <2>1, <2>4 DEF Balanced
  <2>5. CASE tk.ok /\ positions' = pos.positions /\ delta # 0
                   /\ positions'[key].liquidity = PositionAt(positions, key).liquidity + delta
    <3>1. tk.ticks # ticks
      <4>1. \A t \in {lo, hi} : GrossAt(tk.ticks, t) = GrossAt(ticks, t) + delta
        BY <1>2, <2>5, UpdateTicksEffect DEF tk
      <4>2. GrossAt(ticks, lo) \in Nat
        BY <1>2, TickValues DEF TypeOK
      <4> QED BY <2>5, <4>1, <4>2
    <3>2. pos.ok /\ fits /\ liquidity' = active
      BY <1>1, <2>2, <3>1, <2>5
    <3>3. /\ Ledger(ticks', positions')
          /\ \A t \in Int : NetBelow(ticks', t) =
               NetBelow(ticks, t) + IF lo <= t /\ t < hi THEN delta ELSE 0
      <4>1. positions'[key].liquidity =
              (IF key \in DOMAIN positions THEN positions[key].liquidity ELSE 0) + delta
        BY <2>5 DEF PositionAt, NewPosition
      <4>2. /\ DOMAIN positions' = DOMAIN positions \cup {key}
            /\ \A k \in DOMAIN positions \ {key} : positions'[k].liquidity = positions[k].liquidity
        BY <1>3, <2>5
      <4>3. ticks' = UpdateTicks(key[2], key[3], delta).ticks /\ UpdateTicks(key[2], key[3], delta).ok
        BY <1>1, <1>2, <2>5 DEF tk
      <4> QED BY <1>2, <2>1, <2>3, <2>5, <4>1, <4>2, <4>3, ModifyLedger
    <3>4. liquidity' = NetBelow(ticks', tick)
      BY <1>2, <2>1, <3>2, <3>3
    <3> QED BY <1>1, <3>3, <3>4 DEF Balanced
  <2>6. CASE tk.ok /\ positions' = pos.positions /\ ticks' = ticks /\ liquidity' = liquidity
                   /\ positions'[key].liquidity = PositionAt(positions, key).liquidity
    <3>1. \A K : Held(positions', K) = Held(positions, K)
      <4> TAKE K
      <4>1. positions'[key].liquidity =
              (IF key \in DOMAIN positions THEN positions[key].liquidity ELSE 0) + 0
        <5>1. PositionAt(positions, key).liquidity
                = IF key \in DOMAIN positions THEN positions[key].liquidity ELSE 0
          BY DEF PositionAt, NewPosition
        <5>2. key \in DOMAIN positions => positions[key].liquidity \in Int
          BY <2>3 DEF Positions, MapOf, PositionStates
        <5> QED BY <2>6, <5>1, <5>2
      <4>2. /\ DOMAIN positions' = DOMAIN positions \cup {key}
            /\ \A k \in DOMAIN positions \ {key} : positions'[k].liquidity = positions[k].liquidity
        BY <1>3, <2>6
      <4>3. Held(positions', K) = Held(positions, K) + IF key \in K THEN 0 ELSE 0
        BY <2>3, <4>1, <4>2, HeldChange
      <4> QED BY <2>3, <4>3, HeldType
    <3> QED BY <1>1, <2>1, <2>6, <3>1 DEF Balanced, Ledger
  <2>7. PositionAt(positions, key).liquidity \in Int
    BY <2>3, DataAssumption DEF PositionAt, NewPosition, Positions, MapOf, PositionStates
  <2>8. delta = 0 => ticks' = ticks /\ active = liquidity
    <3>1. delta = 0 => tk.ticks = ticks
      BY DEF tk, UpdateTicks
    <3> QED BY <1>1, <1>2, <3>1 DEF TypeOK
  <2>9. CASE ~tk.ok
    BY <1>1, <2>2, <2>4, <2>9
  <2>10. CASE tk.ok /\ delta = 0
    <3>1. positions' = pos.positions /\ ticks' = ticks /\ liquidity' = liquidity
      BY <1>1, <2>8, <2>10
    <3>2. positions'[key].liquidity = PositionAt(positions, key).liquidity
      BY <1>3, <2>7, <2>10, <3>1
    <3> QED BY <2>6, <2>10, <3>1, <3>2
  <2>11. CASE tk.ok /\ delta # 0
    <3>1. positions' = pos.positions
      BY <1>1, <2>11
    <3>2. CASE positions'[key] = PositionAt(positions, key) /\ ~pos.ok
      BY <1>1, <2>2, <2>6, <2>11, <3>1, <3>2
    <3>3. CASE positions'[key] = [liquidity |-> PositionAt(positions, key).liquidity + delta,
                                  last      |-> inside]
      BY <2>5, <2>11, <3>1, <3>3
    <3> QED BY <1>3, <3>1, <3>2, <3>3
  <2> QED BY <2>9, <2>10, <2>11
<1> QED BY <1>2, <1>4, <1>5 DEF LedgerInv

LEMMA SwapBeginLedger ==
  ASSUME LedgerInv, NEW zeroForOne \in BOOLEAN, NEW limit \in Limits, SwapBegin(zeroForOne, limit)
  PROVE  LedgerInv'
<1>1. PoolInv'
  BY SwapBeginInv DEF LedgerInv
<1>2. /\ IF zeroForOne THEN limit < sqrtPrice ELSE limit > sqrtPrice
      /\ swap'.zeroForOne = zeroForOne /\ swap'.limit = limit /\ swap'.sqrtPrice = sqrtPrice
      /\ swap'.tick = tick /\ swap'.liquidity = liquidity
      /\ UNCHANGED <<tick, sqrtPrice, liquidity, feeGrowth, ticks, positions, unclaimed, tainted>>
  BY DEF SwapBegin
<1>3. limit \in Int /\ sqrtPrice \in Int
  BY DataAssumption, PriceOfTick, PriceAssumption, TickAssumption
     DEF LedgerInv, PoolInv, TypeOK, Prices, Ticks
<1>4. Ahead(swap')
  BY <1>2, <1>3 DEF Ahead
<1>5. Shaped'
  BY <1>2, <1>4 DEF LedgerInv, Shaped, Ahead
<1>6. ~tainted' => Balanced'
  BY <1>2 DEF LedgerInv, Balanced
<1> QED BY <1>1, <1>5, <1>6 DEF LedgerInv

\* A crossing changes a tick's outside growth and nothing else of the map.
LEMMA FlipOutsideSame ==
  ASSUME TypeOK, NEW t \in DOMAIN ticks, NEW growth
  PROVE  /\ DOMAIN FlipOutside(t, growth) = DOMAIN ticks
         /\ \A u \in DOMAIN ticks : /\ FlipOutside(t, growth)[u].gross = ticks[u].gross
                                    /\ FlipOutside(t, growth)[u].net = ticks[u].net
<1>1. \A u \in DOMAIN ticks : ticks[u] \in TickInfos
  BY DEF TypeOK, MapOf
<1> QED BY <1>1 DEF FlipOutside, TickInfos

LEMMA SwapStepLedger ==
  ASSUME LedgerInv, NEW price \in Prices, NEW fee, NEW exhausted \in BOOLEAN,
         SwapStep(price, fee, exhausted)
  PROVE  LedgerInv'
<1> DEFINE next    == StepTick
           target  == StepTarget(next.tick)
           growth  == swap.growth + (fee * Q128) \div swap.liquidity
           reached == price = SqrtPriceAt[next.tick]
           crosses == reached /\ next.initialized
           net     == IF swap.zeroForOne THEN -ticks[next.tick].net ELSE ticks[next.tick].net
           after   == IF crosses THEN swap.liquidity + net ELSE swap.liquidity
           moved   == TickAfterStep(next.tick, reached, price)
<1>1. /\ swap.running /\ LoopRuns /\ price \in StepPrice(target)
      /\ ticks' = IF crosses THEN FlipOutside(next.tick, growth) ELSE ticks
      /\ IF after \in 0 .. U128Max
         THEN /\ swap' = [swap EXCEPT
                   !.sqrtPrice = price,
                   !.liquidity = after,
                   !.growth    = growth,
                   !.remaining = ~exhausted,
                   !.crossed   = @ \/ crosses,
                   !.charged   = @ + fee,
                   !.tick      = moved]
              /\ UNCHANGED tainted
         ELSE swap' = NoSwap /\ tainted' = TRUE
      /\ UNCHANGED <<tick, sqrtPrice, liquidity, feeGrowth, positions, unclaimed>>
  BY Zenon DEF SwapStep
<1>2. PoolInv /\ PoolInv' /\ TypeOK /\ Shaped /\ MapOf(ticks, Ticks, TickInfos)
      /\ swap \in SwapLocals /\ swap.tick \in Int /\ swap.liquidity \in Int
  <2>1. PoolInv /\ TypeOK /\ swap \in SwapLocals /\ MapOf(ticks, Ticks, TickInfos)
    BY DEF LedgerInv, PoolInv, TypeOK
  <2>2. swap.tick \in Int /\ swap.liquidity \in Int
    BY <2>1, TickAssumption DEF SwapLocals, PoolTicks
  <2> QED BY <2>1, <2>2, SwapStepInv DEF LedgerInv
<1>3. /\ next.tick \in Ticks /\ next.tick \in Int
      /\ next.initialized <=> next.tick \in DOMAIN ticks
      /\ Ahead([swap EXCEPT !.sqrtPrice = price])
      /\ moved \in Int
      /\ \A u \in DOMAIN ticks \ {next.tick} : u <= moved <=> u <= swap.tick
      /\ reached /\ swap.zeroForOne => next.tick <= swap.tick /\ moved = next.tick - 1
      /\ reached /\ ~swap.zeroForOne => swap.tick < next.tick /\ moved = next.tick
      /\ ~reached /\ next.tick \in DOMAIN ticks => (next.tick <= moved <=> next.tick <= swap.tick)
  <2>1. Ahead(swap)
    BY <1>1, <1>2 DEF Shaped
  <2>2. moved = TickAfterStep(StepTick.tick, price = SqrtPriceAt[StepTick.tick], price)
    OBVIOUS
  <2>3. Ticks \subseteq Int
    BY TickAssumption DEF Ticks
  <2> HIDE DEF moved
  <2> QED BY <1>1, <1>2, <2>1, <2>2, <2>3, SwapStepMoves
<1>4. /\ DOMAIN ticks' = DOMAIN ticks
      /\ \A u \in DOMAIN ticks : ticks'[u].gross = ticks[u].gross /\ ticks'[u].net = ticks[u].net
  <2> HIDE DEF next, growth, reached
  <2>1. CASE crosses
    <3>1. ticks' = FlipOutside(next.tick, growth) /\ next.tick \in DOMAIN ticks
      BY <1>1, <1>3, <2>1
    <3> QED BY <1>2, <3>1, FlipOutsideSame
  <2>2. CASE ~crosses
    BY <1>1, <2>2
  <2> QED BY <2>1, <2>2
<1> HIDE DEF next, target, growth, net, after, moved, crosses, reached
<1>5. CASE after \in 0 .. U128Max
  <2>1. /\ swap' = [swap EXCEPT
               !.sqrtPrice = price, !.liquidity = after, !.growth = growth,
               !.remaining = ~exhausted, !.crossed = @ \/ crosses,
               !.charged = @ + fee, !.tick = moved]
        /\ tainted' = tainted
    BY <1>1, <1>5
  <2>2. /\ swap'.running = swap.running /\ swap'.zeroForOne = swap.zeroForOne
        /\ swap'.limit = swap.limit /\ swap'.sqrtPrice = price /\ swap'.liquidity = after
        /\ swap'.crossed = (swap.crossed \/ crosses) /\ swap'.tick = moved
    BY <1>2, <2>1 DEF SwapLocals
  <2>3. Ahead(swap')
    <3>1. Ahead([swap EXCEPT !.sqrtPrice = price])
      BY <1>3
    <3> QED BY <1>2, <2>2, <3>1 DEF Ahead, SwapLocals
  <2>4. \A u \in DOMAIN ticks : u = next.tick => crosses \/ (u <= moved <=> u <= swap.tick)
    <3> TAKE u \in DOMAIN ticks
    <3>1. ASSUME u = next.tick, ~crosses PROVE u <= moved <=> u <= swap.tick
      BY <1>3, <3>1 DEF crosses
    <3> QED BY <3>1
  <2>5. ASSUME ~swap'.crossed, NEW u \in DOMAIN ticks' PROVE u <= tick' <=> u <= swap'.tick
    <3>1. ~swap.crossed /\ ~crosses /\ u \in DOMAIN ticks /\ tick' = tick
      BY <1>1, <1>4, <2>2, <2>5
    <3>2. u <= tick <=> u <= swap.tick
      BY <1>1, <1>2, <3>1 DEF Shaped
    <3>3. u <= moved <=> u <= swap.tick
      BY <1>3, <2>4, <3>1
    <3> QED BY <2>2, <3>1, <3>2, <3>3
  <2>6. Capped(ticks')
    BY <1>2, <1>4 DEF Shaped, Capped
  <2>7. Shaped'
    BY <1>1, <1>2, <2>3, <2>5, <2>6 DEF Shaped
  <2>8. ASSUME ~tainted' PROVE Balanced'
    <3>1. Balanced /\ swap.liquidity = NetBelow(ticks, swap.tick)
      BY <1>1, <2>1, <2>8 DEF LedgerInv, Balanced
    <3>2. /\ \A t : NetBelow(ticks', t) = NetBelow(ticks, t)
          /\ Ledger(ticks', positions')
      BY <1>1, <1>4, <3>1, LedgerSame DEF Balanced
    <3>3. after = NetBelow(ticks, moved)
      <4>1. NetAt(ticks, next.tick) \in Int /\ NetBelow(ticks, moved) \in Int
        BY <1>2, <1>3, TickValues
      <4>2. CASE crosses
        <5>1. NetAt(ticks, next.tick) = ticks[next.tick].net
          BY <1>3, <4>2 DEF NetAt, crosses
        <5>2. NetBelow(ticks, moved) = NetBelow(ticks, swap.tick)
                + (IF next.tick <= moved THEN NetAt(ticks, next.tick) ELSE 0)
                - (IF next.tick <= swap.tick THEN NetAt(ticks, next.tick) ELSE 0)
          BY <1>2, <1>3, NetBelowMove
        <5>3. after = IF swap.zeroForOne THEN swap.liquidity - NetAt(ticks, next.tick)
                                         ELSE swap.liquidity + NetAt(ticks, next.tick)
          BY <1>2, <4>1, <4>2, <5>1 DEF after, net
        <5>4. CASE swap.zeroForOne
          <6>1. next.tick <= swap.tick /\ ~(next.tick <= moved)
            BY <1>2, <1>3, <4>2, <5>4 DEF crosses
          <6> QED BY <1>2, <3>1, <4>1, <5>2, <5>3, <5>4, <6>1
        <5>5. CASE ~swap.zeroForOne
          <6>1. ~(next.tick <= swap.tick) /\ next.tick <= moved
            BY <1>2, <1>3, <4>2, <5>5 DEF crosses
          <6> QED BY <1>2, <3>1, <4>1, <5>2, <5>3, <5>5, <6>1
        <5> QED BY <5>4, <5>5
      <4>3. CASE ~crosses
        <5>1. \A u \in DOMAIN ticks : u <= moved <=> u <= swap.tick
          BY <1>3, <2>4, <4>3
        <5>2. {u \in DOMAIN ticks : u <= moved} = {u \in DOMAIN ticks : u <= swap.tick}
          BY <5>1
        <5> QED BY <3>1, <4>3, <5>2 DEF NetBelow, after
      <4> QED BY <4>2, <4>3
    <3> QED BY <1>1, <2>2, <3>1, <3>2, <3>3 DEF Balanced
  <2> QED BY <1>2, <2>7, <2>8 DEF LedgerInv
<1>6. CASE ~(after \in 0 .. U128Max)
  <2>1. swap' = NoSwap /\ tainted' /\ ~swap'.running
    BY <1>1, <1>6 DEF NoSwap
  <2>2. Capped(ticks')
    BY <1>2, <1>4 DEF Shaped, Capped
  <2> QED BY <1>1, <1>2, <2>1, <2>2 DEF LedgerInv, Shaped
<1> QED BY <1>5, <1>6

LEMMA SwapCommitLedger ==
  ASSUME LedgerInv, SwapCommit
  PROVE  LedgerInv'
<1>1. PoolInv'
  BY SwapCommitInv DEF LedgerInv
<1>2. /\ swap.running /\ ~swap'.running /\ tick' = swap.tick /\ liquidity' = swap.liquidity
      /\ UNCHANGED <<ticks, positions, tainted>>
  BY DEF SwapCommit, NoSwap
<1>3. Shaped'
  BY <1>2 DEF LedgerInv, Shaped
<1>4. ~tainted' => Balanced'
  BY <1>2 DEF LedgerInv, Balanced
<1> QED BY <1>1, <1>3, <1>4 DEF LedgerInv

LEMMA SwapFailLedger ==
  ASSUME LedgerInv, SwapFail
  PROVE  LedgerInv'
<1>1. PoolInv'
  BY SwapFailInv DEF LedgerInv
<1>2. /\ ~swap'.running /\ (~tainted' => ~tainted)
      /\ UNCHANGED <<tick, sqrtPrice, liquidity, feeGrowth, ticks, positions, unclaimed>>
  BY DEF SwapFail, NoSwap
<1>3. Shaped'
  BY <1>2 DEF LedgerInv, Shaped
<1>4. ~tainted' => Balanced'
  BY <1>2 DEF LedgerInv, Balanced
<1> QED BY <1>1, <1>3, <1>4 DEF LedgerInv

LEMMA NextLedger == LedgerInv /\ [Next]_vars => LedgerInv'
<1> SUFFICES ASSUME LedgerInv, [Next]_vars PROVE LedgerInv'
  OBVIOUS
<1>1. ASSUME NEW owner \in Owners, NEW r \in Ranges, NEW delta \in Deltas,
             ModifyLiquidity(owner, r[1], r[2], delta)
      PROVE  LedgerInv'
  <2>1. r[1] \in Ticks /\ r[2] \in Ticks /\ delta \in Int
    BY DataAssumption
  <2> QED BY <1>1, <2>1, ModifyLiquidityLedger
<1>2. ASSUME NEW zeroForOne \in BOOLEAN, NEW limit \in Limits, SwapBegin(zeroForOne, limit)
      PROVE  LedgerInv'
  BY <1>2, SwapBeginLedger
<1>3. ASSUME NEW price \in Prices, NEW fee, NEW exhausted \in BOOLEAN,
             SwapStep(price, fee, exhausted)
      PROVE  LedgerInv'
  BY <1>3, SwapStepLedger
<1>4. CASE SwapCommit
  BY <1>4, SwapCommitLedger
<1>5. CASE SwapFail
  BY <1>5, SwapFailLedger
<1>6. CASE UNCHANGED vars
  <2>1. PoolInv'
    BY <1>6, NextInv DEF LedgerInv
  <2> QED BY <1>6, <2>1 DEF vars, LedgerInv, Shaped, Balanced
<1> QED BY <1>1, <1>2, <1>3, <1>4, <1>5, <1>6 DEF Next

-----------------------------------------------------------------------------
\* On every grid, whatever mints, burns and crossings came before, the active
\* liquidity is the net liquidity of the ticks at or below the pool tick.
THEOREM LiquidityIsNet == Spec => []ActiveLiquidityIsNet
<1>1. LedgerInv => ActiveLiquidityIsNet
  <2>1. NetUpTo(Current.tick) = NetBelow(ticks, Current.tick)
    BY DEF NetUpTo, NetBelow
  <2> QED BY <2>1 DEF LedgerInv, Balanced, ActiveLiquidityIsNet, Current
<1> QED BY <1>1, InitLedger, NextLedger, PTL DEF Spec

\* Only so many ticks are multiples of the spacing.
LEMMA AlignedTicks ==
  ASSUME NEW S \in SUBSET Ticks, \A t \in S : Aligned(t)
  PROVE  /\ IsFiniteSet(S)
         /\ Cardinality(S) <= MaxTick \div Spacing - MinTick \div Spacing + 1
<1> USE TickAssumption
<1> DEFINE lo == MinTick \div Spacing
           hi == MaxTick \div Spacing
           f  == [t \in S |-> t \div Spacing]
<1>1. \A t \in Int : t = Spacing * (t \div Spacing) + (t % Spacing) /\ t % Spacing \in 0 .. Spacing - 1
                     /\ t \div Spacing \in Int
  <2> TAKE t \in Int
  <2>1. Spacing \in Int /\ Spacing > 0
    OBVIOUS
  <2>2. t = Spacing * (t \div Spacing) + (t % Spacing) /\ t % Spacing \in 0 .. Spacing - 1
    BY <2>1, Remainder
  <2> QED BY <2>1, <2>2
<1>2. lo \in Int /\ hi \in Int
  BY <1>1
<1>3. ASSUME NEW t \in Ticks PROVE t \div Spacing \in lo .. hi
  <2> DEFINE q == t \div Spacing
             a == Spacing * q
             b == Spacing * lo
             c == Spacing * hi
  <2>1. /\ t \in Int /\ MinTick <= t /\ t <= MaxTick /\ q \in Int /\ a \in Int /\ b \in Int /\ c \in Int
        /\ a <= t /\ t <= a + Spacing - 1
    <3>1. t \in Int /\ MinTick <= t /\ t <= MaxTick
      BY DEF Ticks
    <3> DEFINE r == t % Spacing
    <3>2. t = a + r /\ r \in 0 .. Spacing - 1 /\ q \in Int
      BY <1>1, <3>1
    <3>3. a \in Int /\ b \in Int /\ c \in Int
      BY <1>2, <3>2
    <3> HIDE DEF a, b, c, q, r
    <3> QED BY <3>1, <3>2, <3>3
  <2>2. b <= MinTick /\ MaxTick <= c + Spacing - 1
    <3> DEFINE r == MinTick % Spacing
               s == MaxTick % Spacing
    <3>1. MinTick = b + r /\ r \in 0 .. Spacing - 1 /\ MaxTick = c + s /\ s \in 0 .. Spacing - 1
      BY <1>1
    <3> HIDE DEF b, c, r, s
    <3> QED BY <2>1, <3>1
  <2>3. b <= a + Spacing - 1 /\ a <= c + Spacing - 1
    <3> HIDE DEF a, b, c, q
    <3> QED BY <2>1, <2>2
  <2>4. ASSUME q + 1 <= lo PROVE FALSE
    <3>1. Spacing * (q + 1) <= Spacing * lo /\ Spacing * (q + 1) = a + Spacing
      <4> HIDE DEF q, lo
      <4> QED BY <1>2, <2>1, <2>4
    <3> HIDE DEF a, b, c, q
    <3> QED BY <2>1, <2>3, <3>1 DEF b
  <2>5. ASSUME hi + 1 <= q PROVE FALSE
    <3>1. Spacing * (hi + 1) <= Spacing * q /\ Spacing * (hi + 1) = c + Spacing
      <4> HIDE DEF q, hi
      <4> QED BY <1>2, <2>1, <2>5
    <3> HIDE DEF b, c, q
    <3> QED BY <2>1, <2>3, <3>1
  <2> HIDE DEF q, lo, hi
  <2>6. lo <= q /\ q <= hi
    BY <1>2, <2>1, <2>4, <2>5
  <2> QED BY <1>2, <2>1, <2>6 DEF q
<1> HIDE DEF lo, hi
<1>4. f \in [S -> lo .. hi]
  BY <1>3
<1>5. ASSUME NEW s \in S, NEW t \in S, f[s] = f[t] PROVE s = t
  <2>1. s \in Int /\ t \in Int /\ s % Spacing = 0 /\ t % Spacing = 0
    BY DEF Ticks, Aligned
  <2>2. s = Spacing * f[s] + 0 /\ t = Spacing * f[t] + 0
    BY <1>1, <2>1
  <2> QED BY <1>5, <2>2
<1>6. f \in Injection(S, lo .. hi)
  <2> HIDE DEF f
  <2> QED BY <1>4, <1>5 DEF Injection, IsInjective
<1>7. IsFiniteSet(lo .. hi) /\ Cardinality(lo .. hi) = IF lo <= hi THEN hi - lo + 1 ELSE 0
  BY <1>2, FS_Interval
<1>8. IsFiniteSet(S) /\ Cardinality(S) <= Cardinality(lo .. hi)
  <2> HIDE DEF f
  <2> QED BY <1>6, <1>7, FS_Injection
<1>9. hi - lo + 1 \in Nat
  BY CapType DEF lo, hi
<1> QED BY <1>2, <1>7, <1>8, <1>9 DEF lo, hi

\* Every position over a tick begins at a tick below it and ends at one above:
\* the cap of the fewer of them bounds what all these positions hold.
LEMMA HalfDepth ==
  ASSUME LedgerInv, ~tainted, NEW t \in Int
  PROVE  NetBelow(ticks, t) \in 0 .. I128Max
<1> DEFINE B == {u \in DOMAIN ticks : u <= t}
           A == {u \in DOMAIN ticks : u > t}
           f == [u \in DOMAIN ticks |-> ticks[u].net]
           N == MaxTick \div Spacing - MinTick \div Spacing + 1
           cap == MaxLiquidityPerTick
           depth == NetBelow(ticks, t)
           a == Cardinality(A)
           b == Cardinality(B)
<1>1. /\ Ledger(ticks, positions) /\ Capped(ticks) /\ Positions(positions)
      /\ MapOf(ticks, Ticks, TickInfos) /\ \A u \in DOMAIN ticks : u \in Int /\ u <= MaxTick
  BY TickAssumption DEF LedgerInv, Balanced, Shaped, PoolInv, TypeOK, Ticks, MapOf
<1>2. depth \in Nat
  <2>1. NetBelow(ticks, t) = Held(positions, Across(t))
    BY <1>1 DEF Ledger
  <2> QED BY <1>1, <2>1, HeldType
<1>3. cap \in Nat /\ N \in Nat \ {0} /\ cap = U128Max \div N
  BY CapType DEF MaxLiquidityPerTick
<1>4. ASSUME NEW u \in DOMAIN ticks PROVE f[u] \in Int /\ f[u] <= cap /\ -cap <= f[u]
  <2>1. u \in Ticks /\ ticks[u].gross <= cap /\ ticks[u].gross \in Int
    BY <1>1, DataAssumption DEF Capped, MapOf, TickInfos
  <2>2. /\ ticks[u].gross = Held(positions, From(u)) + Held(positions, To(u))
        /\ ticks[u].net = Held(positions, From(u)) - Held(positions, To(u))
    BY <1>1, <2>1 DEF Ledger, GrossAt, NetAt
  <2>3. Held(positions, From(u)) \in Nat /\ Held(positions, To(u)) \in Nat
    BY <1>1, HeldType
  <2> HIDE DEF cap
  <2> QED BY <1>3, <2>1, <2>2, <2>3
<1>5. /\ IsFiniteSet(A) /\ IsFiniteSet(B) /\ a \in Nat /\ b \in Nat
      /\ A \cup B = DOMAIN ticks /\ A \cap B = {} /\ a + b <= N
  <2>1. A \cup B = DOMAIN ticks /\ A \cap B = {}
    BY <1>1
  <2>2. IsFiniteSet(DOMAIN ticks) /\ Cardinality(DOMAIN ticks) <= N
    <3>1. DOMAIN ticks \in SUBSET Ticks /\ \A u \in DOMAIN ticks : Aligned(u)
      BY <1>1 DEF MapOf, Capped
    <3> QED BY <3>1, AlignedTicks
  <2>3. IsFiniteSet(A) /\ IsFiniteSet(B)
    BY <2>2, FS_Subset
  <2> HIDE DEF A, B, N
  <2>4. a \in Nat /\ b \in Nat
    BY <2>3, FS_CardinalityType
  <2>5. Cardinality(A \cup B) = a + b - Cardinality(A \cap B) /\ Cardinality({}) = 0
    BY <2>3, FS_Union, FS_EmptySet
  <2> HIDE DEF a, b
  <2>6. Cardinality(DOMAIN ticks) = a + b
    <3>1. Cardinality(DOMAIN ticks) = a + b - 0
      BY <2>1, <2>5, Zenon
    <3> QED BY <2>4, <3>1
  <2>7. a + b <= N
    BY <2>2, <2>6
  <2> QED BY <2>1, <2>3, <2>4, <2>7
<1>6. depth = SumFunctionOnSet(f, B)
  BY DEF NetBelow
<1>7. SumFunctionOnSet(f, A) + depth = 0 /\ SumFunctionOnSet(f, A) \in Int
  <2>1. \A u \in A \cup B : f[u] \in Int
    BY <1>4
  <2>2. MaxTick \in Int /\ NetBelow(ticks, MaxTick) = Held(positions, Across(MaxTick))
    BY <1>1, TickAssumption DEF Ledger
  <2>3. {u \in DOMAIN ticks : u <= MaxTick} = A \cup B
    BY <1>1, <1>5
  <2>4. NetBelow(ticks, MaxTick) = SumFunctionOnSet(f, A \cup B)
    BY <2>3, Zenon DEF NetBelow
  <2>5. Held(positions, Across(MaxTick)) = 0
    <3>1. {k \in DOMAIN positions : k \in Across(MaxTick)} = {}
      BY TickAssumption DEF Across, Keys, Ticks
    <3> QED BY <3>1, SumEmpty DEF Held
  <2> HIDE DEF f, A, B
  <2>6. SumFunctionOnSet(f, A \cup B) = SumFunctionOnSet(f, A) + SumFunctionOnSet(f, B)
    BY <1>5, <2>1, SumUnion
  <2>7. SumFunctionOnSet(f, A) \in Int
    BY <1>5, <2>1, SumType
  <2> QED BY <1>6, <2>2, <2>4, <2>5, <2>6, <2>7
<1>8. depth <= cap * b /\ depth <= cap * a
  <2>1. \A u \in A \cup B : f[u] \in Int /\ f[u] <= cap /\ -cap <= f[u]
    BY <1>4
  <2> HIDE DEF f, A, B, cap, depth
  <2>2. SumFunctionOnSet(f, B) <= cap * b
    BY <1>3, <1>5, <2>1, SumBounded
  <2>3. -(cap * a) <= SumFunctionOnSet(f, A)
    BY <1>3, <1>5, <2>1, SumBoundedBelow
  <2>4. cap * a \in Int
    BY <1>3, <1>5
  <2> QED BY <1>2, <1>6, <1>7, <2>2, <2>3, <2>4
<1> HIDE DEF f, A, B, N, cap, depth, a, b
<1>9. a * cap + b * cap <= N * cap
  <2>1. (a + b) * cap <= N * cap
    BY <1>3, <1>5, Monotone
  <2> QED BY <1>3, <1>5, <2>1
<1>10. N * cap <= 2 * I128Max + 1
  BY <1>3, DivFloor, DataAssumption
<1>11. /\ cap * a = a * cap /\ cap * b = b * cap
       /\ a * cap \in Int /\ b * cap \in Int /\ N * cap \in Int
  BY <1>3, <1>5
<1>12. depth + depth <= 2 * I128Max + 1
  BY <1>2, <1>8, <1>9, <1>10, <1>11, DataAssumption
<1>13. depth \in 0 .. I128Max
  BY <1>2, <1>12, DataAssumption
<1> QED BY <1>13 DEF depth

\* The cap on each tick is enough: on no grid can the liquidity active at any
\* tick leave a u128, so no crossing overflows.
THEOREM DepthFits == Spec => []DepthWithinU128
<1>1. LedgerInv => DepthWithinU128
  <2>1. \A t : NetUpTo(t) = NetBelow(ticks, t)
    BY DEF NetUpTo, NetBelow
  <2>2. ASSUME LedgerInv, ~tainted, NEW t \in Ticks PROVE NetBelow(ticks, t) \in 0 .. U128Max
    <3>1. t \in Int
      BY TickAssumption DEF Ticks
    <3> QED BY <2>2, <3>1, HalfDepth, DataAssumption
  <2> QED BY <2>1, <2>2 DEF DepthWithinU128
<1> QED BY <1>1, InitLedger, NextLedger, PTL DEF Spec

\* A position is part of what is held by the keys around it.
LEMMA HeldTerm ==
  ASSUME NEW pos, Positions(pos), NEW K, NEW k \in DOMAIN pos, k \in K
  PROVE  pos[k].liquidity <= Held(pos, K)
<1> DEFINE f == [j \in DOMAIN pos |-> pos[j].liquidity]
           S == {j \in DOMAIN pos : j \in K}
<1>1. IsFiniteSet(S) /\ k \in S /\ f[k] = pos[k].liquidity /\ \A j \in S : f[j] \in Nat
  BY FS_Subset, DataAssumption DEF Positions, MapOf, PositionStates
<1>2. Held(pos, K) = SumFunctionOnSet(f, S)
  BY DEF Held
<1> HIDE DEF f, S
<1> QED BY <1>1, <1>2, SumTerm

\* The boundaries of an open position are initialized.
LEMMA OpenBoundaries ==
  ASSUME LedgerInv, ~tainted, NEW k \in OpenPositions
  PROVE  /\ k \in Keys /\ k[2] \in Ticks /\ k[3] \in Ticks /\ k[2] < k[3]
         /\ k[2] \in DOMAIN ticks /\ k[3] \in DOMAIN ticks
         /\ ticks[k[2]].gross > 0 /\ ticks[k[3]].gross > 0
<1>1. /\ Ledger(ticks, positions) /\ Positions(positions) /\ k \in DOMAIN positions
      /\ positions[k].liquidity > 0 /\ positions[k].liquidity \in Nat
      /\ k \in Keys /\ k[2] < k[3]
  BY DataAssumption
     DEF LedgerInv, Balanced, Shaped, CheckTicks, OpenPositions, Positions, MapOf, PositionStates
<1>2. k[2] \in Ticks /\ k[3] \in Ticks /\ k \in From(k[2]) /\ k \in To(k[3])
  BY <1>1 DEF Keys, From, To
<1>3. positions[k].liquidity <= Held(positions, From(k[2]))
      /\ positions[k].liquidity <= Held(positions, To(k[3]))
  BY <1>1, <1>2, HeldTerm
<1>4. \A K : Held(positions, K) \in Nat
  BY <1>1, HeldType
<1>5. ASSUME NEW t \in Ticks, Held(positions, From(t)) > 0 \/ Held(positions, To(t)) > 0
      PROVE  t \in DOMAIN ticks /\ ticks[t].gross > 0
  <2>1. GrossAt(ticks, t) = Held(positions, From(t)) + Held(positions, To(t))
    BY <1>1 DEF Ledger
  <2>2. Held(positions, From(t)) \in Nat /\ Held(positions, To(t)) \in Nat
    BY <1>4
  <2>3. GrossAt(ticks, t) > 0
    BY <1>5, <2>1, <2>2
  <2> QED BY <2>3 DEF GrossAt
<1>6. Held(positions, From(k[2])) > 0 /\ Held(positions, To(k[3])) > 0
  <2>1. Held(positions, From(k[2])) \in Nat /\ Held(positions, To(k[3])) \in Nat
    BY <1>4
  <2> QED BY <1>1, <1>3, <2>1
<1> QED BY <1>1, <1>2, <1>5, <1>6

\* Positions without liquidity add nothing.
LEMMA HeldOpen ==
  ASSUME Positions(positions), NEW K, NEW keys, keys = OpenPositions \cap K
  PROVE  LiquidityOf(keys) = Held(positions, K)
<1> DEFINE f == [k \in DOMAIN positions |-> positions[k].liquidity]
           S == {k \in DOMAIN positions : k \in K}
<1>1. \A k \in DOMAIN positions : positions[k].liquidity \in Nat
  BY DataAssumption DEF Positions, MapOf, PositionStates
<1>2. IsFiniteSet(S) /\ keys \in SUBSET S
  BY FS_Subset DEF Positions, OpenPositions
<1>3. (\A k \in S : f[k] \in Int) /\ \A k \in S \ keys : f[k] = 0
  BY <1>1 DEF OpenPositions
<1>4. Held(positions, K) = SumFunctionOnSet(f, S) /\ LiquidityOf(keys) = SumFunctionOnSet(f, keys)
  BY DEF Held, LiquidityOf
<1> HIDE DEF f, S
<1> QED BY <1>2, <1>3, <1>4, SumZeros

\* Some of the positions in K hold no more than all of them.
LEMMA HeldPart ==
  ASSUME Positions(positions), NEW K, NEW keys \in SUBSET DOMAIN positions, keys \subseteq K
  PROVE  LiquidityOf(keys) \in Nat /\ LiquidityOf(keys) <= Held(positions, K)
<1> DEFINE f == [k \in DOMAIN positions |-> positions[k].liquidity]
           S == {k \in DOMAIN positions : k \in K}
           R == S \ keys
<1>1. \A k \in DOMAIN positions : f[k] \in Nat
  BY DataAssumption DEF Positions, MapOf, PositionStates
<1>2. /\ IsFiniteSet(keys) /\ IsFiniteSet(R) /\ keys \cap R = {} /\ keys \cup R = S
      /\ \A k \in S : f[k] \in Nat
  BY <1>1, FS_Subset DEF Positions
<1>3. Held(positions, K) = SumFunctionOnSet(f, S) /\ LiquidityOf(keys) = SumFunctionOnSet(f, keys)
  BY DEF Held, LiquidityOf
<1> HIDE DEF f, S, R
<1>4. SumFunctionOnSet(f, keys) \in Nat /\ SumFunctionOnSet(f, R) \in Nat
  BY <1>2, SumNatural
<1>5. SumFunctionOnSet(f, keys \cup R) = SumFunctionOnSet(f, keys) + SumFunctionOnSet(f, R)
  BY <1>2, SumUnion
<1> QED BY <1>2, <1>3, <1>4, <1>5

\* No sum of validate_against_ticks overflows, whatever the order.
LEMMA SumsFit == ASSUME LedgerInv, ~tainted PROVE CountingFits
<1>1. /\ Ledger(ticks, positions) /\ Positions(positions) /\ Capped(ticks)
      /\ MapOf(ticks, Ticks, TickInfos) /\ OpenPositions \subseteq DOMAIN positions
      /\ \A k \in DOMAIN positions :
           k \in Keys /\ k[2] \in Int /\ k[3] \in Int /\ k[2] < k[3]
  BY TickAssumption DEF LedgerInv, Balanced, Shaped, CheckTicks, PoolInv, TypeOK, OpenPositions,
                        Positions, MapOf, Keys, Ticks
<1>2. ASSUME NEW t \in Int
      PROVE  Held(positions, Across(t)) <= I128Max /\ Held(positions, Across(t)) \in Nat
  <2>1. NetBelow(ticks, t) = Held(positions, Across(t))
    BY <1>1 DEF Ledger
  <2> QED BY <2>1, HalfDepth, DataAssumption
<1>3. ASSUME NEW k \in OpenPositions PROVE positions[k].liquidity <= I128Max
  <2>1. k \in DOMAIN positions /\ k[2] \in Int /\ k \in Across(k[2])
    BY <1>1 DEF Across
  <2>2. positions[k].liquidity <= Held(positions, Across(k[2]))
    BY <1>1, <2>1, HeldTerm
  <2>3. positions[k].liquidity \in Nat
    BY <1>1, <2>1, DataAssumption DEF Positions, MapOf, PositionStates
  <2> QED BY <1>2, <2>1, <2>2, <2>3, DataAssumption
<1>4. ASSUME NEW seen \in SUBSET OpenPositions, NEW t \in Ticks
      PROVE  GrossOf(seen, t) <= U128Max /\ NetOf(seen, t) \in -I128Max - 1 .. I128Max
  <2> DEFINE low == {k \in seen : k[2] = t}
             high == {k \in seen : k[3] = t}
  <2>1. t \in Int /\ t - 1 \in Int
    BY TickAssumption DEF Ticks
  <2>2. low \in SUBSET DOMAIN positions /\ high \in SUBSET DOMAIN positions
    BY <1>1
  <2>3. /\ low \subseteq From(t) /\ high \subseteq To(t)
        /\ low \subseteq Across(t) /\ high \subseteq Across(t - 1)
    BY <1>1, <2>1, <2>2 DEF From, To, Across
  <2>4. GrossOf(seen, t) = LiquidityOf(low) + LiquidityOf(high)
        /\ NetOf(seen, t) = LiquidityOf(low) - LiquidityOf(high)
    BY DEF GrossOf, NetOf
  <2> HIDE DEF low, high
  <2>5. /\ LiquidityOf(low) \in Nat /\ LiquidityOf(high) \in Nat
        /\ LiquidityOf(low) <= Held(positions, From(t)) /\ LiquidityOf(high) <= Held(positions, To(t))
        /\ LiquidityOf(low) <= Held(positions, Across(t))
        /\ LiquidityOf(high) <= Held(positions, Across(t - 1))
    BY <1>1, <2>2, <2>3, HeldPart
  <2>6. Held(positions, From(t)) + Held(positions, To(t)) <= U128Max
    <3>1. GrossAt(ticks, t) = Held(positions, From(t)) + Held(positions, To(t))
      BY <1>1 DEF Ledger
    <3>2. t \in DOMAIN ticks => ticks[t].gross \in 0 .. U128Max
      BY <1>1 DEF MapOf, TickInfos
    <3>3. GrossAt(ticks, t) <= U128Max
      BY <3>2, DataAssumption DEF GrossAt
    <3> QED BY <3>1, <3>3
  <2>7. /\ Held(positions, From(t)) \in Nat /\ Held(positions, To(t)) \in Nat
        /\ Held(positions, Across(t)) <= I128Max /\ Held(positions, Across(t - 1)) <= I128Max
        /\ Held(positions, Across(t)) \in Nat /\ Held(positions, Across(t - 1)) \in Nat
    BY <1>1, <1>2, <2>1, HeldType
  <2> QED BY <2>4, <2>5, <2>6, <2>7, DataAssumption
<1> QED BY <1>3, <1>4 DEF CountingFits

LEMMA ValidSnapshot ==
  ASSUME LedgerInv, ~tainted, tick = TickAt(sqrtPrice)
  PROVE  SnapshotValid
<1>1. /\ Ledger(ticks, positions) /\ Positions(positions) /\ Capped(ticks)
      /\ liquidity = NetBelow(ticks, tick) /\ DOMAIN ticks \subseteq Ticks
  BY DEF LedgerInv, Balanced, Shaped, PoolInv, TypeOK, MapOf
<1> DEFINE at(t, i) == {k \in OpenPositions : k[i] = t}
<1>2. ASSUME NEW t \in Ticks
      PROVE  LiquidityOf(at(t, 2)) = Held(positions, From(t)) /\ Held(positions, From(t)) \in Nat
             /\ LiquidityOf(at(t, 3)) = Held(positions, To(t)) /\ Held(positions, To(t)) \in Nat
  <2>1. OpenPositions \subseteq Keys
    BY <1>1 DEF OpenPositions, Positions, MapOf
  <2>2. at(t, 2) = OpenPositions \cap From(t) /\ at(t, 3) = OpenPositions \cap To(t)
    BY <2>1 DEF From, To
  <2> HIDE DEF at
  <2> QED BY <1>1, <2>2, HeldOpen, HeldType
<1>3. ASSUME NEW t \in DOMAIN ticks
      PROVE  /\ ticks[t].gross = LiquidityOf(at(t, 2)) + LiquidityOf(at(t, 3))
             /\ ticks[t].net = LiquidityOf(at(t, 2)) - LiquidityOf(at(t, 3))
             /\ ticks[t].gross # 0
             /\ LiquidityOf(at(t, 2)) \in Nat /\ LiquidityOf(at(t, 3)) \in Nat
  <2>1. t \in Ticks
    BY <1>1
  <2>2. ticks[t].gross = Held(positions, From(t)) + Held(positions, To(t))
        /\ ticks[t].net = Held(positions, From(t)) - Held(positions, To(t))
        /\ ticks[t].gross # 0
    BY <1>1, <2>1 DEF Ledger, GrossAt, NetAt
  <2> HIDE DEF at
  <2> QED BY <1>2, <2>1, <2>2
<1>4. DOMAIN ticks = {k[2] : k \in OpenPositions} \cup {k[3] : k \in OpenPositions}
  <2>1. ASSUME NEW t \in DOMAIN ticks
        PROVE  t \in {k[2] : k \in OpenPositions} \cup {k[3] : k \in OpenPositions}
    <3> SUFFICES ASSUME \A k \in OpenPositions : k[2] # t /\ k[3] # t PROVE FALSE
      OBVIOUS
    <3>1. at(t, 2) = {} /\ at(t, 3) = {}
      OBVIOUS
    <3>2. LiquidityOf({}) = 0
      BY SumEmpty DEF LiquidityOf
    <3>3. ticks[t].gross = LiquidityOf(at(t, 2)) + LiquidityOf(at(t, 3)) /\ ticks[t].gross # 0
      BY <1>3
    <3> HIDE DEF at
    <3> QED BY <3>1, <3>2, <3>3
  <2>2. \A k \in OpenPositions : k[2] \in DOMAIN ticks /\ k[3] \in DOMAIN ticks
    BY OpenBoundaries
  <2> QED BY <2>1, <2>2
<1>5. ReconcilesWithPositions
  <2>1. TicksOfPositions(ticks)
    BY <1>3, <1>4, Zenon DEF TicksOfPositions, GrossOf, NetOf
  <2>2. \A k \in DOMAIN positions : CheckTicks(k[2], k[3])
    BY DEF LedgerInv, Shaped
  <2> QED BY <2>1, <2>2, SumsFit DEF ReconcilesWithPositions
<1>6. ASSUME NEW t \in DOMAIN ticks
      PROVE  /\ Aligned(t) /\ ticks[t].gross # 0 /\ ticks[t].gross <= MaxLiquidityPerTick
             /\ ticks[t].net \in -ticks[t].gross .. ticks[t].gross
  <2>1. Aligned(t) /\ ticks[t].gross <= MaxLiquidityPerTick
    BY <1>1 DEF Capped
  <2> HIDE DEF at
  <2> QED BY <1>3, <2>1
<1>7. NetUpTo(tick) = liquidity
  BY <1>1 DEF NetUpTo, NetBelow
<1>8. ASSUME NEW t \in DOMAIN ticks PROVE NetUpTo(t) \in -I128Max - 1 .. I128Max
  <2>1. t \in Int
    BY <1>1, TickAssumption DEF Ticks
  <2>2. NetUpTo(t) = NetBelow(ticks, t)
    BY DEF NetUpTo, NetBelow
  <2> QED BY <2>1, <2>2, HalfDepth, DataAssumption
<1> QED BY <1>5, <1>6, <1>7, <1>8 DEF SnapshotValid

\* On every grid a pool none of whose calls failed half way can be saved and
\* loaded again whenever its tick is the floor tick of its price.
THEOREM SnapshotsLoad == Spec => []SnapshotLoads
<1>1. LedgerInv => SnapshotLoads
  BY ValidSnapshot DEF SnapshotLoads
<1> QED BY <1>1, InitLedger, NextLedger, PTL DEF Spec

-----------------------------------------------------------------------------
(* Arithmetic modulo FeeMod                                                    *)

\* Equal modulo FeeMod.
Same(a, b) == \E q \in Int : a = b + q * FeeMod

LEMMA SameSub ==
  ASSUME NEW a \in Int, NEW b \in Int, NEW c \in Int, NEW d \in Int, Same(a, b), Same(c, d)
  PROVE  Same(a - c, b - d)
<1>1. PICK q \in Int : a = b + q * FeeMod
  BY DEF Same
<1>2. PICK r \in Int : c = d + r * FeeMod
  BY DEF Same
<1>3. (q - r) * FeeMod = q * FeeMod - r * FeeMod /\ q * FeeMod \in Int /\ r * FeeMod \in Int
  BY DataAssumption
<1>4. a - c = (b - d) + (q - r) * FeeMod
  BY <1>1, <1>2, <1>3
<1> QED BY <1>4 DEF Same

LEMMA SameReflexive == ASSUME NEW a \in Int PROVE Same(a, a)
<1>1. a = a + 0 * FeeMod
  BY DataAssumption
<1> QED BY <1>1 DEF Same

\* Equal modulo FeeMod: the same remainder.
LEMMA SameMod ==
  ASSUME NEW a \in Int, NEW b \in Int, Same(a, b)
  PROVE  a % FeeMod = b % FeeMod
<1> DEFINE M == FeeMod
           A == a \div M
           B == b \div M
           r == a % M
           s == b % M
<1>1. M \in Nat /\ M > 0
  BY DataAssumption
<1>2. a = M * A + r /\ r \in 0 .. M - 1 /\ A \in Int
  <2>1. a = M * A + r /\ r \in 0 .. M - 1
    BY <1>1, Remainder
  <2> QED BY <1>1, <2>1
<1>3. b = M * B + s /\ s \in 0 .. M - 1 /\ B \in Int
  <2>1. b = M * B + s /\ s \in 0 .. M - 1
    BY <1>1, Remainder
  <2> QED BY <1>1, <2>1
<1>4. PICK q \in Int : a = b + q * M
  BY DEF Same
<1> HIDE DEF A, B, r, s, M
<1> DEFINE d == B + q - A
<1>5. d \in Int /\ M * d = M * B + q * M - M * A
      /\ M * B \in Int /\ q * M \in Int /\ M * A \in Int
  BY <1>1, <1>2, <1>3, <1>4
<1>6. r - s = M * d
  <2> DEFINE x == M * A
             y == M * B
             z == q * M
  <2>1. a = x + r /\ b = y + s /\ a = b + z /\ M * d = y + z - x
    BY <1>2, <1>3, <1>4, <1>5
  <2>2. x \in Int /\ y \in Int /\ z \in Int /\ r \in Int /\ s \in Int
    BY <1>1, <1>2, <1>3, <1>5
  <2> HIDE DEF x, y, z, d
  <2> QED BY <2>1, <2>2
<1>7. d = 0
  <2> HIDE DEF d
  <2>1. ASSUME d >= 1 PROVE FALSE
    <3>1. M * d >= M
      BY <1>1, <1>5, <2>1
    <3> QED BY <1>1, <1>2, <1>3, <1>6, <3>1
  <2>2. ASSUME d <= -1 PROVE FALSE
    <3>1. M * d <= -M
      BY <1>1, <1>5, <2>2
    <3> QED BY <1>1, <1>2, <1>3, <1>6, <3>1
  <2> QED BY <1>5, <2>1, <2>2
<1>8. r = s
  <2>1. M * d = 0
    BY <1>1, <1>7
  <2> HIDE DEF d
  <2> QED BY <1>2, <1>3, <1>6, <2>1
<1> QED BY <1>8 DEF r, s, M

\* A wrapping subtraction is a subtraction modulo FeeMod.
LEMMA WrappingSubSame ==
  ASSUME NEW a \in Int, NEW b \in Int
  PROVE  /\ WrappingSub(a, b) \in Int /\ WrappingSub(a, b) \in 0 .. FeeMod - 1
         /\ Same(WrappingSub(a, b), a - b)
<1> DEFINE x == a - b
           q == x \div FeeMod
           r == x % FeeMod
<1>1. x \in Int /\ FeeMod \in Int /\ FeeMod > 0
  BY DataAssumption
<1>2. x = FeeMod * q + r /\ r \in 0 .. FeeMod - 1 /\ q \in Int
  <2> HIDE DEF x
  <2>1. x = FeeMod * q + r /\ r \in 0 .. FeeMod - 1
    BY <1>1, Remainder
  <2> QED BY <1>1, <2>1
<1>3. WrappingSub(a, b) = r
  BY DEF WrappingSub
<1> HIDE DEF x, q, r
<1>4. r = x + (-q) * FeeMod
  <2>1. (-q) * FeeMod = -(FeeMod * q) /\ FeeMod * q \in Int
    BY <1>1, <1>2
  <2> QED BY <1>1, <1>2, <2>1
<1>5. Same(r, x)
  BY <1>2, <1>4 DEF Same
<1> QED BY <1>1, <1>2, <1>3, <1>5 DEF x

\* From what two values are modulo FeeMod, what their wrapping difference is.
LEMMA WrappingDifference ==
  ASSUME NEW a \in Int, NEW b \in Int, NEW c \in Int, NEW d \in Int, Same(a - b, c - d)
  PROVE  WrappingSub(a, b) = WrappingSub(c, d)
BY SameMod DEF WrappingSub

-----------------------------------------------------------------------------
(* Fee growth inside a range                                                   *)

\* The growth inside a range before it is reduced modulo FeeMod.
Raw(t, g, lo, hi, a, b) ==
  IF t < lo THEN a - b ELSE IF t >= hi THEN b - a ELSE g - a - b

LEMMA InsideIsRaw ==
  ASSUME NEW t \in Int, NEW lo \in Int, NEW hi \in Int, lo < hi, NEW i \in Tokens,
         NEW g \in [Tokens -> FeeGrowths],
         NEW a \in [Tokens -> FeeGrowths], NEW b \in [Tokens -> FeeGrowths]
  PROVE  /\ GrowthInside(t, g, lo, hi, a, b)[i] \in FeeGrowths
         /\ Raw(t, g[i], lo, hi, a[i], b[i]) \in Int
         /\ Same(GrowthInside(t, g, lo, hi, a, b)[i], Raw(t, g[i], lo, hi, a[i], b[i]))
<1>1. g[i] \in Int /\ a[i] \in Int /\ b[i] \in Int
  BY DEF FeeGrowths
<1>2. GrowthInside(t, g, lo, hi, a, b)[i] \in FeeGrowths
  BY GrowthInsideType
<1>3. Raw(t, g[i], lo, hi, a[i], b[i]) \in Int
  BY <1>1 DEF Raw
<1>4. CASE t < lo
  <2>1. GrowthInside(t, g, lo, hi, a, b)[i] = WrappingSub(a[i], b[i])
    <3>1. ~(t >= hi)
      BY <1>4
    <3> QED BY <1>4, <3>1 DEF GrowthInside
  <2>2. Raw(t, g[i], lo, hi, a[i], b[i]) = a[i] - b[i]
    BY <1>4 DEF Raw
  <2> QED BY <1>1, <1>2, <1>3, <2>1, <2>2, WrappingSubSame
<1>5. CASE ~(t < lo) /\ t >= hi
  <2>1. GrowthInside(t, g, lo, hi, a, b)[i] = WrappingSub(b[i], a[i])
    BY <1>5 DEF GrowthInside
  <2>2. Raw(t, g[i], lo, hi, a[i], b[i]) = b[i] - a[i]
    BY <1>5 DEF Raw
  <2> QED BY <1>1, <1>2, <1>3, <2>1, <2>2, WrappingSubSame
<1>6. CASE ~(t < lo) /\ ~(t >= hi)
  <2> DEFINE w == WrappingSub(g[i], a[i])
  <2>1. GrowthInside(t, g, lo, hi, a, b)[i] = WrappingSub(w, b[i])
    BY <1>6 DEF GrowthInside
  <2>2. Raw(t, g[i], lo, hi, a[i], b[i]) = (g[i] - a[i]) - b[i]
    BY <1>6 DEF Raw
  <2>3. w \in Int /\ Same(w, g[i] - a[i])
    BY <1>1, WrappingSubSame
  <2> HIDE DEF w
  <2>4. WrappingSub(w, b[i]) = WrappingSub(g[i] - a[i], b[i])
    <3>1. g[i] - a[i] \in Int /\ Same(b[i], b[i])
      BY <1>1, SameReflexive
    <3>2. Same(w - b[i], (g[i] - a[i]) - b[i])
      BY <1>1, <2>3, <3>1, SameSub
    <3> QED BY <1>1, <2>3, <3>1, <3>2, WrappingDifference
  <2>5. g[i] - a[i] \in Int
    BY <1>1
  <2> QED BY <1>1, <1>2, <1>3, <2>1, <2>2, <2>4, <2>5, WrappingSubSame
<1> QED BY <1>4, <1>5, <1>6

\* A tick is passed, and its outside growth flipped, exactly when the pool tick
\* changes sides of it.
Passed(u, s, t, a, b, g) ==
  \/ (u <= s <=> u <= t) /\ b = a
  \/ ~(u <= s <=> u <= t) /\ Same(b, g - a)

\* The growth inside a range between two moments: the global growth when the
\* range was active, nothing when it was not.
LEMMA RawMove ==
  ASSUME NEW s \in Int, NEW t \in Int, NEW lo \in Int, NEW hi \in Int, lo < hi,
         NEW g \in Int, NEW h \in Int,
         NEW a \in Int, NEW b \in Int, NEW c \in Int, NEW d \in Int,
         Passed(lo, s, t, a, c, h), Passed(hi, s, t, b, d, h),
         (lo <= s <=> lo <= t) \/ (hi <= s <=> hi <= t)
  PROVE  Same(Raw(t, h, lo, hi, c, d) - Raw(s, g, lo, hi, a, b),
              IF lo <= s /\ s < hi THEN h - g ELSE 0)
<1> DEFINE change == Raw(t, h, lo, hi, c, d) - Raw(s, g, lo, hi, a, b)
           due    == IF lo <= s /\ s < hi THEN h - g ELSE 0
<1>1. due \in Int /\ change \in Int
  BY DEF Raw
<1>2. CASE (lo <= s <=> lo <= t) /\ (hi <= s <=> hi <= t)
  <2>1. c = a /\ d = b
    BY <1>2 DEF Passed
  <2>2. change = due
    BY <1>2, <2>1 DEF Raw
  <2> QED BY <1>1, <2>2, SameReflexive
<1>3. CASE ~(lo <= s <=> lo <= t) /\ (hi <= s <=> hi <= t)
  <2>1. d = b /\ Same(c, h - a)
    BY <1>3 DEF Passed
  <2>2. PICK q \in Int : c = (h - a) + q * FeeMod
    BY <2>1 DEF Same
  <2> DEFINE x == q * FeeMod
  <2>3. x \in Int /\ c = (h - a) + x /\ (-q) * FeeMod = -x
    BY <2>2, DataAssumption
  <2> HIDE DEF x
  <2>4. change = IF lo <= s THEN due + x ELSE due - x
    BY <1>3, <2>1, <2>3 DEF Raw
  <2>5. change = due + q * FeeMod \/ change = due + (-q) * FeeMod
    BY <1>1, <2>3, <2>4 DEF x
  <2> QED BY <2>5 DEF Same
<1>4. CASE (lo <= s <=> lo <= t) /\ ~(hi <= s <=> hi <= t)
  <2>1. c = a /\ Same(d, h - b)
    BY <1>4 DEF Passed
  <2>2. PICK q \in Int : d = (h - b) + q * FeeMod
    BY <2>1 DEF Same
  <2> DEFINE x == q * FeeMod
  <2>3. x \in Int /\ d = (h - b) + x /\ (-q) * FeeMod = -x
    BY <2>2, DataAssumption
  <2> HIDE DEF x
  <2>4. change = IF hi <= s THEN due - x ELSE due + x
    BY <1>4, <2>1, <2>3 DEF Raw
  <2>5. change = due + q * FeeMod \/ change = due + (-q) * FeeMod
    BY <1>1, <2>3, <2>4 DEF x
  <2> QED BY <2>5 DEF Same
<1> QED BY <1>2, <1>3, <1>4

\* Fee growth inside the range of k, for the tick map tks, pool tick t, globals g.
InsideAt(tks, t, g, k) ==
  GrowthInside(t, g, k[2], k[3], tks[k[2]].outside, tks[k[3]].outside)

LEMMA InsideMove ==
  ASSUME NEW tks, MapOf(tks, Ticks, TickInfos), NEW new, MapOf(new, Ticks, TickInfos),
         NEW k, k[2] \in DOMAIN tks, k[3] \in DOMAIN tks, k[2] \in DOMAIN new, k[3] \in DOMAIN new,
         k[2] < k[3], NEW i \in Tokens, NEW s \in Int, NEW t \in Int,
         NEW g \in [Tokens -> FeeGrowths], NEW h \in [Tokens -> FeeGrowths],
         Passed(k[2], s, t, tks[k[2]].outside[i], new[k[2]].outside[i], h[i]),
         Passed(k[3], s, t, tks[k[3]].outside[i], new[k[3]].outside[i], h[i]),
         (k[2] <= s <=> k[2] <= t) \/ (k[3] <= s <=> k[3] <= t)
  PROVE  /\ InsideAt(new, t, h, k)[i] \in FeeGrowths
         /\ InsideAt(tks, s, g, k)[i] \in FeeGrowths
         /\ WrappingSub(InsideAt(new, t, h, k)[i], InsideAt(tks, s, g, k)[i])
              = IF k[2] <= s /\ s < k[3] THEN WrappingSub(h[i], g[i]) ELSE 0
<1> DEFINE lo == k[2]
           hi == k[3]
           a == tks[lo].outside
           b == tks[hi].outside
           c == new[lo].outside
           d == new[hi].outside
           inRange == lo <= s /\ s < hi
           after   == GrowthInside(t, h, lo, hi, c, d)[i]
           before  == GrowthInside(s, g, lo, hi, a, b)[i]
           change  == Raw(t, h[i], lo, hi, c[i], d[i]) - Raw(s, g[i], lo, hi, a[i], b[i])
           due     == IF inRange THEN h[i] - g[i] ELSE 0
<1>1. lo \in Int /\ hi \in Int /\ lo < hi
  BY TickAssumption DEF MapOf, Ticks
<1>2. /\ a \in [Tokens -> FeeGrowths] /\ b \in [Tokens -> FeeGrowths]
      /\ c \in [Tokens -> FeeGrowths] /\ d \in [Tokens -> FeeGrowths]
  BY DEF MapOf, TickInfos
<1>3. /\ Passed(lo, s, t, a[i], c[i], h[i]) /\ Passed(hi, s, t, b[i], d[i], h[i])
      /\ (lo <= s <=> lo <= t) \/ (hi <= s <=> hi <= t)
  OBVIOUS
<1>4. InsideAt(new, t, h, k)[i] = after /\ InsideAt(tks, s, g, k)[i] = before
  BY DEF InsideAt
<1> HIDE DEF lo, hi, a, b, c, d
<1>5. /\ g[i] \in Int /\ h[i] \in Int /\ a[i] \in Int /\ b[i] \in Int /\ c[i] \in Int /\ d[i] \in Int
      /\ FeeGrowths \subseteq Int
  BY <1>2 DEF FeeGrowths
<1>6. Same(change, due)
  BY <1>1, <1>3, <1>5, RawMove
<1>7. /\ after \in FeeGrowths /\ Raw(t, h[i], lo, hi, c[i], d[i]) \in Int
      /\ Same(after, Raw(t, h[i], lo, hi, c[i], d[i]))
  BY <1>1, <1>2, InsideIsRaw
<1>8. /\ before \in FeeGrowths /\ Raw(s, g[i], lo, hi, a[i], b[i]) \in Int
      /\ Same(before, Raw(s, g[i], lo, hi, a[i], b[i]))
  BY <1>1, <1>2, InsideIsRaw
<1> HIDE DEF after, before
<1>9. Same(after - before, change)
  BY <1>5, <1>7, <1>8, SameSub
<1>10. change \in Int /\ due \in Int /\ after \in Int /\ before \in Int
  BY <1>5, <1>7, <1>8
<1> HIDE DEF change
<1>11. (after - before) % FeeMod = due % FeeMod
  <2>1. (after - before) % FeeMod = change % FeeMod
    <3>1. after - before \in Int
      BY <1>10
    <3> HIDE DEF due
    <3> QED BY <1>9, <1>10, <3>1, SameMod
  <2>2. change % FeeMod = due % FeeMod
    <3> HIDE DEF due
    <3> QED BY <1>6, <1>10, SameMod
  <2> QED BY <2>1, <2>2
<1>12. WrappingSub(after, before) = IF inRange THEN WrappingSub(h[i], g[i]) ELSE 0
  <2>1. CASE inRange
    BY <1>11, <2>1 DEF WrappingSub
  <2>2. CASE ~inRange
    <3>1. 0 % FeeMod = 0
      BY DataAssumption
    <3>2. WrappingSub(after, before) = 0
      BY <1>11, <2>2, <3>1 DEF WrappingSub
    <3> QED BY <2>2, <3>2
  <2> QED BY <2>1, <2>2
<1> QED BY <1>4, <1>7, <1>8, <1>12 DEF lo, hi

\* The globals as the running swap sees them.
SwapGrowth == [feeGrowth EXCEPT ![InToken(swap.zeroForOne)] = swap.growth]

\* What an iteration does to the ticks: those in X, at most one, it passes.
LEMMA SwapStepTicks ==
  ASSUME LedgerInv, NEW price \in Prices, NEW fee, NEW exhausted \in BOOLEAN,
         SwapStep(price, fee, exhausted), ~tainted'
  PROVE  /\ swap.running /\ swap'.running /\ ~tainted
         /\ swap'.zeroForOne = swap.zeroForOne
         /\ swap.liquidity # 0
         /\ fee \in Nat
         /\ swap'.growth = swap.growth + (fee * Q128) \div swap.liquidity
         /\ swap'.charged = swap.charged + fee
         /\ ~swap'.crossed => ~swap.crossed /\ ticks' = ticks
         /\ UNCHANGED <<tick, sqrtPrice, liquidity, feeGrowth, positions, unclaimed>>
         /\ DOMAIN ticks' = DOMAIN ticks
         /\ \E X \in SUBSET DOMAIN ticks :
              /\ \A u, v \in X : u = v
              /\ \A u \in X : /\ ~(u <= swap.tick <=> u <= swap'.tick)
                              /\ ticks'[u].outside = [i \in Tokens |->
                                   WrappingSub(SwapGrowth'[i], ticks[u].outside[i])]
              /\ \A u \in DOMAIN ticks \ X : /\ u <= swap.tick <=> u <= swap'.tick
                                             /\ ticks'[u].outside = ticks[u].outside
<1> DEFINE next    == StepTick
           target  == StepTarget(next.tick)
           growth  == swap.growth + (fee * Q128) \div swap.liquidity
           reached == price = SqrtPriceAt[next.tick]
           crosses == reached /\ next.initialized
           net     == IF swap.zeroForOne THEN -ticks[next.tick].net ELSE ticks[next.tick].net
           after   == IF crosses THEN swap.liquidity + net ELSE swap.liquidity
           moved   == TickAfterStep(next.tick, reached, price)
<1>1. /\ swap.running /\ LoopRuns /\ price \in StepPrice(target)
      /\ fee \in StepFees[InToken(swap.zeroForOne)]
      /\ ticks' = IF crosses THEN FlipOutside(next.tick, growth) ELSE ticks
      /\ IF after \in 0 .. U128Max
         THEN /\ swap' = [swap EXCEPT
                   !.sqrtPrice = price,
                   !.liquidity = after,
                   !.growth    = growth,
                   !.remaining = ~exhausted,
                   !.crossed   = @ \/ crosses,
                   !.charged   = @ + fee,
                   !.tick      = moved]
              /\ UNCHANGED tainted
         ELSE swap' = NoSwap /\ tainted' = TRUE
      /\ UNCHANGED <<tick, sqrtPrice, liquidity, feeGrowth, positions, unclaimed>>
  BY Zenon DEF SwapStep
<1>2. PoolInv /\ TypeOK /\ Shaped /\ MapOf(ticks, Ticks, TickInfos)
      /\ swap \in SwapLocals /\ swap.tick \in Int
      /\ feeGrowth \in [Tokens -> FeeGrowths] /\ InToken(swap.zeroForOne) \in Tokens
  BY TickAssumption DEF LedgerInv, PoolInv, TypeOK, SwapLocals, PoolTicks, InToken, Tokens
<1>3. /\ next.tick \in Ticks /\ next.tick \in Int
      /\ next.initialized <=> next.tick \in DOMAIN ticks
      /\ moved \in Int
      /\ \A u \in DOMAIN ticks \ {next.tick} : u <= moved <=> u <= swap.tick
      /\ reached /\ swap.zeroForOne => next.tick <= swap.tick /\ moved = next.tick - 1
      /\ reached /\ ~swap.zeroForOne => swap.tick < next.tick /\ moved = next.tick
      /\ ~reached /\ next.tick \in DOMAIN ticks => (next.tick <= moved <=> next.tick <= swap.tick)
  <2>1. Ahead(swap)
    BY <1>1, <1>2 DEF Shaped
  <2>2. moved = TickAfterStep(StepTick.tick, price = SqrtPriceAt[StepTick.tick], price)
    OBVIOUS
  <2>3. Ticks \subseteq Int
    BY TickAssumption DEF Ticks
  <2> HIDE DEF moved
  <2> QED BY <1>1, <1>2, <2>1, <2>2, <2>3, SwapStepMoves
<1> HIDE DEF next, target, growth, net, after, moved, reached, crosses
<1>4. after \in 0 .. U128Max
  BY <1>1
<1>5. /\ swap' = [swap EXCEPT
             !.sqrtPrice = price, !.liquidity = after, !.growth = growth,
             !.remaining = ~exhausted, !.crossed = @ \/ crosses,
             !.charged = @ + fee, !.tick = moved]
      /\ tainted' = tainted
  BY <1>1, <1>4
<1>6. /\ swap'.running = swap.running /\ swap'.zeroForOne = swap.zeroForOne
      /\ swap'.growth = growth /\ swap'.charged = swap.charged + fee
      /\ swap'.crossed = (swap.crossed \/ crosses) /\ swap'.tick = moved
  BY <1>2, <1>5 DEF SwapLocals
<1>7. fee \in Nat
  BY <1>1, <1>2, DataAssumption
<1>8. SwapGrowth' = [feeGrowth EXCEPT ![InToken(swap.zeroForOne)] = growth]
  BY <1>1, <1>6 DEF SwapGrowth, InToken
<1>9. DOMAIN ticks' = DOMAIN ticks
  BY <1>1, <1>2, <1>3, FlipOutsideSame DEF crosses
<1> DEFINE X == IF crosses THEN {next.tick} ELSE {}
<1>10. X \in SUBSET DOMAIN ticks /\ \A u, v \in X : u = v
  BY <1>3 DEF crosses
<1>11. ASSUME NEW u \in X
       PROVE  /\ ~(u <= swap.tick <=> u <= swap'.tick)
              /\ ticks'[u].outside = [i \in Tokens |-> WrappingSub(SwapGrowth'[i], ticks[u].outside[i])]
  <2>1. u = next.tick /\ crosses /\ u \in DOMAIN ticks
    BY <1>10, <1>11
  <2>2. ~(u <= swap.tick <=> u <= moved)
    <3>1. CASE swap.zeroForOne
      BY <1>2, <1>3, <2>1, <3>1 DEF crosses
    <3>2. CASE ~swap.zeroForOne
      BY <1>2, <1>3, <2>1, <3>2 DEF crosses
    <3> QED BY <3>1, <3>2
  <2>3. ticks' = FlipOutside(u, growth)
    BY <1>1, <2>1
  <2>4. ticks[u] \in TickInfos
    BY <1>2, <2>1 DEF MapOf
  <2>5. ticks'[u].outside = [i \in Tokens |-> WrappingSub(SwapGrowth'[i], ticks[u].outside[i])]
    BY <1>8, <2>1, <2>3, <2>4 DEF FlipOutside, TickInfos
  <2> QED BY <1>6, <2>2, <2>5
<1>12. ASSUME NEW u \in DOMAIN ticks \ X
       PROVE  /\ u <= swap.tick <=> u <= swap'.tick
              /\ ticks'[u].outside = ticks[u].outside
  <2>1. CASE crosses
    <3>1. u \in DOMAIN ticks \ {next.tick} /\ ticks' = FlipOutside(next.tick, growth)
      BY <1>1, <2>1
    <3>2. ticks'[u] = ticks[u]
      BY <3>1 DEF FlipOutside
    <3>3. u <= moved <=> u <= swap.tick
      BY <1>3, <3>1
    <3> QED BY <1>6, <3>2, <3>3
  <2>2. CASE ~crosses
    <3>1. u <= moved <=> u <= swap.tick
      BY <1>3, <2>2 DEF crosses
    <3> QED BY <1>1, <1>6, <2>2, <3>1
  <2> QED BY <2>1, <2>2
<1>13. ~swap'.crossed => ~swap.crossed /\ ticks' = ticks
  BY <1>1, <1>6
<1>14. swap.liquidity # 0 /\ ~tainted /\ swap'.running
  BY <1>1, <1>5, <1>6 DEF LoopRuns
<1> HIDE DEF X
<1>15. \E Y \in SUBSET DOMAIN ticks :
              /\ \A u, v \in Y : u = v
              /\ \A u \in Y : /\ ~(u <= swap.tick <=> u <= swap'.tick)
                              /\ ticks'[u].outside = [i \in Tokens |->
                                   WrappingSub(SwapGrowth'[i], ticks[u].outside[i])]
              /\ \A u \in DOMAIN ticks \ Y : /\ u <= swap.tick <=> u <= swap'.tick
                                             /\ ticks'[u].outside = ticks[u].outside
  BY <1>10, <1>11, <1>12
<1> QED BY <1>1, <1>6, <1>7, <1>9, <1>13, <1>14, <1>15 DEF growth

-----------------------------------------------------------------------------
(* Who gets the growth                                                         *)

\* What an open position's range is made of.
Bounded(k) ==
  /\ k \in Keys /\ k[2] \in Ticks /\ k[3] \in Ticks /\ k[2] < k[3]
  /\ k[2] \in DOMAIN ticks /\ k[3] \in DOMAIN ticks
  /\ ticks[k[2]].gross > 0 /\ ticks[k[3]].gross > 0

LEMMA OpenBounded == LedgerInv => (~tainted => \A k \in OpenPositions : Bounded(k))
BY OpenBoundaries DEF Bounded

\* The same of the state after a step.
LEMMA OpenBoundedNext == LedgerInv' => (~tainted' => \A k \in OpenPositions' : Bounded(k)')
<1>1. (LedgerInv => (~tainted => \A k \in OpenPositions : Bounded(k)))'
  BY OpenBounded, PTL
<1> QED BY <1>1

\* A tick that counts some liquidity keeps its outside growth when its liquidity changes.
LEMMA ModifyOutside ==
  ASSUME LedgerInv, NEW owner \in Owners, NEW lo \in Ticks, NEW hi \in Ticks,
         NEW delta \in Int, ModifyLiquidity(owner, lo, hi, delta), ~tainted',
         NEW t \in DOMAIN ticks, t \in DOMAIN ticks', ticks[t].gross > 0
  PROVE  ticks'[t].outside = ticks[t].outside
<1> DEFINE tk == UpdateTicks(lo, hi, delta)
<1>1. /\ lo < hi /\ ticks' = tk.ticks
      /\ ticks' # ticks => tk.ok
  <2> DEFINE inside == GrowthInside(tick, feeGrowth, lo, hi, tk.outLo, tk.outHi)
             pos    == UpdatePosition(<<owner, lo, hi>>, delta, inside)
             active == IF lo <= tick /\ tick < hi THEN liquidity + delta ELSE liquidity
             fits   == active \in 0 .. U128Max
  <2>1. /\ CheckTicks(lo, hi) /\ ticks' = tk.ticks
        /\ tainted' = (tainted \/ (~(tk.ok /\ pos.ok /\ fits) /\ ticks' # ticks))
    BY Zenon DEF ModifyLiquidity
  <2> HIDE DEF tk, inside, pos, active, fits
  <2>2. ticks' # ticks => tk.ok
    BY <2>1
  <2> QED BY <2>1, <2>2 DEF CheckTicks
<1>2. TypeOK /\ MapOf(ticks, Ticks, TickInfos)
  BY DEF LedgerInv, PoolInv, TypeOK
<1>3. CASE ticks' = ticks
  BY <1>3
<1>4. CASE ticks' # ticks
  <2>1. tk.ok /\ delta # 0
    <3>1. delta = 0 => tk.ticks = ticks
      BY DEF UpdateTicks
    <3> HIDE DEF tk
    <3> QED BY <1>1, <1>4, <3>1
  <2>2. /\ \A u \in DOMAIN ticks \ {lo, hi} : tk.ticks[u] = ticks[u]
        /\ \A u \in {lo, hi} : u \in DOMAIN tk.ticks =>
             tk.ticks[u].outside = IF GrossAt(ticks, u) = 0 /\ u <= tick THEN feeGrowth
                                   ELSE IF u \in DOMAIN ticks THEN ticks[u].outside
                                   ELSE NewTick.outside
    BY <1>1, <1>2, <2>1, UpdateTicksEffect
  <2>3. GrossAt(ticks, t) # 0
    <3>1. GrossAt(ticks, t) = ticks[t].gross /\ GrossAt(ticks, t) \in Nat
      BY <1>2, TickValues, TickAssumption DEF GrossAt, MapOf, Ticks
    <3> QED BY <3>1
  <2> HIDE DEF tk
  <2>4. CASE t \in {lo, hi}
    BY <1>1, <2>2, <2>3, <2>4
  <2>5. CASE t \notin {lo, hi}
    BY <1>1, <2>2, <2>5
  <2> QED BY <2>4, <2>5
<1> QED BY <1>3, <1>4

\* The property's step, for the view of a running swap and of the committed pool.
GrowthStep(k, i) ==
  WrappingSub(InsideOf(k)'[i], InsideOf(k)[i])
    = IF k[2] <= Current.tick /\ Current.tick < k[3]
      THEN WrappingSub(Current.growth'[i], Current.growth[i]) ELSE 0

LEMMA CurrentView ==
  ASSUME PoolInv
  PROVE  /\ Current.tick = (IF swap.running THEN swap.tick ELSE tick)
         /\ Current.growth = (IF swap.running THEN SwapGrowth ELSE feeGrowth)
         /\ Current.tick \in Int /\ Current.growth \in [Tokens -> FeeGrowths]
         /\ \A k : InsideOf(k) = InsideAt(ticks, Current.tick, Current.growth, k)
<1>1. /\ Current.tick = (IF swap.running THEN swap.tick ELSE tick)
      /\ Current.growth = (IF swap.running THEN SwapGrowth ELSE feeGrowth)
  BY DEF Current, SwapGrowth
<1>2. tick \in Int /\ swap.tick \in Int
  BY TickAssumption DEF PoolInv, TypeOK, SwapLocals, PoolTicks
<1>3. feeGrowth \in [Tokens -> FeeGrowths] /\ SwapGrowth \in [Tokens -> FeeGrowths]
  BY DEF PoolInv, TypeOK, SwapLocals, SwapGrowth
<1> QED BY <1>1, <1>2, <1>3 DEF InsideOf, InsideAt

LEMMA CurrentViewNext ==
  PoolInv' => /\ Current.tick' = (IF swap'.running THEN swap'.tick ELSE tick')
              /\ Current.growth' = (IF swap'.running THEN SwapGrowth' ELSE feeGrowth')
              /\ Current.tick' \in Int /\ Current.growth' \in [Tokens -> FeeGrowths]
              /\ \A k : InsideOf(k)' = InsideAt(ticks', Current.tick', Current.growth', k)
<1>1. PoolInv => /\ Current.tick = (IF swap.running THEN swap.tick ELSE tick)
                 /\ Current.growth = (IF swap.running THEN SwapGrowth ELSE feeGrowth)
                 /\ Current.tick \in Int /\ Current.growth \in [Tokens -> FeeGrowths]
                 /\ \A k : InsideOf(k) = InsideAt(ticks, Current.tick, Current.growth, k)
  BY CurrentView
<1>2. (PoolInv => /\ Current.tick = (IF swap.running THEN swap.tick ELSE tick)
                  /\ Current.growth = (IF swap.running THEN SwapGrowth ELSE feeGrowth)
                  /\ Current.tick \in Int /\ Current.growth \in [Tokens -> FeeGrowths]
                  /\ \A k : InsideOf(k) = InsideAt(ticks, Current.tick, Current.growth, k))'
  BY <1>1, PTL
<1> QED BY <1>2

\* When the pool stays on its side of both boundaries.
LEMMA QuietGrowth ==
  ASSUME LedgerInv, LedgerInv', ~tainted, ~tainted',
         NEW k \in OpenPositions, k \in OpenPositions', NEW i \in Tokens,
         ticks'[k[2]].outside = ticks[k[2]].outside, ticks'[k[3]].outside = ticks[k[3]].outside,
         k[2] <= Current.tick <=> k[2] <= Current.tick',
         k[3] <= Current.tick <=> k[3] <= Current.tick'
  PROVE  GrowthStep(k, i)
<1>1. Bounded(k)
  BY OpenBounded
<1>2. k[2] \in DOMAIN ticks' /\ k[3] \in DOMAIN ticks'
  BY OpenBoundedNext DEF Bounded
<1>3. PoolInv /\ PoolInv' /\ MapOf(ticks, Ticks, TickInfos) /\ MapOf(ticks', Ticks, TickInfos)
  BY DEF LedgerInv, PoolInv, TypeOK
<1> DEFINE s == Current.tick
           t == Current.tick'
           g == Current.growth
           h == Current.growth'
<1>4. /\ s \in Int /\ g \in [Tokens -> FeeGrowths] /\ InsideOf(k) = InsideAt(ticks, s, g, k)
      /\ t \in Int /\ h \in [Tokens -> FeeGrowths] /\ InsideOf(k)' = InsideAt(ticks', t, h, k)
  BY <1>3, CurrentView, CurrentViewNext
<1>5. /\ Passed(k[2], s, t, ticks[k[2]].outside[i], ticks'[k[2]].outside[i], h[i])
      /\ Passed(k[3], s, t, ticks[k[3]].outside[i], ticks'[k[3]].outside[i], h[i])
      /\ k[2] <= s <=> k[2] <= t
  BY DEF Passed
<1> HIDE DEF s, t, g, h
<1>6. /\ k[2] \in DOMAIN ticks /\ k[3] \in DOMAIN ticks /\ k[2] < k[3]
  BY <1>1 DEF Bounded
<1>7. WrappingSub(InsideAt(ticks', t, h, k)[i], InsideAt(ticks, s, g, k)[i])
        = IF k[2] <= s /\ s < k[3] THEN WrappingSub(h[i], g[i]) ELSE 0
  BY <1>2, <1>3, <1>4, <1>5, <1>6, InsideMove
<1> QED BY <1>4, <1>7 DEF GrowthStep, s, t, g, h

LEMMA SwapStepGrowth ==
  ASSUME LedgerInv, LedgerInv', NEW price \in Prices, NEW fee, NEW exhausted \in BOOLEAN,
         SwapStep(price, fee, exhausted), ~tainted', NEW k \in OpenPositions, NEW i \in Tokens
  PROVE  GrowthStep(k, i)
<1>1. /\ swap.running /\ swap'.running /\ ~tainted /\ DOMAIN ticks' = DOMAIN ticks
      /\ \E X \in SUBSET DOMAIN ticks :
              /\ \A u, v \in X : u = v
              /\ \A u \in X : /\ ~(u <= swap.tick <=> u <= swap'.tick)
                              /\ ticks'[u].outside = [j \in Tokens |->
                                   WrappingSub(SwapGrowth'[j], ticks[u].outside[j])]
              /\ \A u \in DOMAIN ticks \ X : /\ u <= swap.tick <=> u <= swap'.tick
                                             /\ ticks'[u].outside = ticks[u].outside
  BY SwapStepTicks
<1>2. PICK X \in SUBSET DOMAIN ticks :
              /\ \A u, v \in X : u = v
              /\ \A u \in X : /\ ~(u <= swap.tick <=> u <= swap'.tick)
                              /\ ticks'[u].outside = [j \in Tokens |->
                                   WrappingSub(SwapGrowth'[j], ticks[u].outside[j])]
              /\ \A u \in DOMAIN ticks \ X : /\ u <= swap.tick <=> u <= swap'.tick
                                             /\ ticks'[u].outside = ticks[u].outside
  BY <1>1
<1>3. Bounded(k)
  BY <1>1, OpenBounded
<1>4. PoolInv /\ PoolInv' /\ MapOf(ticks, Ticks, TickInfos) /\ MapOf(ticks', Ticks, TickInfos)
  BY DEF LedgerInv, PoolInv, TypeOK
<1> DEFINE s == swap.tick
           t == swap'.tick
           g == SwapGrowth
           h == SwapGrowth'
<1>5. /\ Current.tick = s /\ Current.growth = g /\ Current.tick' = t /\ Current.growth' = h
      /\ s \in Int /\ g \in [Tokens -> FeeGrowths] /\ InsideOf(k) = InsideAt(ticks, s, g, k)
      /\ t \in Int /\ h \in [Tokens -> FeeGrowths] /\ InsideOf(k)' = InsideAt(ticks', t, h, k)
  BY <1>1, <1>4, CurrentView, CurrentViewNext
<1>6. /\ k[2] \in DOMAIN ticks /\ k[3] \in DOMAIN ticks /\ k[2] < k[3]
      /\ k[2] \in Int /\ k[3] \in Int
  BY <1>3, TickAssumption DEF Bounded, Ticks
<1>7. ASSUME NEW u \in DOMAIN ticks
      PROVE  Passed(u, s, t, ticks[u].outside[i], ticks'[u].outside[i], h[i])
  <2>1. CASE u \in X
    <3>1. /\ ~(u <= s <=> u <= t)
          /\ ticks'[u].outside[i] = WrappingSub(h[i], ticks[u].outside[i])
      <4>1. /\ ~(u <= s <=> u <= t)
            /\ ticks'[u].outside = [j \in Tokens |-> WrappingSub(h[j], ticks[u].outside[j])]
        BY ONLY <1>2, <2>1
      <4>2. i \in Tokens
        OBVIOUS
      <4> HIDE DEF h
      <4> QED BY ONLY <4>1, <4>2
    <3>2. h[i] \in Int /\ ticks[u].outside[i] \in Int
      BY <1>4, <1>5 DEF MapOf, TickInfos, FeeGrowths
    <3>3. Same(ticks'[u].outside[i], h[i] - ticks[u].outside[i])
      BY <3>1, <3>2, WrappingSubSame
    <3> QED BY <3>1, <3>3 DEF Passed
  <2>2. CASE u \notin X
    <3>1. (u <= s <=> u <= t) /\ ticks'[u].outside = ticks[u].outside
      BY <1>2, <2>2
    <3> QED BY <3>1 DEF Passed
  <2> QED BY <2>1, <2>2
<1>8. (k[2] <= s <=> k[2] <= t) \/ (k[3] <= s <=> k[3] <= t)
  <2>1. k[2] \notin X \/ k[3] \notin X
    BY <1>2, <1>6
  <2> QED BY <1>2, <1>6, <2>1
<1> HIDE DEF s, t, g, h
<1>9. WrappingSub(InsideAt(ticks', t, h, k)[i], InsideAt(ticks, s, g, k)[i])
        = IF k[2] <= s /\ s < k[3] THEN WrappingSub(h[i], g[i]) ELSE 0
  <2>1. Passed(k[2], s, t, ticks[k[2]].outside[i], ticks'[k[2]].outside[i], h[i])
        /\ Passed(k[3], s, t, ticks[k[3]].outside[i], ticks'[k[3]].outside[i], h[i])
    BY <1>6, <1>7
  <2> QED BY <1>1, <1>4, <1>5, <1>6, <1>8, <2>1, InsideMove
<1> QED BY <1>5, <1>9 DEF GrowthStep

LEMMA NextGrowth ==
  ASSUME LedgerInv, LedgerInv', [Next]_vars, ~tainted',
         NEW k \in OpenPositions, k \in OpenPositions', NEW i \in Tokens
  PROVE  GrowthStep(k, i)
<1>1. PoolInv /\ PoolInv'
  BY DEF LedgerInv
<1>2. /\ Current.tick = (IF swap.running THEN swap.tick ELSE tick)
      /\ Current.tick' = (IF swap'.running THEN swap'.tick ELSE tick')
  BY <1>1, CurrentView, CurrentViewNext
<1>3. ASSUME NEW owner \in Owners, NEW r \in Ranges, NEW delta \in Deltas,
             ModifyLiquidity(owner, r[1], r[2], delta)
      PROVE  GrowthStep(k, i)
  <2>1. r[1] \in Ticks /\ r[2] \in Ticks /\ delta \in Int
    BY DataAssumption
  <2>2. ~swap.running /\ swap' = swap /\ tick' = tick /\ ~tainted
    <3>1. (tainted => tainted') /\ ~swap.running /\ swap' = swap /\ tick' = tick
      BY <1>3, Zenon DEF ModifyLiquidity
    <3> QED BY <3>1
  <2>3. Bounded(k) /\ Bounded(k)'
    BY <2>2, OpenBounded, OpenBoundedNext
  <2>4. ticks'[k[2]].outside = ticks[k[2]].outside /\ ticks'[k[3]].outside = ticks[k[3]].outside
    BY <1>3, <2>1, <2>3, ModifyOutside DEF Bounded
  <2> QED BY <1>2, <2>2, <2>4, QuietGrowth
<1>4. ASSUME NEW zeroForOne \in BOOLEAN, NEW limit \in Limits, SwapBegin(zeroForOne, limit)
      PROVE  GrowthStep(k, i)
  <2>1. ~swap.running /\ swap'.running /\ swap'.tick = tick /\ ticks' = ticks /\ ~tainted
    BY <1>4 DEF SwapBegin
  <2> QED BY <1>2, <2>1, QuietGrowth
<1>5. ASSUME NEW price \in Prices, NEW fee, NEW exhausted \in BOOLEAN,
             SwapStep(price, fee, exhausted)
      PROVE  GrowthStep(k, i)
  BY <1>5, SwapStepGrowth
<1>6. CASE SwapCommit
  <2>1. swap.running /\ ~swap'.running /\ tick' = swap.tick /\ ticks' = ticks /\ ~tainted
    BY <1>6 DEF SwapCommit, NoSwap
  <2> QED BY <1>2, <2>1, QuietGrowth
<1>7. CASE SwapFail
  <2>1. swap.running /\ ~swap'.running /\ tick' = tick /\ ticks' = ticks /\ ~tainted /\ ~swap.crossed
    BY <1>7 DEF SwapFail, NoSwap
  <2>2. k[2] \in DOMAIN ticks /\ k[3] \in DOMAIN ticks
    BY <2>1, OpenBounded DEF Bounded
  <2>3. (k[2] <= tick <=> k[2] <= swap.tick) /\ (k[3] <= tick <=> k[3] <= swap.tick)
    BY <2>1, <2>2 DEF LedgerInv, Shaped
  <2> QED BY <1>2, <2>1, <2>3, QuietGrowth
<1>8. CASE UNCHANGED vars
  BY <1>2, <1>8, QuietGrowth DEF vars
<1> QED BY <1>3, <1>4, <1>5, <1>6, <1>7, <1>8 DEF Next

\* On every grid, whatever the wrapping of the accumulators: the growth inside an
\* open position's range advances by the global growth of a step while the pool
\* is in the range, and by nothing otherwise.
THEOREM GrowthToActiveRanges == Spec => GrowthGoesToActiveRanges
<1> DEFINE Step ==
      ~tainted' => \A k \in OpenPositions \cap OpenPositions' : \A i \in Tokens : GrowthStep(k, i)
<1>1. LedgerInv /\ LedgerInv' /\ [Next]_vars => [Step]_vars
  BY NextGrowth
<1>2. Spec => []LedgerInv
  BY InitLedger, NextLedger, PTL DEF Spec
<1>3. Spec => [][Step]_vars
  BY <1>1, <1>2, PTL DEF Spec
<1> QED BY <1>3 DEF GrowthGoesToActiveRanges, GrowthStep

-----------------------------------------------------------------------------
(* What the positions can collect                                              *)

\* What each position is owed, in units of 1 / Q128: the positions' shares
\* before each is rounded down.
Credits(tks, pos, t, g, i) ==
  [k \in DOMAIN pos |->
     IF pos[k].liquidity > 0
     THEN WrappingSub(InsideAt(tks, t, g, k)[i], pos[k].last[i]) * pos[k].liquidity
     ELSE 0]

Owing(tks, pos, t, g, i) == SumFunctionOnSet(Credits(tks, pos, t, g, i), DOMAIN pos)

\* The fees the running swap has charged in token i.
Charged(i) == IF i = InToken(swap.zeroForOne) THEN swap.charged ELSE 0

\* At the committed state, which a swap that has crossed no tick yet may fall back
\* to, and at the state of the running swap.
Covered ==
  \A i \in Tokens :
    /\ (swap.running => ~swap.crossed)
         => Owing(ticks, positions, tick, feeGrowth, i) <= Q128 * unclaimed[i]
    /\ swap.running
         => Owing(ticks, positions, swap.tick, SwapGrowth, i) <= Q128 * (unclaimed[i] + Charged(i))

FeesInv == LedgerInv /\ (~tainted => Covered)

LEMMA CreditType ==
  ASSUME LedgerInv, ~tainted, NEW t \in Int, NEW g \in [Tokens -> FeeGrowths], NEW i \in Tokens
  PROVE  /\ \A k \in DOMAIN positions : Credits(ticks, positions, t, g, i)[k] \in Nat
         /\ \A k \in OpenPositions : InsideAt(ticks, t, g, k)[i] \in FeeGrowths
         /\ Owing(ticks, positions, t, g, i) \in Nat
<1> DEFINE c == Credits(ticks, positions, t, g, i)
<1>1. /\ MapOf(ticks, Ticks, TickInfos) /\ MapOf(positions, Keys, PositionStates)
      /\ IsFiniteSet(DOMAIN positions)
  BY DEF LedgerInv, PoolInv, TypeOK, Shaped, Positions
<1>2. ASSUME NEW k \in OpenPositions PROVE InsideAt(ticks, t, g, k)[i] \in FeeGrowths
  <2>1. k[2] \in DOMAIN ticks /\ k[3] \in DOMAIN ticks /\ k[2] \in Int /\ k[3] \in Int
    BY OpenBounded, TickAssumption DEF Bounded, Ticks
  <2>2. ticks[k[2]].outside \in [Tokens -> FeeGrowths] /\ ticks[k[3]].outside \in [Tokens -> FeeGrowths]
    BY <1>1, <2>1 DEF MapOf, TickInfos
  <2>3. InsideAt(ticks, t, g, k) \in [Tokens -> FeeGrowths]
    BY <2>1, <2>2, GrowthInsideType DEF InsideAt
  <2> QED BY <2>3
<1>3. ASSUME NEW k \in DOMAIN positions PROVE c[k] \in Nat
  <2>1. positions[k].liquidity \in Nat /\ positions[k].last[i] \in Int
    BY <1>1, DataAssumption DEF MapOf, PositionStates, FeeGrowths
  <2>2. CASE positions[k].liquidity > 0
    <3>1. k \in OpenPositions
      BY <2>2 DEF OpenPositions
    <3>2. InsideAt(ticks, t, g, k)[i] \in Int
      BY <1>2, <3>1 DEF FeeGrowths
    <3>3. WrappingSub(InsideAt(ticks, t, g, k)[i], positions[k].last[i]) \in Nat
      <4> DEFINE x == InsideAt(ticks, t, g, k)[i]
                 y == positions[k].last[i]
      <4>1. x \in Int /\ y \in Int
        BY <2>1, <3>2
      <4> HIDE DEF x, y
      <4>2. WrappingSub(x, y) \in 0 .. FeeMod - 1
        BY <4>1, WrappingSubSame
      <4>3. WrappingSub(x, y) \in Nat
        BY <4>2, DataAssumption
      <4> QED BY <4>3 DEF x, y
    <3>4. c[k] = WrappingSub(InsideAt(ticks, t, g, k)[i], positions[k].last[i]) * positions[k].liquidity
      BY <2>2 DEF Credits
    <3> QED BY <2>1, <3>3, <3>4
  <2>3. CASE ~(positions[k].liquidity > 0)
    BY <2>3 DEF Credits
  <2> QED BY <2>2, <2>3
<1>4. Owing(ticks, positions, t, g, i) = SumFunctionOnSet(c, DOMAIN positions)
  BY DEF Owing
<1> HIDE DEF c
<1>5. Owing(ticks, positions, t, g, i) \in Nat
  BY <1>1, <1>3, <1>4, SumNatural
<1> QED BY <1>2, <1>3, <1>5 DEF c

LEMMA CreditTypeNext ==
  LedgerInv' => (~tainted' => \A t \in Int : \A g \in [Tokens -> FeeGrowths] : \A i \in Tokens :
    /\ \A k \in DOMAIN positions' : Credits(ticks', positions', t, g, i)[k] \in Nat
    /\ Owing(ticks', positions', t, g, i) \in Nat)
<1>1. LedgerInv => (~tainted => \A t \in Int : \A g \in [Tokens -> FeeGrowths] : \A i \in Tokens :
        /\ \A k \in DOMAIN positions : Credits(ticks, positions, t, g, i)[k] \in Nat
        /\ Owing(ticks, positions, t, g, i) \in Nat)
  BY CreditType
<1>2. (LedgerInv => (~tainted => \A t \in Int : \A g \in [Tokens -> FeeGrowths] : \A i \in Tokens :
        /\ \A k \in DOMAIN positions : Credits(ticks, positions, t, g, i)[k] \in Nat
        /\ Owing(ticks, positions, t, g, i) \in Nat))'
  BY <1>1, PTL
<1> QED BY <1>2

LEMMA InitFees == Init => FeesInv
<1> SUFFICES ASSUME Init PROVE FeesInv
  OBVIOUS
<1>1. LedgerInv /\ positions = [k \in {} |-> NewPosition] /\ ~swap.running /\ unclaimed = [i \in Tokens |-> 0]
  BY InitLedger DEF Init, NoSwap
<1>2. ASSUME NEW i \in Tokens
      PROVE  Owing(ticks, positions, tick, feeGrowth, i) <= Q128 * unclaimed[i]
  <2>1. DOMAIN positions = {}
    BY <1>1
  <2>2. Owing(ticks, positions, tick, feeGrowth, i) = 0
    BY <2>1, SumEmpty DEF Owing
  <2>3. Q128 * unclaimed[i] = 0
    BY <1>1, DataAssumption
  <2> QED BY <2>2, <2>3
<1> QED BY <1>1, <1>2 DEF FeesInv, Covered

\* What modify_liquidity takes the growth inside its range to be: what the ticks
\* say, before when the position was open and after when it is.
LEMMA ModifyInside ==
  ASSUME LedgerInv, NEW key \in Keys, key[2] < key[3], NEW delta \in Int,
         NEW tk, tk = UpdateTicks(key[2], key[3], delta), tk.ok
  PROVE  LET inside == GrowthInside(tick, feeGrowth, key[2], key[3], tk.outLo, tk.outHi)
         IN  /\ Bounded(key) => inside = InsideAt(ticks, tick, feeGrowth, key)
             /\ key[2] \in DOMAIN tk.ticks /\ key[3] \in DOMAIN tk.ticks
                  => inside = InsideAt(tk.ticks, tick, feeGrowth, key)
<1> DEFINE lo == key[2]
           hi == key[3]
<1>1. /\ TypeOK /\ MapOf(ticks, Ticks, TickInfos) /\ lo \in Ticks /\ hi \in Ticks
  BY DEF LedgerInv, PoolInv, TypeOK, Keys
<1>2. /\ Bounded(key) => tk.outLo = ticks[lo].outside /\ tk.outHi = ticks[hi].outside
      /\ lo \in DOMAIN tk.ticks => tk.outLo = tk.ticks[lo].outside
      /\ hi \in DOMAIN tk.ticks => tk.outHi = tk.ticks[hi].outside
  <2>1. CASE delta = 0
    <3> DEFINE out(t) == IF t \in DOMAIN ticks THEN ticks[t].outside ELSE NewTick.outside
    <3>1. tk = [ok |-> TRUE, ticks |-> ticks, outLo |-> out(lo), outHi |-> out(hi)]
      BY <2>1 DEF UpdateTicks
    <3>2. tk.ticks = ticks /\ tk.outLo = out(lo) /\ tk.outHi = out(hi)
      BY <3>1
    <3> QED BY <3>2 DEF Bounded
  <2>2. CASE delta # 0
    <3>1. /\ lo \in DOMAIN tk.ticks => tk.outLo = tk.ticks[lo].outside
          /\ hi \in DOMAIN tk.ticks => tk.outHi = tk.ticks[hi].outside
          /\ GrossAt(ticks, lo) # 0 => tk.outLo = ticks[lo].outside
          /\ GrossAt(ticks, hi) # 0 => tk.outHi = ticks[hi].outside
      BY <1>1, <2>2, UpdateTicksEffect
    <3>2. Bounded(key) => GrossAt(ticks, lo) # 0 /\ GrossAt(ticks, hi) # 0
      <4> SUFFICES ASSUME Bounded(key) PROVE GrossAt(ticks, lo) # 0 /\ GrossAt(ticks, hi) # 0
        OBVIOUS
      <4>1. ticks[lo].gross > 0 /\ ticks[hi].gross > 0 /\ ticks[lo].gross \in Int /\ ticks[hi].gross \in Int
            /\ lo \in DOMAIN ticks /\ hi \in DOMAIN ticks
        BY <1>1, DataAssumption DEF Bounded, MapOf, TickInfos
      <4> QED BY <4>1 DEF GrossAt
    <3> QED BY <3>1, <3>2
  <2> QED BY <2>1, <2>2
<1> QED BY <1>2 DEF InsideAt

\* The credit of the other positions is untouched.
LEMMA OtherCredits ==
  ASSUME LedgerInv, LedgerInv', NEW owner \in Owners, NEW lo \in Ticks, NEW hi \in Ticks,
         NEW delta \in Int, ModifyLiquidity(owner, lo, hi, delta), ~tainted, ~tainted',
         NEW k \in DOMAIN positions, k \in DOMAIN positions', positions'[k] = positions[k],
         NEW i \in Tokens
  PROVE  Credits(ticks', positions', tick, feeGrowth, i)[k]
           = Credits(ticks, positions, tick, feeGrowth, i)[k]
<1>1. CASE positions[k].liquidity > 0
  <2>1. k \in OpenPositions /\ k \in OpenPositions'
    BY <1>1 DEF OpenPositions
  <2>2. Bounded(k) /\ Bounded(k)'
    BY <2>1, OpenBounded, OpenBoundedNext
  <2>3. ticks'[k[2]].outside = ticks[k[2]].outside /\ ticks'[k[3]].outside = ticks[k[3]].outside
    BY <2>2, ModifyOutside DEF Bounded
  <2>4. InsideAt(ticks', tick, feeGrowth, k) = InsideAt(ticks, tick, feeGrowth, k)
    BY <2>3 DEF InsideAt
  <2> QED BY <1>1, <2>4 DEF Credits
<1>2. CASE ~(positions[k].liquidity > 0)
  BY <1>2 DEF Credits
<1> QED BY <1>1, <1>2

\* A product covers its own part, rounded down.
LEMMA RoundedPart ==
  ASSUME NEW x \in Int
  PROVE  x \div Q128 \in Int /\ Q128 * (x \div Q128) <= x
BY DivFloor, DataAssumption

LEMMA ModifyLiquidityFees ==
  ASSUME FeesInv, LedgerInv', NEW owner \in Owners, NEW lo \in Ticks, NEW hi \in Ticks,
         NEW delta \in Int, ModifyLiquidity(owner, lo, hi, delta), ~tainted'
  PROVE  Covered'
<1> DEFINE key    == <<owner, lo, hi>>
           tk     == UpdateTicks(lo, hi, delta)
           inside == GrowthInside(tick, feeGrowth, lo, hi, tk.outLo, tk.outHi)
           pos    == UpdatePosition(key, delta, inside)
           active == IF lo <= tick /\ tick < hi THEN liquidity + delta ELSE liquidity
           fits   == active \in 0 .. U128Max
<1>1. /\ ~swap.running /\ CheckTicks(lo, hi)
      /\ ticks' = tk.ticks
      /\ \/ /\ ~tk.ok
            /\ UNCHANGED <<positions, liquidity, unclaimed>>
         \/ /\ tk.ok /\ ~(pos.ok /\ fits)
            /\ positions' = pos.positions
            /\ UNCHANGED <<liquidity, unclaimed>>
         \/ /\ tk.ok /\ pos.ok /\ fits
            /\ positions' = pos.positions
            /\ liquidity' = active
            /\ unclaimed' = [i \in Tokens |-> unclaimed[i] - pos.owed[i]]
      /\ tainted' = (tainted \/ (~(tk.ok /\ pos.ok /\ fits) /\ ticks' # ticks))
      /\ UNCHANGED <<tick, sqrtPrice, feeGrowth, swap>>
  BY Zenon DEF ModifyLiquidity
<1>2. /\ LedgerInv /\ TypeOK /\ key \in Keys /\ key[2] = lo /\ key[3] = hi /\ lo < hi
      /\ tick \in Int /\ feeGrowth \in [Tokens -> FeeGrowths] /\ unclaimed \in [Tokens -> Int]
      /\ IsFiniteSet(DOMAIN positions) /\ IsFiniteSet(DOMAIN positions')
  <2>1. TypeOK /\ tick \in Int /\ feeGrowth \in [Tokens -> FeeGrowths] /\ unclaimed \in [Tokens -> Int]
    BY TickAssumption DEF FeesInv, LedgerInv, PoolInv, TypeOK, PoolTicks, Ticks
  <2> QED BY <1>1, <2>1 DEF FeesInv, LedgerInv, Keys, CheckTicks, Shaped, Positions
<1>3. /\ DOMAIN pos.positions = DOMAIN positions \cup {key}
      /\ \A k \in DOMAIN positions \ {key} : pos.positions[k] = positions[k]
      /\ \/ pos.positions[key] = PositionAt(positions, key) /\ ~pos.ok
         \/ pos.positions[key] = [liquidity |-> PositionAt(positions, key).liquidity + delta,
                                  last      |-> inside]
      /\ pos.ok => pos.owed = FeesOwed(PositionAt(positions, key).liquidity, inside,
                                       PositionAt(positions, key).last)
  <2>1. pos = UpdatePosition(key, delta, inside)
    OBVIOUS
  <2> HIDE DEF pos, inside, key
  <2> QED BY <1>2, <2>1, UpdatePositionEffect
<1>4. tk.ok => /\ Bounded(key) => inside = InsideAt(ticks, tick, feeGrowth, key)
               /\ lo \in DOMAIN tk.ticks /\ hi \in DOMAIN tk.ticks
                    => inside = InsideAt(tk.ticks, tick, feeGrowth, key)
  <2>1. tk = UpdateTicks(key[2], key[3], delta)
    OBVIOUS
  <2> HIDE DEF tk
  <2> QED BY <1>2, <2>1, ModifyInside
<1> HIDE DEF key, tk, inside, pos, active, fits
<1>5. ~tainted /\ Covered /\ ~swap'.running /\ tick' = tick /\ feeGrowth' = feeGrowth
  <2>1. ~tainted
    BY <1>1
  <2> QED BY <1>1, <2>1 DEF FeesInv
<1>6. ASSUME NEW i \in Tokens
      PROVE  Owing(ticks', positions', tick, feeGrowth, i) <= Q128 * unclaimed'[i]
  <2> DEFINE c == Credits(ticks, positions, tick, feeGrowth, i)
             d == Credits(ticks', positions', tick, feeGrowth, i)
             before == IF key \in DOMAIN positions THEN c[key] ELSE 0
             after  == IF key \in DOMAIN positions' THEN d[key] ELSE 0
  <2>1. /\ Owing(ticks, positions, tick, feeGrowth, i) <= Q128 * unclaimed[i]
        /\ Owing(ticks, positions, tick, feeGrowth, i) = SumFunctionOnSet(c, DOMAIN positions)
        /\ Owing(ticks', positions', tick, feeGrowth, i) = SumFunctionOnSet(d, DOMAIN positions')
        /\ unclaimed[i] \in Int /\ Q128 * unclaimed[i] \in Int
    <3>1. Owing(ticks, positions, tick, feeGrowth, i) <= Q128 * unclaimed[i]
      BY <1>1, <1>5 DEF Covered
    <3>2. unclaimed[i] \in Int /\ Q128 * unclaimed[i] \in Int
      BY <1>2, DataAssumption
    <3> QED BY <3>1, <3>2 DEF Owing
  <2>2. /\ DOMAIN c = DOMAIN positions /\ DOMAIN d = DOMAIN positions'
        /\ \A k \in DOMAIN positions : c[k] \in Nat
        /\ \A k \in DOMAIN positions' : d[k] \in Nat
        /\ Owing(ticks, positions, tick, feeGrowth, i) \in Nat
    <3>1. DOMAIN c = DOMAIN positions /\ DOMAIN d = DOMAIN positions'
      BY DEF Credits
    <3> HIDE DEF c, d
    <3>2. \A k \in DOMAIN positions' : d[k] \in Nat
      BY <1>2, CreditTypeNext DEF d
    <3>3. (\A k \in DOMAIN positions : c[k] \in Nat) /\ Owing(ticks, positions, tick, feeGrowth, i) \in Nat
      BY <1>2, <1>5, CreditType DEF c
    <3> QED BY <3>1, <3>2, <3>3
  <2>3. CASE ~tk.ok
    <3>1. ticks' = ticks /\ positions' = positions /\ unclaimed' = unclaimed
      BY <1>1, <2>3
    <3> QED BY <2>1, <3>1
  <2>4. CASE tk.ok
    <3>1. positions' = pos.positions /\ ticks' = tk.ticks
      BY <1>1, <2>4
    <3>2. ASSUME NEW k \in DOMAIN positions, positions'[k] = positions[k], k \in DOMAIN positions'
          PROVE  d[k] = c[k]
      BY <1>2, <1>5, <3>2, OtherCredits
    <3>3. DOMAIN d \ {key} = DOMAIN c \ {key} /\ \A k \in DOMAIN c \ {key} : d[k] = c[k]
      <4>1. DOMAIN d \ {key} = DOMAIN c \ {key}
        BY <1>3, <2>2, <3>1
      <4>2. ASSUME NEW k \in DOMAIN c \ {key} PROVE d[k] = c[k]
        <5>1. k \in DOMAIN positions /\ k \in DOMAIN positions' /\ positions'[k] = positions[k]
          BY <1>3, <2>2, <3>1
        <5> HIDE DEF c, d
        <5> QED BY <3>2, <5>1
      <4> QED BY <4>1, <4>2
    <3>4. SumFunctionOnSet(d, DOMAIN positions') = SumFunctionOnSet(c, DOMAIN positions) + after - before
      <4> HIDE DEF c, d
      <4>1. SumFunctionOnSet(d, DOMAIN d \cap Keys) =
              SumFunctionOnSet(c, DOMAIN c \cap Keys)
                + IF key \in Keys THEN (IF key \in DOMAIN d THEN d[key] ELSE 0)
                                        - (IF key \in DOMAIN c THEN c[key] ELSE 0) ELSE 0
        BY <1>2, <2>2, <3>3, SumEntry
      <4>2. DOMAIN d \cap Keys = DOMAIN positions' /\ DOMAIN c \cap Keys = DOMAIN positions
        BY <1>2, <2>2 DEF LedgerInv, Shaped, Positions, MapOf
      <4>3. SumFunctionOnSet(c, DOMAIN positions) \in Int /\ before \in Int /\ after \in Int
        BY <2>1, <2>2
      <4> QED BY <1>2, <2>2, <4>1, <4>2, <4>3
    <3>5. key \in DOMAIN positions' /\ after = d[key] /\ after \in Nat /\ before \in Nat
      <4>1. key \in DOMAIN positions'
        BY <1>3, <3>1
      <4> HIDE DEF c, d
      <4> QED BY <2>2, <4>1
    <3>6. CASE positions'[key] = PositionAt(positions, key) /\ ~pos.ok
      <4>1. after = before
        <5>1. CASE key \in DOMAIN positions
          <6>1. positions'[key] = positions[key]
            BY <3>6, <5>1 DEF PositionAt
          <6> HIDE DEF c, d
          <6> QED BY <3>2, <3>5, <5>1, <6>1
        <5>2. CASE key \notin DOMAIN positions
          <6>1. positions'[key].liquidity = 0
            BY <3>6, <5>2 DEF PositionAt, NewPosition
          <6>2. d[key] = 0
            BY <3>5, <6>1 DEF Credits
          <6> QED BY <3>5, <5>2, <6>2
        <5> QED BY <5>1, <5>2
      <4>2. unclaimed' = unclaimed
        BY <1>1, <2>4, <3>6
      <4> HIDE DEF c, d, before, after
      <4> QED BY <2>1, <2>2, <3>4, <3>5, <4>1, <4>2
    <3>7. CASE positions'[key] = [liquidity |-> PositionAt(positions, key).liquidity + delta,
                                  last      |-> inside]
      <4>1. after = 0
        <5>1. CASE positions'[key].liquidity > 0
          <6>1. key \in OpenPositions'
            BY <3>5, <5>1 DEF OpenPositions
          <6>2. Bounded(key)'
            BY <6>1, OpenBoundedNext
          <6>3. lo \in DOMAIN tk.ticks /\ hi \in DOMAIN tk.ticks
            BY <1>2, <3>1, <6>2 DEF Bounded
          <6>4. inside = InsideAt(ticks', tick, feeGrowth, key)
            BY <1>4, <2>4, <3>1, <6>3
          <6>5. d[key] = WrappingSub(inside[i], inside[i]) * positions'[key].liquidity
            <7>1. positions'[key].last = inside
              BY <3>7
            <7> QED BY <3>5, <5>1, <6>4, <7>1 DEF Credits
          <6>6. positions'[key].liquidity \in Int
            BY <3>5, DataAssumption DEF LedgerInv, Shaped, Positions, MapOf, PositionStates
          <6>7. WrappingSub(inside[i], inside[i]) = 0
            <7>1. inside[i] \in Int
              <8>1. tk.outLo \in [Tokens -> FeeGrowths] /\ tk.outHi \in [Tokens -> FeeGrowths]
                BY <1>2, <2>4, UpdateTicksType DEF tk
              <8>2. inside \in [Tokens -> FeeGrowths]
                <9>1. tick \in Int /\ lo \in Int /\ hi \in Int /\ feeGrowth \in [Tokens -> FeeGrowths]
                  BY <1>2, TickAssumption DEF Ticks
                <9> QED BY <8>1, <9>1, GrowthInsideType DEF inside
              <8> QED BY <8>2 DEF FeeGrowths
            <7>2. inside[i] - inside[i] = 0 /\ 0 % FeeMod = 0
              BY <7>1, DataAssumption
            <7> QED BY <7>2 DEF WrappingSub
          <6> HIDE DEF c, d
          <6> QED BY <3>5, <6>5, <6>6, <6>7
        <5>2. CASE ~(positions'[key].liquidity > 0)
          BY <3>5, <5>2 DEF Credits
        <5> QED BY <5>1, <5>2
      <4>2. CASE ~(pos.ok /\ fits)
        <5>1. unclaimed' = unclaimed
          BY <1>1, <2>4, <4>2
        <5> HIDE DEF c, d, before, after
        <5> QED BY <2>1, <2>2, <3>4, <3>5, <4>1, <5>1
      <4>3. CASE pos.ok /\ fits
        <5> DEFINE liq  == PositionAt(positions, key).liquidity
                   last == PositionAt(positions, key).last
                   x    == WrappingSub(inside[i], last[i]) * liq
        <5>1. unclaimed'[i] = unclaimed[i] - pos.owed[i] /\ pos.owed[i] = x \div Q128
          <6>1. unclaimed' = [j \in Tokens |-> unclaimed[j] - pos.owed[j]]
            BY <1>1, <2>4, <4>3
          <6>2. pos.owed = FeesOwed(liq, inside, last)
            BY <1>3, <4>3
          <6> QED BY <6>1, <6>2 DEF FeesOwed
        <5>2. x \in Int /\ x <= before
          <6>1. CASE key \in OpenPositions
            <7>1. /\ key \in DOMAIN positions /\ positions[key].liquidity > 0
                  /\ liq = positions[key].liquidity /\ last = positions[key].last
              BY <6>1 DEF OpenPositions, PositionAt
            <7>2. inside = InsideAt(ticks, tick, feeGrowth, key)
              BY <1>2, <1>4, <1>5, <2>4, <6>1, OpenBounded
            <7>3. c[key] = x
              BY <7>1, <7>2 DEF Credits
            <7> HIDE DEF c, d, x
            <7> QED BY <2>2, <7>1, <7>3
          <6>2. CASE key \notin OpenPositions
            <7>1. liq = 0
              <8>1. key \in DOMAIN positions => positions[key].liquidity \in Nat
                BY <1>2, DataAssumption DEF TypeOK, MapOf, PositionStates
              <8> QED BY <6>2, <8>1 DEF OpenPositions, PositionAt, NewPosition
            <7>2. WrappingSub(inside[i], last[i]) \in Int
              <8>1. tk.outLo \in [Tokens -> FeeGrowths] /\ tk.outHi \in [Tokens -> FeeGrowths]
                BY <1>2, <2>4, UpdateTicksType DEF tk
              <8>2. inside \in [Tokens -> FeeGrowths]
                <9>1. tick \in Int /\ lo \in Int /\ hi \in Int /\ feeGrowth \in [Tokens -> FeeGrowths]
                  BY <1>2, TickAssumption DEF Ticks
                <9> QED BY <8>1, <9>1, GrowthInsideType DEF inside
              <8>3. last \in [Tokens -> FeeGrowths]
                BY <1>2, DataAssumption
                   DEF TypeOK, MapOf, PositionStates, PositionAt, NewPosition, FeeGrowths
              <8>4. inside[i] \in Int /\ last[i] \in Int
                BY <8>2, <8>3 DEF FeeGrowths
              <8> QED BY <8>4, WrappingSubSame
            <7>3. x = 0
              BY <7>1, <7>2
            <7> HIDE DEF c, d, x
            <7> QED BY <3>5, <7>3
          <6> QED BY <6>1, <6>2
        <5> HIDE DEF x
        <5>3. x \div Q128 \in Int /\ Q128 * (x \div Q128) <= x
          BY <5>2, RoundedPart
        <5> DEFINE y == x \div Q128
                   p == Q128 * y
                   q == Q128 * unclaimed[i]
        <5>4. Q128 * unclaimed'[i] = q - p /\ p \in Int /\ p <= x
          <6>1. Q128 \in Int /\ y \in Int /\ unclaimed'[i] = unclaimed[i] - y
            BY <5>1, <5>3, DataAssumption
          <6> HIDE DEF y
          <6>2. Q128 * unclaimed'[i] = Q128 * unclaimed[i] - Q128 * y /\ Q128 * y \in Int
            BY <2>1, <6>1
          <6> QED BY <5>3, <6>2 DEF y
        <5> HIDE DEF c, d, before, after, p, q
        <5>5. Owing(ticks', positions', tick, feeGrowth, i)
                = Owing(ticks, positions, tick, feeGrowth, i) - before
          BY <2>1, <2>2, <3>4, <3>5, <4>1
        <5>6. q \in Int /\ Owing(ticks, positions, tick, feeGrowth, i) <= q
          BY <2>1 DEF q
        <5> QED BY <2>2, <3>5, <5>2, <5>4, <5>5, <5>6
      <4> QED BY <4>2, <4>3
    <3> QED BY <1>3, <3>1, <3>6, <3>7
  <2> QED BY <2>3, <2>4
<1> QED BY <1>5, <1>6 DEF Covered

\* Wrapping differences add up to at least the whole.
LEMMA WrappingVia ==
  ASSUME NEW a \in Int, NEW b \in Int, NEW c \in Int
  PROVE  WrappingSub(c, a) <= WrappingSub(b, a) + WrappingSub(c, b)
<1> DEFINE x == WrappingSub(b, a)
           y == WrappingSub(c, b)
<1>1. x \in Nat /\ y \in Nat /\ Same(x, b - a) /\ Same(y, c - b)
  BY WrappingSubSame, DataAssumption
<1>2. PICK q \in Int : x = (b - a) + q * FeeMod
  BY <1>1 DEF Same
<1>3. PICK r \in Int : y = (c - b) + r * FeeMod
  BY <1>1 DEF Same
<1> HIDE DEF x, y
<1>4. (q + r) * FeeMod = q * FeeMod + r * FeeMod /\ q * FeeMod \in Int /\ r * FeeMod \in Int
  BY DataAssumption
<1>5. x + y = (c - a) + (q + r) * FeeMod /\ q + r \in Int
  BY <1>2, <1>3, <1>4
<1>6. Same(x + y, c - a)
  BY <1>5 DEF Same
<1> DEFINE s == x + y
<1>7. s \in Nat /\ c - a \in Int
  BY <1>1
<1>8. s % FeeMod = WrappingSub(c, a)
  <2> HIDE DEF s
  <2>1. Same(s, c - a)
    BY <1>6 DEF s
  <2> QED BY <1>7, <2>1, SameMod DEF WrappingSub
<1>9. s % FeeMod <= s
  <2> HIDE DEF s
  <2> DEFINE d == s \div FeeMod
             r0 == s % FeeMod
  <2>1. s = FeeMod * d + r0 /\ r0 \in 0 .. FeeMod - 1
    BY <1>7, Remainder, DataAssumption
  <2>2. d \in Int /\ 0 <= d
    BY <1>7, DivLower, DataAssumption
  <2> HIDE DEF d, r0
  <2>3. FeeMod * d \in Nat
    BY <2>2, DataAssumption
  <2>4. r0 <= s
    BY <2>1, <2>3, DataAssumption
  <2> QED BY <2>4 DEF r0
<1> QED BY <1>8, <1>9 DEF s, x, y

\* What does not wrap.
LEMMA WrappingExact ==
  ASSUME NEW a \in FeeGrowths, NEW b \in FeeGrowths, a <= b
  PROVE  WrappingSub(b, a) = b - a
<1> DEFINE x == b - a
           r == x % FeeMod
           d == x \div FeeMod
<1>1. x \in 0 .. FeeMod - 1 /\ FeeMod \in Nat /\ FeeMod > 0
  BY DataAssumption DEF FeeGrowths
<1> HIDE DEF x
<1>2. x = FeeMod * d + r /\ r \in 0 .. FeeMod - 1 /\ d \in Int
  <2>1. x = FeeMod * d + r /\ r \in 0 .. FeeMod - 1
    BY <1>1, Remainder
  <2> QED BY <1>1, <2>1
<1>3. d = 0
  <2> HIDE DEF d, r
  <2>1. ASSUME d >= 1 PROVE FALSE
    <3>1. FeeMod * d >= FeeMod
      BY <1>1, <1>2, <2>1
    <3> QED BY <1>1, <1>2, <3>1
  <2>2. ASSUME d <= -1 PROVE FALSE
    <3>1. FeeMod * d <= -FeeMod
      BY <1>1, <1>2, <2>2
    <3> QED BY <1>1, <1>2, <3>1
  <2> QED BY <1>2, <2>1, <2>2
<1>4. x = r
  <2> HIDE DEF d, r
  <2> QED BY <1>1, <1>2, <1>3
<1> QED BY <1>4 DEF x, r, WrappingSub

\* The view of the running swap starts from the committed one.
LEMMA SwapBeginFees ==
  ASSUME FeesInv, LedgerInv', NEW zeroForOne \in BOOLEAN, NEW limit \in Limits,
         SwapBegin(zeroForOne, limit), ~tainted'
  PROVE  Covered'
<1>1. /\ ~swap.running /\ ~tainted
      /\ swap'.running /\ swap'.tick = tick /\ swap'.charged = 0 /\ ~swap'.crossed
      /\ swap'.zeroForOne = zeroForOne /\ swap'.growth = feeGrowth[InToken(zeroForOne)]
      /\ UNCHANGED <<tick, sqrtPrice, liquidity, feeGrowth, ticks, positions, unclaimed>>
  BY DEF SwapBegin
<1>2. feeGrowth \in [Tokens -> FeeGrowths] /\ unclaimed \in [Tokens -> Int]
  BY DEF FeesInv, LedgerInv, PoolInv, TypeOK
<1>3. SwapGrowth' = feeGrowth
  BY <1>1, <1>2 DEF SwapGrowth
<1>4. ASSUME NEW i \in Tokens
      PROVE  /\ Owing(ticks, positions, tick, feeGrowth, i) <= Q128 * unclaimed[i]
             /\ unclaimed[i] + Charged(i)' = unclaimed[i]
  BY <1>1, <1>2 DEF FeesInv, Covered, Charged
<1> QED BY <1>1, <1>3, <1>4 DEF Covered

\* An iteration adds to each credit at most its part of the growth.
LEMMA SwapStepCredit ==
  ASSUME LedgerInv, LedgerInv', NEW price \in Prices, NEW fee, NEW exhausted \in BOOLEAN,
         SwapStep(price, fee, exhausted), ~tainted', NEW i \in Tokens,
         NEW growth, growth = IF i = InToken(swap.zeroForOne)
                              THEN (fee * Q128) \div swap.liquidity ELSE 0,
         NEW k \in DOMAIN positions
  PROVE  /\ growth \in Nat
         /\ Credits(ticks', positions, swap'.tick, SwapGrowth', i)[k]
              <= Credits(ticks, positions, swap.tick, SwapGrowth, i)[k]
                   + growth * (IF k \in Across(swap.tick) THEN positions[k].liquidity ELSE 0)
<1>1. /\ swap.running /\ swap'.running /\ ~tainted /\ swap'.zeroForOne = swap.zeroForOne
      /\ swap.liquidity # 0 /\ fee \in Nat
      /\ swap'.growth = swap.growth + (fee * Q128) \div swap.liquidity
      /\ feeGrowth' = feeGrowth /\ positions' = positions
  BY SwapStepTicks
<1>2. /\ TypeOK /\ TypeOK' /\ PoolInv /\ PoolInv' /\ swap.liquidity \in Nat \ {0}
      /\ swap.growth \in FeeGrowths /\ swap'.growth \in FeeGrowths
      /\ feeGrowth \in [Tokens -> FeeGrowths] /\ InToken(swap.zeroForOne) \in Tokens
      /\ positions[k].liquidity \in Nat /\ k \in Keys /\ positions[k].last \in [Tokens -> FeeGrowths]
  BY <1>1, DataAssumption
     DEF LedgerInv, PoolInv, TypeOK, SwapLocals, InToken, Tokens, MapOf, PositionStates, Keys
<1>3. (fee * Q128) \div swap.liquidity \in Nat
  <2> DEFINE n == fee * Q128
  <2>1. n \in Nat
    BY <1>1, DataAssumption
  <2> HIDE DEF n
  <2>2. n \div swap.liquidity \in Int /\ 0 <= n \div swap.liquidity
    BY <1>2, <2>1, DivLower
  <2> QED BY <2>2 DEF n
<1>4. growth \in Nat /\ SwapGrowth'[i] = SwapGrowth[i] + growth
      /\ SwapGrowth \in [Tokens -> FeeGrowths] /\ SwapGrowth' \in [Tokens -> FeeGrowths]
  <2>1. growth \in Nat
    BY <1>3
  <2>2. SwapGrowth \in [Tokens -> FeeGrowths] /\ SwapGrowth' \in [Tokens -> FeeGrowths]
    BY <1>1, <1>2 DEF SwapGrowth
  <2>3. CASE i = InToken(swap.zeroForOne)
    <3>1. SwapGrowth[i] = swap.growth /\ SwapGrowth'[i] = swap'.growth
      BY <1>1, <1>2, <2>3 DEF SwapGrowth
    <3> QED BY <1>1, <2>1, <2>2, <2>3, <3>1
  <2>4. CASE i # InToken(swap.zeroForOne)
    <3>1. SwapGrowth[i] = feeGrowth[i] /\ SwapGrowth'[i] = feeGrowth[i]
      BY <1>1, <1>2, <2>4 DEF SwapGrowth
    <3>2. feeGrowth[i] \in Int
      BY <1>2 DEF FeeGrowths
    <3> QED BY <2>1, <2>2, <2>4, <3>1, <3>2
  <2> QED BY <2>3, <2>4
<1>5. WrappingSub(SwapGrowth'[i], SwapGrowth[i]) = growth
  <2>1. SwapGrowth[i] \in FeeGrowths /\ SwapGrowth'[i] \in FeeGrowths
        /\ SwapGrowth[i] \in Int /\ SwapGrowth[i] <= SwapGrowth'[i]
    BY <1>4 DEF FeeGrowths
  <2> QED BY <1>4, <2>1, WrappingExact
<1>6. CASE positions[k].liquidity > 0
  <2> DEFINE before == InsideAt(ticks, swap.tick, SwapGrowth, k)[i]
             after  == InsideAt(ticks', swap'.tick, SwapGrowth', k)[i]
             last   == positions[k].last[i]
             liq    == positions[k].liquidity
             x      == WrappingSub(before, last)
             y      == WrappingSub(after, last)
             z      == IF k \in Across(swap.tick) THEN growth ELSE 0
  <2>1. k \in OpenPositions /\ k \in OpenPositions'
    BY <1>1, <1>6 DEF OpenPositions
  <2>2. WrappingSub(after, before) = z
    <3>1. GrowthStep(k, i)
      BY <2>1, SwapStepGrowth
    <3>2. /\ Current.tick = swap.tick /\ Current.growth = SwapGrowth /\ Current.growth' = SwapGrowth'
          /\ InsideOf(k)[i] = before /\ InsideOf(k)'[i] = after
      BY <1>1, <1>2, CurrentView, CurrentViewNext
    <3>3. k \in Across(swap.tick) <=> k[2] <= swap.tick /\ swap.tick < k[3]
      BY <1>2 DEF Across
    <3> HIDE DEF before, after
    <3> QED BY <1>5, <3>1, <3>2, <3>3 DEF GrowthStep
  <2>3. before \in Int /\ after \in Int /\ last \in Int
    <3>1. swap.tick \in Int
      BY <1>2, TickAssumption DEF TypeOK, SwapLocals, PoolTicks
    <3>2. swap'.tick \in Int
      BY <1>2, TickAssumption DEF TypeOK, SwapLocals, PoolTicks
    <3>3. before \in FeeGrowths
      BY <1>1, <1>4, <2>1, <3>1, CreditType
    <3>4. Bounded(k)'
      BY <2>1, OpenBoundedNext
    <3>5. /\ k[2] \in DOMAIN ticks' /\ k[3] \in DOMAIN ticks' /\ k[2] \in Int /\ k[3] \in Int
      BY <3>4, TickAssumption DEF Bounded, Ticks
    <3>6. ticks'[k[2]].outside \in [Tokens -> FeeGrowths] /\ ticks'[k[3]].outside \in [Tokens -> FeeGrowths]
      BY <1>2, <3>5 DEF TypeOK, MapOf, TickInfos
    <3>7. after \in FeeGrowths
      <4>1. InsideAt(ticks', swap'.tick, SwapGrowth', k) \in [Tokens -> FeeGrowths]
        BY <1>4, <3>2, <3>5, <3>6, GrowthInsideType DEF InsideAt
      <4> QED BY <4>1
    <3>8. last \in FeeGrowths
      BY <1>2
    <3> HIDE DEF before, after, last
    <3> QED BY <3>3, <3>7, <3>8 DEF FeeGrowths
  <2>4. Credits(ticks, positions, swap.tick, SwapGrowth, i)[k] = x * liq
    BY <1>6 DEF Credits
  <2>5. Credits(ticks', positions, swap'.tick, SwapGrowth', i)[k] = y * liq
    BY <1>6 DEF Credits
  <2>6. growth * (IF k \in Across(swap.tick) THEN liq ELSE 0) = z * liq /\ z \in Nat
    <3>1. liq \in Nat
      BY <1>2
    <3> HIDE DEF liq
    <3> QED BY <1>4, <3>1
  <2> HIDE DEF before, after, last
  <2>7. x \in Nat /\ y \in Nat
    <3>1. x \in FeeGrowths /\ y \in FeeGrowths
      BY <2>3, WrappingSubType
    <3> QED BY <3>1, DataAssumption DEF FeeGrowths
  <2>8. y <= x + z
    BY <2>2, <2>3, WrappingVia
  <2> HIDE DEF x, y, z
  <2>9. y * liq <= x * liq + z * liq
    <3>1. liq \in Nat
      BY <1>2
    <3> HIDE DEF liq
    <3>2. y * liq <= (x + z) * liq
      BY <2>6, <2>7, <2>8, <3>1, Monotone
    <3>3. (x + z) * liq = x * liq + z * liq
      BY <2>6, <2>7, <3>1
    <3> QED BY <3>2, <3>3
  <2> QED BY <1>4, <2>4, <2>5, <2>6, <2>9
<1>7. CASE ~(positions[k].liquidity > 0)
  <2>1. positions[k].liquidity = 0
    BY <1>2, <1>7
  <2>2. /\ Credits(ticks, positions, swap.tick, SwapGrowth, i)[k] = 0
        /\ Credits(ticks', positions, swap'.tick, SwapGrowth', i)[k] = 0
    BY <1>7 DEF Credits
  <2>3. growth * 0 = 0
    BY <1>4
  <2> QED BY <1>4, <2>1, <2>2, <2>3
<1> QED BY <1>6, <1>7

\* The positions an iteration pays are those that make up its liquidity.
LEMMA SwapStepFees ==
  ASSUME FeesInv, LedgerInv', NEW price \in Prices, NEW fee, NEW exhausted \in BOOLEAN,
         SwapStep(price, fee, exhausted), ~tainted'
  PROVE  Covered'
<1>1. /\ swap.running /\ swap'.running /\ ~tainted /\ swap'.zeroForOne = swap.zeroForOne
      /\ swap.liquidity # 0 /\ fee \in Nat /\ swap'.charged = swap.charged + fee
      /\ ~swap'.crossed => ~swap.crossed /\ ticks' = ticks
      /\ UNCHANGED <<tick, sqrtPrice, liquidity, feeGrowth, positions, unclaimed>>
  BY SwapStepTicks DEF FeesInv
<1>2. /\ LedgerInv /\ Covered /\ TypeOK /\ TypeOK' /\ swap.liquidity \in Nat \ {0}
      /\ swap.charged \in Nat /\ unclaimed \in [Tokens -> Int] /\ IsFiniteSet(DOMAIN positions)
      /\ DOMAIN positions \subseteq Keys
      /\ feeGrowth \in [Tokens -> FeeGrowths] /\ InToken(swap.zeroForOne) \in Tokens
      /\ SwapGrowth \in [Tokens -> FeeGrowths] /\ SwapGrowth' \in [Tokens -> FeeGrowths]
      /\ swap.tick \in Int /\ swap'.tick \in Int
  <2>1. LedgerInv /\ Covered /\ TypeOK /\ TypeOK'
    BY <1>1 DEF FeesInv, LedgerInv, PoolInv
  <2>2. /\ swap.liquidity \in Nat \ {0} /\ swap.charged \in Nat /\ unclaimed \in [Tokens -> Int]
        /\ swap.growth \in FeeGrowths /\ swap'.growth \in FeeGrowths
        /\ feeGrowth \in [Tokens -> FeeGrowths] /\ InToken(swap.zeroForOne) \in Tokens
        /\ swap.tick \in Int /\ swap'.tick \in Int
    BY <1>1, <2>1, DataAssumption, TickAssumption
       DEF TypeOK, SwapLocals, PoolTicks, InToken, Tokens
  <2>3. SwapGrowth \in [Tokens -> FeeGrowths] /\ SwapGrowth' \in [Tokens -> FeeGrowths]
    BY <1>1, <2>2 DEF SwapGrowth
  <2>4. IsFiniteSet(DOMAIN positions) /\ DOMAIN positions \subseteq Keys
    BY <2>1 DEF LedgerInv, Shaped, Positions, MapOf
  <2> QED BY <2>1, <2>2, <2>3, <2>4
<1>3. swap.liquidity = Held(positions, Across(swap.tick))
  BY <1>1, <1>2 DEF LedgerInv, Balanced, Ledger
<1>4. ASSUME NEW i \in Tokens
      PROVE  (swap'.running => ~swap'.crossed)
               => Owing(ticks', positions', tick', feeGrowth', i) <= Q128 * unclaimed'[i]
  BY <1>1, <1>2 DEF Covered
<1>5. ASSUME NEW i \in Tokens
      PROVE  Owing(ticks', positions', swap'.tick, SwapGrowth', i)
               <= Q128 * (unclaimed'[i] + Charged(i)')
  <2> DEFINE growth == IF i = InToken(swap.zeroForOne)
                       THEN (fee * Q128) \div swap.liquidity ELSE 0
             S == DOMAIN positions
             A == {k \in S : k \in Across(swap.tick)}
             f == Credits(ticks, positions, swap.tick, SwapGrowth, i)
             g == Credits(ticks', positions, swap'.tick, SwapGrowth', i)
             w == [k \in S |-> IF k \in Across(swap.tick) THEN positions[k].liquidity ELSE 0]
             paid == IF i = InToken(swap.zeroForOne) THEN fee ELSE 0
             old  == Owing(ticks, positions, swap.tick, SwapGrowth, i)
             new  == Owing(ticks', positions', swap'.tick, SwapGrowth', i)
  <2>1. /\ \A k \in S : f[k] \in Int
        /\ \A k \in S : g[k] \in Int
        /\ old \in Nat /\ old = SumFunctionOnSet(f, S) /\ new = SumFunctionOnSet(g, S)
    <3>1. \A k \in S : f[k] \in Nat
      BY <1>1, <1>2, CreditType
    <3>2. \A k \in S : g[k] \in Nat
      BY <1>1, <1>2, CreditTypeNext
    <3>3. old \in Nat
      BY <1>1, <1>2, CreditType
    <3>4. old = SumFunctionOnSet(f, S) /\ new = SumFunctionOnSet(g, S)
      BY <1>1 DEF Owing
    <3> HIDE DEF f, g, old, new
    <3> QED BY <3>1, <3>2, <3>3, <3>4
  <2>2. growth \in Int /\ growth * swap.liquidity <= Q128 * paid
    <3>1. CASE i = InToken(swap.zeroForOne)
      <4> DEFINE n == fee * Q128
                 d == n \div swap.liquidity
      <4>1. n \in Int /\ n = Q128 * fee
        BY <1>1, DataAssumption
      <4>2. d \in Int /\ swap.liquidity * d <= n
        <5> HIDE DEF n
        <5> QED BY <1>2, <4>1, DivFloor
      <4>3. growth = d /\ paid = fee
        BY <3>1
      <4> HIDE DEF growth, paid, n, d
      <4>4. d * swap.liquidity = swap.liquidity * d
        BY <1>2, <4>2
      <4> QED BY <4>1, <4>2, <4>3, <4>4
    <3>2. CASE i # InToken(swap.zeroForOne)
      <4>1. growth = 0 /\ paid = 0
        BY <3>2
      <4>2. 0 * swap.liquidity = 0 /\ Q128 * 0 = 0
        BY <1>2, DataAssumption
      <4> HIDE DEF growth, paid
      <4> QED BY <4>1, <4>2
    <3> QED BY <3>1, <3>2
  <2>3. ASSUME NEW k \in S
        PROVE  w[k] \in Int /\ g[k] <= f[k] + growth * w[k]
    <3>1. g[k] <= f[k] + growth * (IF k \in Across(swap.tick) THEN positions[k].liquidity ELSE 0)
      <4>1. growth = IF i = InToken(swap.zeroForOne) THEN (fee * Q128) \div swap.liquidity ELSE 0
        OBVIOUS
      <4> HIDE DEF growth
      <4> QED BY <1>2, <4>1, SwapStepCredit
    <3>2. w[k] = IF k \in Across(swap.tick) THEN positions[k].liquidity ELSE 0
      OBVIOUS
    <3>3. positions[k].liquidity \in Int
      BY <1>2, DataAssumption DEF TypeOK, MapOf, PositionStates
    <3>4. w[k] \in Int
      BY <3>2, <3>3
    <3> HIDE DEF f, g, w, growth
    <3> QED BY <3>1, <3>2, <3>4
  <2>4. SumFunctionOnSet(w, S) = swap.liquidity
    <3>1. A \in SUBSET S /\ IsFiniteSet(S) /\ IsFiniteSet(A)
      BY <1>2, FS_Subset
    <3>2. \A k \in S \ A : w[k] = 0
      OBVIOUS
    <3>3. \A k \in A : w[k] \in Int /\ [j \in S |-> positions[j].liquidity][k] = w[k]
      BY <2>3
    <3>4. Held(positions, Across(swap.tick)) = SumFunctionOnSet([j \in S |-> positions[j].liquidity], A)
      BY DEF Held
    <3>5. \A k \in S : w[k] \in Int
      BY <2>3
    <3> HIDE DEF w, A, S
    <3>6. SumFunctionOnSet(w, S) = SumFunctionOnSet(w, A)
      BY <3>1, <3>2, <3>5, SumZeros
    <3>7. SumFunctionOnSet([j \in S |-> positions[j].liquidity], A) = SumFunctionOnSet(w, A)
      BY <3>1, <3>3, SumSame
    <3> QED BY <1>3, <3>4, <3>6, <3>7
  <2>5. new <= old + growth * swap.liquidity
    <3>1. \A k \in S : f[k] \in Int /\ g[k] \in Int /\ w[k] \in Int /\ g[k] <= f[k] + growth * w[k]
      <4>1. ASSUME NEW k \in S
            PROVE  f[k] \in Int /\ g[k] \in Int /\ w[k] \in Int /\ g[k] <= f[k] + growth * w[k]
        <5>1. f[k] \in Int /\ g[k] \in Int
          BY <2>1
        <5>2. w[k] \in Int /\ g[k] <= f[k] + growth * w[k]
          BY <2>3
        <5> HIDE DEF f, g, w, growth, S
        <5> QED BY <5>1, <5>2
      <4> HIDE DEF f, g, w, growth, S
      <4> QED BY <4>1
    <3> HIDE DEF f, g, w, growth, S, old, new
    <3>2. SumFunctionOnSet(g, S) <= SumFunctionOnSet(f, S) + growth * SumFunctionOnSet(w, S)
      BY <1>2, <2>2, <3>1, SumGrowth DEF S
    <3> QED BY <2>1, <2>4, <3>2
  <2>6. /\ old <= Q128 * (unclaimed[i] + Charged(i))
        /\ unclaimed'[i] + Charged(i)' = (unclaimed[i] + Charged(i)) + paid
        /\ unclaimed[i] + Charged(i) \in Int /\ paid \in Int
    <3>1. old <= Q128 * (unclaimed[i] + Charged(i))
      BY <1>1, <1>2 DEF Covered
    <3>2. Charged(i) \in Int /\ paid \in Int /\ Charged(i)' = Charged(i) + paid
      BY <1>1, <1>2 DEF Charged
    <3> HIDE DEF old, paid
    <3> QED BY <1>1, <1>2, <3>1, <3>2
  <2>7. growth * swap.liquidity \in Int
    BY <1>2, <2>2
  <2> HIDE DEF growth, paid, old, new
  <2> DEFINE u == unclaimed[i] + Charged(i)
  <2>8. Q128 * (u + paid) = Q128 * u + Q128 * paid /\ Q128 * u \in Int /\ Q128 * paid \in Int
    BY <2>6, DataAssumption
  <2> DEFINE p == growth * swap.liquidity
             q == Q128 * u
             r == Q128 * paid
  <2>9. old <= q /\ p <= r /\ new <= old + p /\ old \in Int /\ p \in Int /\ q \in Int /\ r \in Int
        /\ new \in Int
    <3>1. new \in Int
      BY <1>2, <2>1, SumType
    <3> QED BY <2>1, <2>2, <2>5, <2>6, <2>7, <2>8, <3>1
  <2> HIDE DEF p, q, r, u
  <2>10. new <= q + r
    BY <2>9
  <2> QED BY <2>6, <2>8, <2>10 DEF q, r, u, new
<1> QED BY <1>1, <1>4, <1>5 DEF Covered

\* What the swap has charged becomes what the positions can claim.
LEMMA SwapCommitFees ==
  ASSUME FeesInv, SwapCommit, ~tainted'
  PROVE  Covered'
<1> DEFINE token == InToken(swap.zeroForOne)
<1>1. /\ swap.running /\ ~swap'.running /\ ~tainted /\ tick' = swap.tick
      /\ feeGrowth' = [feeGrowth EXCEPT ![token] = swap.growth]
      /\ unclaimed' = [unclaimed EXCEPT ![token] = @ + swap.charged]
      /\ UNCHANGED <<ticks, positions, tainted>>
  BY DEF SwapCommit, NoSwap
<1>2. unclaimed \in [Tokens -> Int] /\ Covered /\ swap.charged \in Int
  BY <1>1 DEF FeesInv, LedgerInv, PoolInv, TypeOK, SwapLocals
<1>3. feeGrowth' = SwapGrowth
  BY <1>1 DEF SwapGrowth
<1>4. ASSUME NEW i \in Tokens
      PROVE  unclaimed'[i] = unclaimed[i] + Charged(i)
  BY <1>1, <1>2 DEF Charged
<1> QED BY <1>1, <1>2, <1>3, <1>4 DEF Covered

\* A swap that fails without a trace leaves what it found.
LEMMA SwapFailFees ==
  ASSUME FeesInv, SwapFail, ~tainted'
  PROVE  Covered'
<1>1. /\ swap.running /\ ~swap'.running /\ ~tainted /\ ~swap.crossed
      /\ UNCHANGED <<tick, sqrtPrice, liquidity, feeGrowth, ticks, positions, unclaimed>>
  BY DEF SwapFail, NoSwap
<1> QED BY <1>1 DEF FeesInv, Covered

LEMMA NextFees == FeesInv /\ [Next]_vars => FeesInv'
<1> SUFFICES ASSUME FeesInv, [Next]_vars PROVE FeesInv'
  OBVIOUS
<1>1. LedgerInv'
  BY NextLedger DEF FeesInv
<1> SUFFICES ASSUME ~tainted' PROVE Covered'
  BY <1>1 DEF FeesInv
<1>2. ASSUME NEW owner \in Owners, NEW r \in Ranges, NEW delta \in Deltas,
             ModifyLiquidity(owner, r[1], r[2], delta)
      PROVE  Covered'
  <2>1. r[1] \in Ticks /\ r[2] \in Ticks /\ delta \in Int
    BY DataAssumption
  <2> QED BY <1>1, <1>2, <2>1, ModifyLiquidityFees
<1>3. ASSUME NEW zeroForOne \in BOOLEAN, NEW limit \in Limits, SwapBegin(zeroForOne, limit)
      PROVE  Covered'
  BY <1>1, <1>3, SwapBeginFees
<1>4. ASSUME NEW price \in Prices, NEW fee, NEW exhausted \in BOOLEAN,
             SwapStep(price, fee, exhausted)
      PROVE  Covered'
  BY <1>1, <1>4, SwapStepFees
<1>5. CASE SwapCommit
  BY <1>5, SwapCommitFees
<1>6. CASE SwapFail
  BY <1>6, SwapFailFees
<1>7. CASE UNCHANGED vars
  <2>1. UNCHANGED <<tick, feeGrowth, ticks, positions, swap, unclaimed, tainted>>
    BY <1>7 DEF vars
  <2>2. SwapGrowth' = SwapGrowth /\ \A i \in Tokens : Charged(i)' = Charged(i)
    BY <2>1 DEF SwapGrowth, Charged
  <2>3. Covered /\ swap' = swap /\ tick' = tick /\ feeGrowth' = feeGrowth /\ ticks' = ticks
        /\ positions' = positions /\ unclaimed' = unclaimed
    BY <2>1 DEF FeesInv
  <2> QED BY <2>2, <2>3 DEF Covered
<1> QED BY <1>2, <1>3, <1>4, <1>5, <1>6, <1>7 DEF Next

\* Each position rounds its part down, so they claim no more than they are owed.
LEMMA PendingCovered ==
  ASSUME FeesInv
  PROVE  FeesCovered
<1> SUFFICES ASSUME ~tainted, NEW i \in Tokens
             PROVE  Pending(i) <= unclaimed[i]
                      + (IF swap.running /\ i = InToken(swap.zeroForOne) THEN swap.charged ELSE 0)
  BY DEF FeesCovered
<1> DEFINE due == unclaimed[i]
                    + (IF swap.running /\ i = InToken(swap.zeroForOne) THEN swap.charged ELSE 0)
           t == Current.tick
           g == Current.growth
           S == DOMAIN positions
           c == Credits(ticks, positions, t, g, i)
           w == [k \in S |-> c[k] \div Q128]
           z == [k \in S |-> 0]
           claims == [k \in OpenPositions |->
                       FeesOwed(positions[k].liquidity, InsideOf(k), positions[k].last)[i]]
<1>1. /\ LedgerInv /\ Covered /\ TypeOK /\ PoolInv /\ IsFiniteSet(S)
      /\ unclaimed \in [Tokens -> Int] /\ swap.charged \in Int
  BY DEF FeesInv, LedgerInv, PoolInv, TypeOK, Shaped, Positions, SwapLocals
<1>2. /\ t = (IF swap.running THEN swap.tick ELSE tick)
      /\ g = (IF swap.running THEN SwapGrowth ELSE feeGrowth)
      /\ t \in Int /\ g \in [Tokens -> FeeGrowths]
      /\ \A k : InsideOf(k) = InsideAt(ticks, t, g, k)
  BY <1>1, CurrentView
<1>3. due \in Int /\ Owing(ticks, positions, t, g, i) <= Q128 * due
  <2>1. due \in Int
    BY <1>1
  <2>2. CASE swap.running
    <3>1. due = unclaimed[i] + Charged(i)
      BY <2>2 DEF Charged
    <3> HIDE DEF due, t, g
    <3> QED BY <1>1, <1>2, <2>1, <2>2, <3>1 DEF Covered
  <2>3. CASE ~swap.running
    <3>1. due = unclaimed[i]
      BY <1>1, <2>3
    <3> HIDE DEF due, t, g
    <3> QED BY <1>1, <1>2, <2>1, <2>3, <3>1 DEF Covered
  <2> QED BY <2>2, <2>3
<1>4. ASSUME NEW k \in OpenPositions PROVE k \in S /\ claims[k] = w[k]
  <2>1. k \in S /\ positions[k].liquidity > 0
    BY DEF OpenPositions
  <2>2. c[k] = WrappingSub(InsideAt(ticks, t, g, k)[i], positions[k].last[i]) * positions[k].liquidity
    BY <2>1 DEF Credits
  <2>3. claims[k] = (WrappingSub(InsideOf(k)[i], positions[k].last[i]) * positions[k].liquidity) \div Q128
    BY DEF FeesOwed
  <2>4. InsideOf(k) = InsideAt(ticks, t, g, k)
    BY <1>2
  <2>5. w[k] = c[k] \div Q128
    BY <2>1
  <2> HIDE DEF c, t, g, claims, w
  <2> QED BY <2>1, <2>2, <2>3, <2>4, <2>5
<1>5. ASSUME NEW k \in S
      PROVE  /\ c[k] \in Nat /\ w[k] \in Int /\ z[k] \in Int /\ z[k] <= c[k] + (-Q128) * w[k]
             /\ k \notin OpenPositions => w[k] = 0
  <2>1. c[k] \in Nat
    BY <1>1, <1>2, CreditType
  <2>2. w[k] = c[k] \div Q128 /\ z[k] = 0
    OBVIOUS
  <2>3. k \notin OpenPositions => c[k] = 0
    <3>1. k \notin OpenPositions => ~(positions[k].liquidity > 0)
      BY DEF OpenPositions
    <3> QED BY <3>1 DEF Credits
  <2> DEFINE x == c[k]
             d == x \div Q128
  <2>4. d \in Int /\ Q128 * d <= x
    <3> HIDE DEF x
    <3> QED BY <2>1, RoundedPart DEF x
  <2>5. k \notin OpenPositions => d = 0
    <3>1. 0 \div Q128 = 0
      BY DataAssumption
    <3> QED BY <2>3, <3>1
  <2>6. w[k] = d
    BY <2>2
  <2> HIDE DEF c, w, z, d
  <2>7. Q128 * d \in Int /\ (-Q128) * d = -(Q128 * d)
    BY <2>4, DataAssumption
  <2>8. 0 <= x + (-Q128) * d
    BY <2>1, <2>4, <2>7
  <2> QED BY <2>1, <2>2, <2>4, <2>5, <2>6, <2>8
<1>6. OpenPositions \in SUBSET S /\ IsFiniteSet(OpenPositions)
  BY <1>1, FS_Subset DEF OpenPositions
<1>7. Owing(ticks, positions, t, g, i) = SumFunctionOnSet(c, S)
  BY DEF Owing
<1>8. Pending(i) = SumFunctionOnSet(claims, OpenPositions)
  BY DEF Pending, SumFunction, SumFunctionOnSet
<1>9. \A k \in S : z[k] = 0
  OBVIOUS
<1> DEFINE total == SumFunctionOnSet(w, S)
<1> HIDE DEF c, w, z, claims, S, t, g, due
<1>10. Pending(i) = total
  <2>1. SumFunctionOnSet(claims, OpenPositions) = SumFunctionOnSet(w, OpenPositions)
    BY <1>4, <1>5, <1>6, SumSame
  <2>2. \A k \in S : w[k] \in Int
    BY <1>5
  <2>3. \A k \in S \ OpenPositions : w[k] = 0
    BY <1>5
  <2>4. SumFunctionOnSet(w, S) = SumFunctionOnSet(w, OpenPositions)
    BY <1>1, <1>6, <2>2, <2>3, SumZeros
  <2> QED BY <1>8, <2>1, <2>4
<1>11. Q128 * total <= SumFunctionOnSet(c, S) /\ total \in Int
  <2>1. -Q128 \in Int
    BY DataAssumption
  <2>2. \A k \in S : c[k] \in Int /\ z[k] \in Int /\ w[k] \in Int /\ z[k] <= c[k] + (-Q128) * w[k]
    BY <1>5
  <2>3. SumFunctionOnSet(z, S) <= SumFunctionOnSet(c, S) + (-Q128) * SumFunctionOnSet(w, S)
    BY <1>1, <2>1, <2>2, SumGrowth
  <2>4. SumFunctionOnSet(z, S) = SumFunctionOnSet(z, {})
    <3>1. \A k \in S \ {} : z[k] = 0
      BY <1>9
    <3>2. \A k \in S : z[k] \in Int
      BY <1>9
    <3> QED BY <1>1, <3>1, <3>2, SumZeros
  <2>5. SumFunctionOnSet(z, {}) = 0
    BY SumEmpty
  <2>6. total \in Int /\ SumFunctionOnSet(c, S) \in Int
    BY <1>1, <2>2, SumType
  <2>7. (-Q128) * total = -(Q128 * total) /\ Q128 * total \in Int
    BY <2>6, DataAssumption
  <2> HIDE DEF total
  <2>8. 0 <= SumFunctionOnSet(c, S) + (-Q128) * total
    BY <2>3, <2>4, <2>5 DEF total
  <2> QED BY <2>6, <2>7, <2>8
<1>12. total <= due
  <2> HIDE DEF total
  <2>1. Q128 * total <= Q128 * due
    <3>1. SumFunctionOnSet(c, S) <= Q128 * due
      BY <1>3, <1>7
    <3>2. SumFunctionOnSet(c, S) \in Int /\ Q128 * due \in Int /\ Q128 * total \in Int
      <4>1. SumFunctionOnSet(c, S) \in Int
        BY <1>1, <1>5, SumType
      <4> QED BY <1>3, <1>11, <4>1, DataAssumption
    <3> QED BY <1>11, <3>1, <3>2
  <2>2. ASSUME due < total PROVE FALSE
    <3>1. due + 1 <= total
      BY <1>3, <1>11, <2>2
    <3>2. Q128 * (due + 1) <= Q128 * total
      BY <1>3, <1>11, <3>1, DataAssumption
    <3>3. Q128 * (due + 1) = Q128 * due + Q128
      BY <1>3, DataAssumption
    <3>4. Q128 * due \in Int /\ Q128 * total \in Int
      BY <1>3, <1>11, DataAssumption
    <3> QED BY <2>1, <3>2, <3>3, <3>4, DataAssumption
  <2> QED BY <1>3, <1>11, <2>2
<1> QED BY <1>10, <1>12 DEF due

\* However mints, burns, swaps and failed swaps follow each other, and however the
\* accumulators wrap, what the open positions can collect never exceeds the fees
\* charged for them and not yet paid.
THEOREM PositionsCovered == Spec => []FeesCovered
<1>1. FeesInv => FeesCovered
  BY PendingCovered
<1> QED BY <1>1, InitFees, NextFees, PTL DEF Spec
=============================================================================
