-------------------------------- MODULE Pool --------------------------------
(***************************************************************************)
(* The concentrated-liquidity pool: modify_liquidity and the swap loop of  *)
(* src/core/concentrated/pool.rs over PoolState, the initialized ticks and *)
(* the positions.                                                          *)
(*                                                                         *)
(* Control is kept in full: the order in which ticks, positions and active *)
(* liquidity are written, every early return, and what a call that fails   *)
(* half way leaves behind.  Data is abstracted: a sqrt price is an integer *)
(* on a scale given by the table SqrtPriceAt, and the arithmetic of one    *)
(* swap step is any outcome its contract allows (StepPrice, StepExhausts). *)
(***************************************************************************)
EXTENDS Integers, FiniteSets, Functions

CONSTANTS
  MinTick, MaxTick,   \* TickIndex::MIN and MAX
  Spacing,            \* the pool's tick spacing
  WordTicks,          \* compressed ticks in one bitmap word (256 in the code)
  SqrtPriceAt,        \* get_sqrt_price_at_tick, tick by tick
  U128Max,            \* largest Liquidity
  I128Max,            \* largest net liquidity and BalanceDelta component
  FeeMod,             \* fee growth is an integer modulo FeeMod (2^256)
  Q128,               \* one unit of fee per unit of liquidity (2^128)
  Owners,             \* owner/salt pairs
  Ranges,             \* the <<lower, upper>> ranges callers use
  Deltas,             \* the liquidity deltas callers use
  StepFees,           \* per input token, what one swap step can charge for the LPs
  Limits              \* the price limits callers use

Ticks == MinTick .. MaxTick
Prices == SqrtPriceAt[MinTick] .. SqrtPriceAt[MaxTick]
Tokens == {0, 1}
FeeGrowths == 0 .. FeeMod - 1

ASSUME TickAssumption ==
  /\ MinTick \in Int /\ MaxTick \in Int /\ MinTick < MaxTick
  /\ Spacing \in Nat \ {0} /\ WordTicks \in Nat \ {0}

\* get_sqrt_price_at_tick is strictly increasing.
ASSUME PriceAssumption ==
  /\ SqrtPriceAt \in [Ticks -> Int]
  /\ \A s, t \in Ticks : s < t => SqrtPriceAt[s] < SqrtPriceAt[t]

ASSUME DataAssumption ==
  /\ I128Max \in Nat /\ U128Max = 2 * I128Max + 1
  /\ FeeMod \in Nat \ {0} /\ Q128 \in Nat \ {0}
  /\ Ranges \subseteq Ticks \X Ticks
  /\ Deltas \subseteq Int
  /\ StepFees \in [Tokens -> SUBSET Nat]
  /\ Limits \subseteq Prices

VARIABLES
  tick, sqrtPrice, liquidity, feeGrowth,  \* PoolState
  ticks,       \* initialized ticks: a function whose domain grows and shrinks
  positions,   \* the entries of the Positions map
  swap,        \* the locals of swap_inner while a swap runs
  unclaimed,   \* history: LP fees charged by committed swaps and not yet paid
  tainted      \* history: some call returned an error after it changed ticks

vars == <<tick, sqrtPrice, liquidity, feeGrowth, ticks, positions, swap,
          unclaimed, tainted>>

-----------------------------------------------------------------------------
(* Ticks and prices *)

\* The tick a swap can end on: one below the lowest after crossing it downward.
PoolTicks == MinTick - 1 .. MaxTick

TickAt(p) ==
  CHOOSE t \in Ticks : /\ SqrtPriceAt[t] <= p
                       /\ t < MaxTick => p < SqrtPriceAt[t + 1]

Aligned(t) == t % Spacing = 0

CheckTicks(lo, hi) == lo < hi /\ Aligned(lo) /\ Aligned(hi)

\* Mutant: the cap is the type's maximum, not its share per tick.
MaxLiquidityPerTick_Undivided == U128Max

\* Mutant: one tick too few counted.
MaxLiquidityPerTick_Fencepost ==
  U128Max \div (MaxTick \div Spacing - MinTick \div Spacing)

\* max_liquidity_per_tick.
MaxLiquidityPerTick ==
  U128Max \div (MaxTick \div Spacing - MinTick \div Spacing + 1)

NewTick == [gross |-> 0, net |-> 0, outside |-> [i \in Tokens |-> 0]]

\* TickSlab::next_initialized_tick: inclusive downward, strictly after upward.
NextCandidates(t, zeroForOne) ==
  {u \in DOMAIN ticks : IF zeroForOne THEN u <= t ELSE u > t}

NextInitialized(t, zeroForOne) ==
  CHOOSE u \in NextCandidates(t, zeroForOne) :
    \A v \in NextCandidates(t, zeroForOne) : IF zeroForOne THEN v <= u ELSE u <= v

Clamp(t) == IF t < MinTick THEN MinTick ELSE IF t > MaxTick THEN MaxTick ELSE t

\* The last tick of the bitmap word the step may walk to.
WordBoundary(t, zeroForOne) ==
  LET compressed == t \div Spacing
      first(c)   == (c \div WordTicks) * WordTicks
  IN  Clamp(IF zeroForOne THEN first(compressed) * Spacing
                          ELSE (first(compressed + 1) + WordTicks - 1) * Spacing)

-----------------------------------------------------------------------------
(* Fee growth *)

WrappingSub(a, b) == (a - b) % FeeMod

\* fee_growth_inside, for the pool tick t, globals g and boundary outsides.
GrowthInside(t, g, lo, hi, outLo, outHi) ==
  [i \in Tokens |->
     CASE t < lo  -> WrappingSub(outLo[i], outHi[i])
       [] t >= hi -> WrappingSub(outHi[i], outLo[i])
       [] OTHER   -> WrappingSub(WrappingSub(g[i], outLo[i]), outHi[i])]

\* The part of the fees owed to a position between two growth checkpoints.
FeesOwed(liq, inside, last) ==
  [i \in Tokens |-> (WrappingSub(inside[i], last[i]) * liq) \div Q128]

-----------------------------------------------------------------------------
(* modify_liquidity *)

\* Mutant: the gross liquidity is subtracted without a check.
TickFits_Unchecked(gross, net, delta) == delta > 0 => gross <= MaxLiquidityPerTick

\* The checked operations and the cap of update_tick.
TickFits(gross, net, delta) ==
  /\ gross \in 0 .. U128Max
  /\ delta > 0 => gross <= MaxLiquidityPerTick
  /\ net \in -I128Max - 1 .. I128Max

\* update_tick.  A failing call leaves the tick it has just inserted behind.
UpdateTick(tks, t, delta, upper) ==
  LET before   == IF t \in DOMAIN tks THEN tks[t] ELSE NewTick
      inserted == [u \in DOMAIN tks \cup {t} |-> IF u = t THEN before ELSE tks[u]]
      gross    == before.gross + delta
      net      == IF upper THEN before.net - delta ELSE before.net + delta
      info     == [gross   |-> gross,
                   net     |-> net,
                   outside |-> IF before.gross = 0 /\ t <= tick
                               THEN feeGrowth ELSE before.outside]
      fits     == TickFits(gross, net, delta)
  IN  CASE ~fits
             -> [ok |-> FALSE, ticks |-> inserted, outside |-> before.outside]
        [] fits /\ gross = 0
             -> [ok |-> TRUE, ticks |-> Restrict(tks, DOMAIN tks \ {t}),
                 outside |-> before.outside]
        [] OTHER
             -> [ok |-> TRUE, ticks |-> [inserted EXCEPT ![t] = info],
                 outside |-> info.outside]

\* The tick half of modify_liquidity: lower then upper, each with `?`.
UpdateTicks(lo, hi, delta) ==
  LET outsideOf(t) == IF t \in DOMAIN ticks THEN ticks[t].outside ELSE NewTick.outside
      low  == UpdateTick(ticks, lo, delta, FALSE)
      high == UpdateTick(low.ticks, hi, delta, TRUE)
  IN  CASE delta = 0 -> [ok |-> TRUE, ticks |-> ticks,
                         outLo |-> outsideOf(lo), outHi |-> outsideOf(hi)]
        [] delta # 0 /\ ~low.ok -> [ok |-> FALSE, ticks |-> low.ticks]
        [] OTHER -> [ok |-> high.ok, ticks |-> high.ticks,
                     outLo |-> low.outside, outHi |-> high.outside]

NewPosition == [liquidity |-> 0, last |-> [i \in Tokens |-> 0]]

\* Positions::update_position around PositionState::update.
UpdatePosition(key, delta, inside) ==
  LET before   == IF key \in DOMAIN positions THEN positions[key] ELSE NewPosition
      after    == before.liquidity + delta
      store(p) == [k \in DOMAIN positions \cup {key} |-> IF k = key THEN p ELSE positions[k]]
      owed     == FeesOwed(before.liquidity, inside, before.last)
  IN  IF after < 0 \/ after > U128Max \/ (delta = 0 /\ after = 0)
      THEN [ok |-> FALSE, positions |-> store(before), owed |-> NewPosition.last]
      ELSE [ok |-> \A i \in Tokens : owed[i] <= I128Max,
            positions |-> store([liquidity |-> after, last |-> inside]),
            owed |-> owed]

\* The four outcomes: an error while updating ticks, while updating the
\* position, on the active liquidity, or success.  (The principal can still
\* overflow afterwards; that error leaves the same state as success.)
ModifyLiquidity(owner, lo, hi, delta) ==
  /\ ~swap.running
  /\ CheckTicks(lo, hi)
  /\ LET tk      == UpdateTicks(lo, hi, delta)
         inside  == GrowthInside(tick, feeGrowth, lo, hi, tk.outLo, tk.outHi)
         pos     == UpdatePosition(<<owner, lo, hi>>, delta, inside)
         active  == IF lo <= tick /\ tick < hi THEN liquidity + delta ELSE liquidity
         fits    == active \in 0 .. U128Max
     IN  /\ ticks' = tk.ticks
         /\ \/ /\ ~tk.ok
               /\ UNCHANGED <<positions, liquidity, unclaimed>>
            \/ /\ tk.ok /\ ~(pos.ok /\ fits)
               /\ positions' = pos.positions
               /\ UNCHANGED <<liquidity, unclaimed>>
            \/ /\ tk.ok /\ pos.ok /\ fits
               /\ positions' = pos.positions
               /\ liquidity' = active
               /\ unclaimed' = [i \in Tokens |-> unclaimed[i] - pos.owed[i]]
         /\ tainted' = (tainted \/ (~(tk.ok /\ pos.ok /\ fits) /\ ticks' # ticks))
  /\ UNCHANGED <<tick, sqrtPrice, feeGrowth, swap>>

-----------------------------------------------------------------------------
(* swap *)

NoSwap == [running |-> FALSE, zeroForOne |-> FALSE, limit |-> SqrtPriceAt[MinTick],
           tick |-> MinTick, sqrtPrice |-> SqrtPriceAt[MinTick], liquidity |-> 0,
           growth |-> 0, remaining |-> FALSE, crossed |-> FALSE, charged |-> 0]

InToken(zeroForOne) == IF zeroForOne THEN 0 ELSE 1

\* swap_inner up to the loop, for a non-zero amount and a limit on the right
\* side of the price.  The other calls return without touching anything.
SwapBegin(zeroForOne, limit) ==
  /\ ~swap.running
  /\ IF zeroForOne THEN limit < sqrtPrice ELSE limit > sqrtPrice
  /\ swap' = [running |-> TRUE, zeroForOne |-> zeroForOne, limit |-> limit,
              tick |-> tick, sqrtPrice |-> sqrtPrice, liquidity |-> liquidity,
              growth |-> feeGrowth[InToken(zeroForOne)], remaining |-> TRUE,
              crossed |-> FALSE, charged |-> 0]
  /\ UNCHANGED <<tick, sqrtPrice, liquidity, feeGrowth, ticks, positions,
                 unclaimed, tainted>>

LoopRuns == swap.remaining /\ swap.sqrtPrice # swap.limit /\ swap.liquidity # 0

\* The tick the step walks to, and whether it is an initialized one.
StepTick ==
  LET boundary == WordBoundary(swap.tick, swap.zeroForOne)
      cands    == NextCandidates(swap.tick, swap.zeroForOne)
      next     == NextInitialized(swap.tick, swap.zeroForOne)
      inWord   == IF swap.zeroForOne THEN next >= boundary ELSE next <= boundary
  IN  IF cands # {} /\ inWord
      THEN [tick |-> next, initialized |-> TRUE]
      ELSE [tick |-> boundary, initialized |-> FALSE]

\* get_sqrt_price_target.
StepTarget(t) ==
  LET next == SqrtPriceAt[t]
  IN  IF swap.zeroForOne
      THEN IF next > swap.limit THEN next ELSE swap.limit
      ELSE IF next < swap.limit THEN next ELSE swap.limit

\* What compute_swap_step may return: a price between here and the target.
StepPrice(target) ==
  IF swap.zeroForOne THEN target .. swap.sqrtPrice ELSE swap.sqrtPrice .. target

\* A step that stops short has used up the amount; an empty step uses nothing.
StepExhausts(target, price, exhausted) ==
  /\ price # target => exhausted
  /\ target = swap.sqrtPrice => ~exhausted

\* Mutants: the crossing reads the committed globals, or flips nothing.
FlipOutside_StaleGlobal(t, growth) ==
  [ticks EXCEPT ![t].outside = [i \in Tokens |-> WrappingSub(feeGrowth[i], @[i])]]
FlipOutside_Skipped(t, growth) == ticks

\* cross_tick on the mutable tick store: both outsides are flipped at once.
FlipOutside(t, growth) ==
  LET g == [feeGrowth EXCEPT ![InToken(swap.zeroForOne)] = growth]
  IN  [ticks EXCEPT ![t].outside = [i \in Tokens |-> WrappingSub(g[i], @[i])]]

\* Mutants: a downward crossing stays on the tick it crossed, or a move inside
\* a range does not refresh the tick.
TickAfterStep_SameTick(next, reached, price) ==
  IF reached THEN next ELSE IF price # swap.sqrtPrice THEN TickAt(price) ELSE swap.tick
TickAfterStep_NotRefreshed(next, reached, price) ==
  IF reached THEN IF swap.zeroForOne THEN next - 1 ELSE next ELSE swap.tick

\* result.tick at the end of an iteration.
TickAfterStep(next, reached, price) ==
  CASE reached /\ swap.zeroForOne  -> next - 1
    [] reached /\ ~swap.zeroForOne -> next
    [] ~reached /\ price # swap.sqrtPrice -> TickAt(price)
    [] OTHER -> swap.tick

\* One iteration of the loop, including the crossing it may end with.
SwapStep(price, fee, exhausted) ==
  LET next    == StepTick
      target  == StepTarget(next.tick)
      growth  == swap.growth + (fee * Q128) \div swap.liquidity
      reached == price = SqrtPriceAt[next.tick]
      crosses == reached /\ next.initialized
      net     == IF swap.zeroForOne THEN -ticks[next.tick].net ELSE ticks[next.tick].net
      after   == IF crosses THEN swap.liquidity + net ELSE swap.liquidity
  IN  /\ swap.running /\ LoopRuns
      /\ price \in StepPrice(target)
      /\ StepExhausts(target, price, exhausted)
      /\ fee \in StepFees[InToken(swap.zeroForOne)]
      /\ target = swap.sqrtPrice => fee = 0
      /\ growth \in FeeGrowths
      /\ ticks' = IF crosses THEN FlipOutside(next.tick, growth) ELSE ticks
      /\ IF after \in 0 .. U128Max
         THEN /\ swap' = [swap EXCEPT
                   !.sqrtPrice = price,
                   !.liquidity = after,
                   !.growth    = growth,
                   !.remaining = ~exhausted,
                   !.crossed   = @ \/ crosses,
                   !.charged   = @ + fee,
                   !.tick      = TickAfterStep(next.tick, reached, price)]
              /\ UNCHANGED tainted
         ELSE swap' = NoSwap /\ tainted' = TRUE
      /\ UNCHANGED <<tick, sqrtPrice, liquidity, feeGrowth, positions, unclaimed>>

\* The loop is over: StateAccess::set commits the final state.
SwapCommit ==
  LET token == InToken(swap.zeroForOne)
  IN  /\ swap.running /\ ~LoopRuns
      /\ tick' = swap.tick
      /\ sqrtPrice' = swap.sqrtPrice
      /\ liquidity' = swap.liquidity
      /\ feeGrowth' = [feeGrowth EXCEPT ![token] = swap.growth]
      /\ unclaimed' = [unclaimed EXCEPT ![token] = @ + swap.charged]
      /\ swap' = NoSwap
      /\ UNCHANGED <<ticks, positions, tainted>>

\* A checked operation of an iteration or of the final conversion fails: the
\* swap returns an error and nothing is committed, but crossings have happened.
SwapFail ==
  /\ swap.running
  /\ swap' = NoSwap
  /\ tainted' = (tainted \/ swap.crossed)
  /\ UNCHANGED <<tick, sqrtPrice, liquidity, feeGrowth, ticks, positions, unclaimed>>

-----------------------------------------------------------------------------
Init ==
  /\ sqrtPrice \in Prices
  /\ tick = TickAt(sqrtPrice)
  /\ liquidity = 0
  /\ feeGrowth = [i \in Tokens |-> 0]
  /\ ticks = [t \in {} |-> NewTick]
  /\ positions = [k \in {} |-> NewPosition]
  /\ swap = NoSwap
  /\ unclaimed = [i \in Tokens |-> 0]
  /\ tainted = FALSE

Next ==
  \/ \E owner \in Owners, r \in Ranges, delta \in Deltas :
       ModifyLiquidity(owner, r[1], r[2], delta)
  \/ \E zeroForOne \in BOOLEAN, limit \in Limits : SwapBegin(zeroForOne, limit)
  \/ \E price \in Prices, fee \in UNION {StepFees[i] : i \in Tokens}, exhausted \in BOOLEAN :
       SwapStep(price, fee, exhausted)
  \/ SwapCommit
  \/ SwapFail

Spec == Init /\ [][Next]_vars

\* The swap loop is sequential code: once entered it keeps being executed.  That
\* it may also fail is not relied on.
SwapAdvances ==
  \/ \E price \in Prices, fee \in UNION {StepFees[i] : i \in Tokens}, exhausted \in BOOLEAN :
       SwapStep(price, fee, exhausted)
  \/ SwapCommit

FairSpec == Spec /\ WF_vars(SwapAdvances)

-----------------------------------------------------------------------------
(* Views *)

\* The pool as the running swap sees it, or as it is committed.
Current ==
  IF swap.running
  THEN [tick |-> swap.tick, sqrtPrice |-> swap.sqrtPrice, liquidity |-> swap.liquidity,
        growth |-> [feeGrowth EXCEPT ![InToken(swap.zeroForOne)] = swap.growth]]
  ELSE [tick |-> tick, sqrtPrice |-> sqrtPrice, liquidity |-> liquidity,
        growth |-> feeGrowth]

\* Liquidity that is active when the pool stands at tick t.
NetUpTo(t) ==
  SumFunctionOnSet([u \in DOMAIN ticks |-> ticks[u].net], {u \in DOMAIN ticks : u <= t})

OpenPositions == {k \in DOMAIN positions : positions[k].liquidity > 0}

LiquidityOf(keys) ==
  SumFunctionOnSet([k \in DOMAIN positions |-> positions[k].liquidity], keys)

\* What those of the positions whose entries are in `seen` count at tick t.
GrossOf(seen, t) ==
  LiquidityOf({k \in seen : k[2] = t}) + LiquidityOf({k \in seen : k[3] = t})
NetOf(seen, t) ==
  LiquidityOf({k \in seen : k[2] = t}) - LiquidityOf({k \in seen : k[3] = t})

\* The map is hashed: its entries come in any order, so any set of them may be
\* those counted so far.
CountingFits ==
  /\ \A k \in OpenPositions : positions[k].liquidity <= I128Max
  /\ \A seen \in SUBSET OpenPositions : \A t \in Ticks :
       /\ GrossOf(seen, t) <= U128Max
       /\ NetOf(seen, t) \in -I128Max - 1 .. I128Max

\* The tick map that the open positions call for.
TicksOfPositions(tks) ==
  /\ DOMAIN tks = {k[2] : k \in OpenPositions} \cup {k[3] : k \in OpenPositions}
  /\ \A t \in DOMAIN tks : /\ tks[t].gross = GrossOf(OpenPositions, t)
                          /\ tks[t].net = NetOf(OpenPositions, t)

\* validate_against_ticks.
ReconcilesWithPositions ==
  /\ \A k \in DOMAIN positions : CheckTicks(k[2], k[3])
  /\ CountingFits
  /\ TicksOfPositions(ticks)

\* PoolSnapshot::validate on a snapshot of the committed pool.  The net liquidity
\* is added up tick by tick, upwards, in an i128.
SnapshotValid ==
  /\ TickAt(sqrtPrice) = tick
  /\ \A t \in DOMAIN ticks :
       /\ Aligned(t)
       /\ ticks[t].gross # 0 /\ ticks[t].gross <= MaxLiquidityPerTick
       /\ ticks[t].net \in -ticks[t].gross .. ticks[t].gross
  /\ \A t \in DOMAIN ticks : t <= tick => NetUpTo(t) \in -I128Max - 1 .. I128Max
  /\ NetUpTo(tick) = liquidity
  /\ ReconcilesWithPositions

InsideOf(k) ==
  GrowthInside(Current.tick, Current.growth, k[2], k[3],
               ticks[k[2]].outside, ticks[k[3]].outside)

\* Fees the open positions could collect now.
Pending(i) ==
  SumFunction([k \in OpenPositions |->
    FeesOwed(positions[k].liquidity, InsideOf(k), positions[k].last)[i]])

-----------------------------------------------------------------------------
(* Properties *)

TickInfos == [gross : 0 .. U128Max, net : -I128Max - 1 .. I128Max, outside : [Tokens -> FeeGrowths]]
PositionStates == [liquidity : 0 .. U128Max, last : [Tokens -> FeeGrowths]]
SwapLocals ==
  [running : BOOLEAN, zeroForOne : BOOLEAN, limit : Prices, tick : PoolTicks,
   sqrtPrice : Prices, liquidity : 0 .. U128Max, growth : FeeGrowths,
   remaining : BOOLEAN, crossed : BOOLEAN, charged : Nat]

\* A map with keys in K and values in V.
MapOf(f, K, V) == DOMAIN f \subseteq K /\ f \in [DOMAIN f -> V]

\* Every variable holds a value of its Rust type; positions and ticks are
\* keyed by valid ranges.
TypeOK ==
  /\ tick \in PoolTicks /\ sqrtPrice \in Prices
  /\ liquidity \in 0 .. U128Max
  /\ feeGrowth \in [Tokens -> FeeGrowths]
  /\ MapOf(ticks, Ticks, TickInfos)
  /\ MapOf(positions, Owners \X Ticks \X Ticks, PositionStates)
  /\ swap \in SwapLocals
  /\ unclaimed \in [Tokens -> Int]
  /\ tainted \in BOOLEAN

\* The tick is the floor tick of the price, or one less when the price sits
\* exactly on the tick above.
Tracks(t, p) ==
  \/ t = TickAt(p)
  \/ t < MaxTick /\ p = SqrtPriceAt[t + 1]

\* The pool tick is the floor tick of the price, except right after a downward
\* crossing, when the price sits exactly on the tick above (result.tick of
\* swap_inner).
TickTracksPrice == Tracks(Current.tick, Current.sqrtPrice)

\* Whatever sequence of mints, burns and crossings led here, the active
\* liquidity is the net liquidity of the ticks at or below the pool tick.
ActiveLiquidityIsNet == ~tainted => Current.liquidity = NetUpTo(Current.tick)

\* The per-tick cap keeps the active liquidity of every price in a u128, so no
\* crossing can overflow (max_liquidity_per_tick against swap_inner).
DepthWithinU128 == ~tainted => \A t \in Ticks : NetUpTo(t) \in 0 .. U128Max

\* A pool none of whose calls failed half way passes its own validation
\* (try_fork, serde) whenever its tick is the floor tick of its price: all sums
\* agree, and none of them, although signed, overflows on the way.
SnapshotLoads ==
  ~tainted /\ ~swap.running /\ tick = TickAt(sqrtPrice) => SnapshotValid

\* The positions can never collect more than the swaps have charged for them,
\* across crossings, wrapping subtractions and re-initialized ticks.
FeesCovered ==
  ~tainted => \A i \in Tokens :
    Pending(i) <= unclaimed[i] + (IF swap.running /\ i = InToken(swap.zeroForOne)
                                  THEN swap.charged ELSE 0)

\* Fee growth inside an open position advances by exactly the global growth
\* while the pool is in its range, and by nothing otherwise: no crossing, mint
\* or burn by another owner moves it.
GrowthGoesToActiveRanges ==
  [][~tainted' =>
     \A k \in OpenPositions \cap OpenPositions' : \A i \in Tokens :
       WrappingSub(InsideOf(k)'[i], InsideOf(k)[i])
         = IF k[2] <= Current.tick /\ Current.tick < k[3]
           THEN WrappingSub(Current.growth'[i], Current.growth[i]) ELSE 0]_vars

\* Every swap returns: the loop of swap_inner always makes progress.
SwapTerminates == swap.running ~> ~swap.running

-----------------------------------------------------------------------------
(* What the documentation says and the code does not do *)

\* pool_state.rs: "`tick` must match the floor tick for `sqrt_price_x96`".
TickIsFloorTick == tick = TickAt(sqrtPrice)

\* pool.rs: position liquidity must reconcile with initialized tick liquidity
\* (empty ticks a failed call left behind are not counted here).
PositionsReconcile ==
  TicksOfPositions(Restrict(ticks, {t \in DOMAIN ticks : ticks[t].gross # 0}))
=============================================================================
