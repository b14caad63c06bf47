----------------------------- MODULE StablePair -----------------------------
(***************************************************************************)
(* The stable-pair dynamic-fee hook of v4/stable_pair.rs: the fee state it *)
(* writes once per block and the fee of each swap.  The arithmetic is kept *)
(* with smaller units, except that the decay over five blocks or more,     *)
(* which the code takes from fixed-point exp and ln, is any factor that is *)
(* not above the exact one for four blocks.  The pool is external: a swap  *)
(* moves its price in the direction of the swap, or not at all.            *)
(***************************************************************************)
EXTENDS Integers

CONSTANTS
  Pips,         \* ONE_E6
  Q48,          \* 2^48
  Q24,          \* 2^24
  MaxMultiplier, \* MAX_TARGET_MULTIPLIER
  K, OptimalFee, Multiplier, Reference,   \* StableFeeConfig
  Prices,       \* the pool's sqrt prices
  Blocks        \* the block numbers operations run in

One == Pips * Pips          \* ONE_E12
Q96 == Q48 * Q48
Undefined == One + 1        \* UNDEFINED_DECAYING_FEE_E12
MaxFeePips == Pips - 2      \* MAX_FEE_E6

\* validate_config, in the model's units.
ASSUME ConfigAssumption ==
  /\ Pips \in Nat /\ Pips > 2 /\ Q48 \in Nat \ {0}
  /\ Q24 \in Nat \ {0} /\ K \in 1 .. Q24 - 1
  /\ OptimalFee \in 0 .. Pips - 1
  /\ MaxMultiplier \in Nat \ {0} /\ Multiplier \in 0 .. MaxMultiplier
  /\ Reference \in Nat \ {0} /\ Prices \subseteq Nat \ {0} /\ Blocks \subseteq Nat

VARIABLES
  price,    \* the pool's sqrt price
  block,    \* the manager's block number
  state,    \* StableFeeState
  quoted,   \* history: direction to the fees quoted since block `epoch`
  epoch     \* history: the highest block a swap has run in

vars == <<price, block, state, quoted, epoch>>

-----------------------------------------------------------------------------
(* Fees.  Ratios are in Q96, fees in units of 1 / One. *)

PriceRatio(a, b) ==
  LET r == IF a < b THEN (a * Q48) \div b ELSE (b * Q48) \div a IN r * r

Scaled == One * (Pips - OptimalFee)

CloseBoundaryFee(ratio) == One - (((One * ratio * Pips) \div (Pips - OptimalFee)) \div Q96)
FarBoundaryFee(ratio)   == One - (((Scaled * ratio) \div Q96) \div Pips)

\* inside_optimal_range_fee: both directions trade at the range's boundaries.
InsideFee(ratio, away) ==
  One - (IF away THEN ((Scaled * Q96) \div ratio) \div Pips
                 ELSE ((Scaled * ratio) \div Q96) \div Pips)

\* Mutant: the fee is not kept below 100%.
ToPips_Unclamped(fee) == (fee + Pips - 1) \div Pips

\* to_fee_e6.
ToPips(fee) ==
  LET pips == (fee + Pips - 1) \div Pips
  IN  IF pips < MaxFeePips THEN pips ELSE MaxFeePips

\* What is left of a fee after n blocks, in Q24.
DecayFactors(n) ==
  CASE n = 0 -> {Q24}
    [] n = 1 -> {K}
    [] n = 2 -> {(K * K) \div Q24}
    [] n = 3 -> {(K * K * K) \div (Q24 * Q24)}
    [] n = 4 -> {(K * K * K * K) \div (Q24 * Q24 * Q24)}
    [] OTHER -> 0 .. (K * K * K * K) \div (Q24 * Q24 * Q24)

\* target_fee_e12.
TargetFee(p) ==
  LET ratio == PriceRatio(p, Reference)
  IN  FarBoundaryFee(ratio) - (CloseBoundaryFee(ratio) * Multiplier) \div MaxMultiplier

\* The previous fee, raised with a price that has moved further away.
AdjustedPrevious(p) ==
  One - ((PriceRatio(p, state.price) * (One - state.decaying)) \div Q96)

\* Mutants: every block starts over from the far boundary, or the start is
\* not raised to the target.
DecayStart_Restarted(p) == FarBoundaryFee(PriceRatio(p, Reference))
DecayStart_BelowTarget(p) ==
  IF state.decaying = Undefined \/ (state.price < Reference) # (p < Reference)
  THEN FarBoundaryFee(PriceRatio(p, Reference)) ELSE state.decaying

\* decay_start_fee_e12.
DecayStart(p) ==
  LET far   == FarBoundaryFee(PriceRatio(p, Reference))
      below == p < Reference
      start == IF state.decaying = Undefined \/ (state.price < Reference) # below THEN far
               ELSE IF below = (p < state.price) THEN AdjustedPrevious(p)
               ELSE IF state.decaying > far THEN far ELSE state.decaying
  IN  IF start > TargetFee(p) THEN start ELSE TargetFee(p)

BlocksPassed == IF block > state.block THEN block - state.block ELSE 0

\* decaying_fee.
DecayedFees(p) ==
  {TargetFee(p) + (f * (DecayStart(p) - TargetFee(p))) \div Q24 :
     f \in DecayFactors(BlocksPassed)}

\* get_fee: the swap's fee and the fee that decays.  Outside the optimal range
\* a swap that moves the price further away pays nothing.
FeeAt(p, newBlock, zeroForOne) ==
  LET ratio == PriceRatio(p, Reference)
      away  == (p < Reference) = zeroForOne
  IN  IF CloseBoundaryFee(ratio) <= 0
      THEN {[lp |-> InsideFee(ratio, away), decaying |-> Undefined]}
      ELSE {[lp |-> IF away THEN 0 ELSE d, decaying |-> d] :
              d \in IF newBlock THEN DecayedFees(p) ELSE {state.decaying}}

\* Mutant: every swap takes a fresh price.
IsNewBlock_Always == TRUE

\* is_new_block: the cached price is used for the rest of the block.
IsNewBlock == block > state.block \/ state.price = 0

BasePrice == IF IsNewBlock THEN price ELSE state.price

-----------------------------------------------------------------------------
(* Operations *)

Directions == BOOLEAN

\* before_swap_fee, and then the pool swaps (or fails, and stays).
Swap(zeroForOne, after) ==
  /\ IF zeroForOne THEN after <= price ELSE after >= price
  /\ \E fee \in FeeAt(BasePrice, IsNewBlock, zeroForOne) :
       /\ state' = IF IsNewBlock
                   THEN [decaying |-> fee.decaying, price |-> BasePrice, block |-> block]
                   ELSE state
       /\ quoted' = [d \in Directions |->
                       (IF block > epoch THEN {} ELSE quoted[d])
                         \cup (IF d = zeroForOne THEN {ToPips(fee.lp)} ELSE {})]
  /\ epoch' = IF block > epoch THEN block ELSE epoch
  /\ price' = after
  /\ UNCHANGED block

\* set_block_number takes any number.
SetBlockNumber(b) == block' = b /\ UNCHANGED <<price, state, quoted, epoch>>

\* StableFeeState::reset, in or before the block the manager starts in.
Init ==
  /\ price \in Prices /\ block \in Blocks
  /\ state \in [decaying : {Undefined}, price : {0}, block : {b \in Blocks : b <= block}]
  /\ quoted = [d \in Directions |-> {}]
  /\ epoch = -1

Next ==
  \/ \E zeroForOne \in BOOLEAN, after \in Prices : Swap(zeroForOne, after)
  \/ \E b \in Blocks : SetBlockNumber(b)

Spec == Init /\ [][Next]_vars

-----------------------------------------------------------------------------
(* Properties *)

\* All swaps of one direction pay the same fee until a swap runs in a later
\* block, wherever they move the price: nobody can lower their own fee, or
\* raise another's, by trading earlier in the block.
OneFeePerBlock == \A d \in Directions : \A f, g \in quoted[d] : f = g

\* No fee ever reaches 100%, which would make exact-output swaps impossible.
FeesBelowAll == \A d \in Directions : quoted[d] \subseteq 0 .. MaxFeePips

\* Outside the optimal range the decaying fee lies between the target, below
\* which decay never takes it, and 100%: no subtraction of the decay underflows.
DecayStaysAboveTarget ==
  state.decaying # Undefined =>
    /\ 0 <= TargetFee(state.price)
    /\ state.decaying \in TargetFee(state.price) .. One

\* As long as blocks start at the same price, the fee to correct it only falls.
FeeDecays ==
  [][state'.price = state.price /\ state.decaying # Undefined
       => state'.decaying <= state.decaying]_vars
=============================================================================
