----------------------------- MODULE RangeSwaps -----------------------------
(***************************************************************************)
(* Swaps through one range of constant liquidity with the real arithmetic: *)
(* the amounts, fees and protocol share that swap_inner accounts step by   *)
(* step, and the tokens the pool holds as a result.  Module Pool abstracts *)
(* a step by a contract (StepPrice, StepExhausts); StepHonoursContract     *)
(* checks that contract here.                                              *)
(***************************************************************************)
EXTENDS SwapMath

CONSTANTS
  Liquidities,   \* the liquidity of the range
  FeeConfigs,    \* <<protocol pips, LP pips>> of the pool
  Amounts,       \* the amounts callers specify
  Limits         \* the price limits callers use

ASSUME RangeAssumption ==
  /\ Liquidities \subseteq {l \in Nat \ {0} : l * Q96 <= U256Max}
  /\ FeeConfigs \subseteq Fees \X Fees
  /\ Amounts \subseteq Int \ {0}
  /\ Limits \subseteq Prices

VARIABLES
  liquidity, fees,  \* configuration of the pool
  sqrtPrice,        \* PoolState::sqrt_price_x96
  held,             \* history: the pool's tokens, all fees set aside
  swap              \* the locals of swap_inner

vars == <<liquidity, fees, sqrtPrice, held, swap>>

\* The effective fee cached by SwapFee.
SwapFeePips == CHOOSE f \in CalculateSwapFee(fees[1], fees[2]) : TRUE

NoSwap == [running |-> FALSE, zeroForOne |-> FALSE, limit |-> MinPrice, amount |-> 0,
           sqrtPrice |-> MinPrice, target |-> MinPrice, remaining |-> 0,
           calculated |-> 0, charged |-> 0, toProtocol |-> 0]

\* A swap with a limit on the right side of the price.
SwapBegin(zeroForOne, amount, limit) ==
  /\ ~swap.running
  /\ IF zeroForOne THEN limit < sqrtPrice ELSE limit > sqrtPrice
  /\ swap' = [NoSwap EXCEPT !.running = TRUE, !.zeroForOne = zeroForOne,
                !.limit = limit, !.amount = amount, !.remaining = amount,
                !.sqrtPrice = sqrtPrice, !.target = sqrtPrice]
  /\ UNCHANGED <<liquidity, fees, sqrtPrice, held>>

LoopRuns == swap.remaining # 0 /\ swap.sqrtPrice # swap.limit

\* The next boundary may lie anywhere up to the limit.
Targets ==
  IF swap.zeroForOne THEN swap.limit .. swap.sqrtPrice ELSE swap.sqrtPrice .. swap.limit

StepTo(target) ==
  ComputeSwapStep(swap.sqrtPrice, target, liquidity, swap.remaining, SwapFeePips)

Share(step) == ProtocolShare(step.in, step.fee, SwapFeePips, fees[1])

\* An iteration of the loop: remaining and calculated amounts, protocol fee.
SwapStep(target) ==
  /\ swap.running /\ LoopRuns
  /\ \E step \in StepTo(target) :
       /\ Share(step) <= step.fee
       /\ swap' = [swap EXCEPT
            !.sqrtPrice  = step.price,
            !.target     = target,
            !.remaining  = IF swap.amount > 0 THEN @ - step.out ELSE @ + step.in + step.fee,
            !.calculated = IF swap.amount > 0 THEN @ - (step.in + step.fee) ELSE @ + step.out,
            !.charged    = @ + step.fee,
            !.toProtocol = @ + Share(step)]
  /\ UNCHANGED <<liquidity, fees, sqrtPrice, held>>

\* A step that fails ends the swap with an error and nothing is committed.
StepFails(target) == StepTo(target) = {} \/ \E step \in StepTo(target) : Share(step) > step.fee

SwapFail ==
  /\ swap.running /\ LoopRuns
  /\ \E target \in Targets : StepFails(target)
  /\ swap' = NoSwap
  /\ UNCHANGED <<liquidity, fees, sqrtPrice, held>>

\* swap_delta: what the caller receives (or, negative, owes) of each token.
SwapDelta ==
  LET specified == swap.amount - swap.remaining
      exactIn   == swap.amount < 0
  IN  [i \in {0, 1} |-> IF (i = 0) = (swap.zeroForOne = exactIn)
                        THEN specified ELSE swap.calculated]

InToken == IF swap.zeroForOne THEN 0 ELSE 1

SwapCommit ==
  /\ swap.running /\ ~LoopRuns
  /\ sqrtPrice' = swap.sqrtPrice
  /\ held' = [i \in {0, 1} |->
                held[i] - SwapDelta[i] - (IF i = InToken THEN swap.charged ELSE 0)]
  /\ swap' = NoSwap
  /\ UNCHANGED <<liquidity, fees>>

\* What a position over the whole range is worth at price p.
Principal(p, up) ==
  [i \in {0, 1} |-> IF i = 0 THEN Amount0(p, MaxPrice, liquidity, up)
                             ELSE Amount1(MinPrice, p, liquidity, up)]

\* The pool right after the mint that put the liquidity there.
Init ==
  /\ liquidity \in Liquidities /\ fees \in FeeConfigs
  /\ sqrtPrice \in Prices
  /\ held = Principal(sqrtPrice, TRUE)
  /\ swap = NoSwap

Next ==
  \/ \E zeroForOne \in BOOLEAN, amount \in Amounts, limit \in Limits :
       SwapBegin(zeroForOne, amount, limit)
  \/ \E target \in Targets : SwapStep(target)
  \/ SwapFail
  \/ SwapCommit

Spec == Init /\ [][Next]_vars

-----------------------------------------------------------------------------
(* Properties *)

\* No sequence of swaps, of whatever sizes, kinds and step boundaries, takes
\* out more than it pays for: the pool can always pay the position back.
Solvent == \A i \in {0, 1} : held[i] >= Principal(sqrtPrice, FALSE)[i]

Between(p, a, b) == (a <= p /\ p <= b) \/ (b <= p /\ p <= a)

\* What module Pool assumes of a step: it ends between the start and the
\* target; short of the target the amount is used up; an empty step uses
\* nothing.
StepHonoursContract ==
  [][swap.running /\ swap'.running =>
       /\ Between(swap'.sqrtPrice, swap.sqrtPrice, swap'.target)
       /\ swap'.sqrtPrice # swap'.target => swap'.remaining = 0
       /\ swap.sqrtPrice = swap'.target => swap'.remaining = swap.remaining]_vars

\* An exact amount is never exceeded, over all steps of a swap.
AmountNotExceeded ==
  swap.running => IF swap.amount > 0 THEN swap.remaining \in 0 .. swap.amount
                                     ELSE swap.remaining \in swap.amount .. 0

\* What the caller has paid so far, fees included.
Paid == IF swap.amount < 0 THEN swap.remaining - swap.amount ELSE -swap.calculated

\* Whichever way a step computes its fee (on top of the input, or what a
\* partial fill leaves over), it is the rate of what the caller pays, rounded
\* up once.
FeeIsRateOfPayment ==
  [][swap.running /\ swap'.running =>
       swap'.charged - swap.charged = CeilDiv(SwapFeePips * (Paid' - Paid), MaxFee)]_vars

\* A swap at a legal fee never fails inside a range, an exact output at 100%
\* aside: the next price exists, and the protocol's share never exceeds the fee
\* it is taken from.
StepsSucceed ==
  swap.running /\ LoopRuns /\ ~(SwapFeePips = MaxFee /\ swap.amount > 0) =>
    \A target \in Targets : ~StepFails(target)
=============================================================================
