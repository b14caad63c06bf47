------------------------------ MODULE SwapMath ------------------------------
(***************************************************************************)
(* compute_swap_step of math/swap.rs: one step of a swap through one range *)
(* of constant liquidity.  The result is an Option: {} is an error.        *)
(***************************************************************************)
EXTENDS SqrtPriceMath, FeeMath

InDelta(p, q, liquidity, zeroForOne) ==
  IF zeroForOne THEN Amount0(p, q, liquidity, TRUE) ELSE Amount1(p, q, liquidity, TRUE)

OutDelta(p, q, liquidity, zeroForOne) ==
  IF zeroForOne THEN Amount1(p, q, liquidity, FALSE) ELSE Amount0(p, q, liquidity, FALSE)

\* Mutant: a partial fill pays the fee on its input and keeps the rest.
ComputeExactIn_ChangeReturned(p, target, liquidity, remaining, fee) ==
  LET zeroForOne == p >= target
      net   == AmountLessFee(remaining, fee)
      maxIn == InDelta(p, target, liquidity, zeroForOne)
      ends  == IF net >= maxIn THEN {target} ELSE NextFromInput(p, liquidity, net, zeroForOne)
  IN  {[price |-> q, in |-> InDelta(p, q, liquidity, zeroForOne),
        out |-> OutDelta(p, q, liquidity, zeroForOne),
        fee |-> FeeOnInput(InDelta(p, q, liquidity, zeroForOne), fee)] : q \in ends}

\* The fee is deducted up front; a step that does not reach the target spends
\* all that remains.
ComputeExactIn(p, target, liquidity, remaining, fee) ==
  LET zeroForOne == p >= target
      net   == AmountLessFee(remaining, fee)
      maxIn == InDelta(p, target, liquidity, zeroForOne)
      out(q) == OutDelta(p, q, liquidity, zeroForOne)
  IN  CASE net = 0 ->
             {[price |-> p, in |-> 0, out |-> 0,
               fee |-> IF p = target THEN 0 ELSE remaining]}
        [] net # 0 /\ net >= maxIn ->
             {[price |-> target, in |-> maxIn, out |-> out(target),
               fee |-> FeeOnInput(maxIn, fee)]}
        [] OTHER ->
             {[price |-> q, in |-> net, out |-> out(q), fee |-> remaining - net] :
                q \in NextFromInput(p, liquidity, net, zeroForOne)}

\* Mutant: the output is not capped at what the caller still wants.
ComputeExactOut_Uncapped(p, target, liquidity, remaining, fee) ==
  LET zeroForOne == p >= target
  IN  {[price |-> target, in |-> InDelta(p, target, liquidity, zeroForOne),
        out |-> OutDelta(p, target, liquidity, zeroForOne),
        fee |-> FeeOnInput(InDelta(p, target, liquidity, zeroForOne), fee)]}

\* The output is capped at what the range delivers; the fee is on the input.
ComputeExactOut(p, target, liquidity, remaining, fee) ==
  LET zeroForOne == p >= target
      maxOut == OutDelta(p, target, liquidity, zeroForOne)
      in(q)  == InDelta(p, q, liquidity, zeroForOne)
      ends   == IF remaining >= maxOut THEN {target}
                ELSE NextFromOutput(p, liquidity, remaining, zeroForOne)
  IN  {[price |-> q, in |-> in(q),
        out |-> IF remaining >= maxOut THEN maxOut ELSE remaining,
        fee |-> FeeOnInput(in(q), fee)] : q \in ends}

\* compute_swap_step: a negative amount is exact input, a positive one exact
\* output, which a 100% fee rules out.
ComputeSwapStep(p, target, liquidity, amount, fee) ==
  CASE amount = 0 -> {[price |-> p, in |-> 0, out |-> 0, fee |-> 0]}
    [] amount < 0 -> ComputeExactIn(p, target, liquidity, -amount, fee)
    [] amount > 0 /\ fee = MaxFee -> {}
    [] OTHER -> ComputeExactOut(p, target, liquidity, amount, fee)
=============================================================================
