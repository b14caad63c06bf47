--------------------------- MODULE SqrtPriceMath ---------------------------
(***************************************************************************)
(* Amounts between two sqrt prices and the price an amount moves to        *)
(* (math/sqrt_price.rs).  The wide integers of the code hold every exact   *)
(* product; the one place where their width shows is kept: an amount0      *)
(* whose product with the price leaves 256 bits takes a coarser formula.   *)
(* An Option is the set of its values: {} is an error.                     *)
(***************************************************************************)
EXTENDS Integers

CONSTANTS
  Q96,                \* the fixed-point unit (2^96)
  U256Max,            \* largest intermediate of the amount0 formulas
  MinPrice, MaxPrice  \* SqrtPriceX96::MIN and MAX

ASSUME SqrtPriceAssumption ==
  /\ Q96 \in Nat \ {0} /\ U256Max \in Nat
  /\ MinPrice \in Nat \ {0} /\ MaxPrice \in Nat /\ MinPrice < MaxPrice

Prices == MinPrice .. MaxPrice

Divide(n, d, up) == IF up THEN (n + d - 1) \div d ELSE n \div d

Gap(a, b) == IF a < b THEN b - a ELSE a - b

\* Mutant: the amount ignores the rounding it is asked for.
Amount0_Floor(a, b, liquidity, up) == (liquidity * Gap(a, b) * Q96) \div (a * b)

\* get_amount0_delta and get_amount1_delta, rounded as asked.
Amount0(a, b, liquidity, up) == Divide(liquidity * Gap(a, b) * Q96, a * b, up)
Amount1(a, b, liquidity, up) == Divide(liquidity * Gap(a, b), Q96, up)

InPriceRange(p) == {p} \cap Prices

\* liquidity_sqrt_q96_div_rounding_up: 384 bits hold the product.
LiquidityPriceRatio(p, liquidity, d) == Divide(liquidity * Q96 * p, d, TRUE)

\* Token0 in: the price falls, rounded up; past 256 bits by the fallback.
NextFromAmount0Add(p, liquidity, amount) ==
  LET n == liquidity * Q96
  IN  InPriceRange(IF amount * p + n <= U256Max
                   THEN LiquidityPriceRatio(p, liquidity, n + amount * p)
                   ELSE Divide(n, n \div p + amount, TRUE))

\* Token0 out: the price rises, rounded up; not more than the virtual reserve.
NextFromAmount0Sub(p, liquidity, amount) ==
  LET n == liquidity * Q96
  IN  IF amount * p > U256Max \/ n <= amount * p THEN {}
      ELSE InPriceRange(LiquidityPriceRatio(p, liquidity, n - amount * p))

\* Token1 in: the price rises, rounded down.
NextFromAmount1Add(p, liquidity, amount) ==
  InPriceRange(p + Divide(amount * Q96, liquidity, FALSE))

\* Token1 out: the price falls, rounded down.
NextFromAmount1Sub(p, liquidity, amount) ==
  LET q == Divide(amount * Q96, liquidity, TRUE)
  IN  IF p <= q THEN {} ELSE InPriceRange(p - q)

NextFromAmount0(p, liquidity, amount, add) ==
  IF add THEN NextFromAmount0Add(p, liquidity, amount) ELSE NextFromAmount0Sub(p, liquidity, amount)

NextFromAmount1(p, liquidity, amount, add) ==
  IF add THEN NextFromAmount1Add(p, liquidity, amount) ELSE NextFromAmount1Sub(p, liquidity, amount)

NextFromInput(p, liquidity, amount, zeroForOne) ==
  IF zeroForOne THEN NextFromAmount0(p, liquidity, amount, TRUE)
                ELSE NextFromAmount1(p, liquidity, amount, TRUE)

NextFromOutput(p, liquidity, amount, zeroForOne) ==
  IF zeroForOne THEN NextFromAmount1(p, liquidity, amount, FALSE)
                ELSE NextFromAmount0(p, liquidity, amount, FALSE)
=============================================================================
