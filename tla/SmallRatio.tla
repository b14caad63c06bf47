----------------------------- MODULE SmallRatio -----------------------------
(***************************************************************************)
(* A four-limb amount times and divided by a small number, limb by limb    *)
(* (math/small_ratio.rs).  A limb has LimbBits bits (64); numerator and    *)
(* denominator are below Small (2^32).                                     *)
(***************************************************************************)
EXTENDS Integers

CONSTANTS LimbBits, Small

ASSUME SmallRatioAssumption == LimbBits \in Nat /\ 2^LimbBits \in Nat /\ Small \in 1 .. 2^LimbBits

Limb == 2^LimbBits
Wide == 2^(4 * LimbBits)      \* above every amount

Limbs(n) == [i \in 1..4 |-> (n \div 2^((i - 1) * LimbBits)) % Limb]
OfLimbs(l) == l[1] + Limb * (l[2] + Limb * (l[3] + Limb * l[4]))

\* The product limb by limb, `n` limbs of the amount and one for the carry.
ProductLimbs(limbs, n, numerator) ==
  LET carry[i \in 0..n] == IF i = 0 THEN 0 ELSE (limbs[i] * numerator + carry[i - 1]) \div Limb
  IN  [i \in 1 .. n + 1 |->
         IF i > n THEN carry[n] ELSE (limbs[i] * numerator + carry[i - 1]) % Limb]

\* Mutant: the remainder of the limb above is not carried down.
DividedLimbs_NoCarry(product, n, d) ==
  [quotient  |-> [i \in 1..4 |-> IF i > n + 1 THEN 0 ELSE product[i] \div d],
   remainder |-> product[1] % d]

\* divide_leading_u32 and div_step_u32, from the top limb down.
DividedLimbs(product, n, d) ==
  LET top == n + 1
      remainder[i \in 1 .. top + 1] ==
        IF i > top THEN 0 ELSE (remainder[i + 1] * Limb + product[i]) % d
  IN  [quotient  |-> [i \in 1..4 |-> IF i > top THEN 0
                                     ELSE (remainder[i + 1] * Limb + product[i]) \div d],
       remainder |-> remainder[1]]

\* How many limbs the path taken looks at: low64, low128 or full.
LimbsUsed(l) == IF l[2] = 0 /\ l[3] = 0 /\ l[4] = 0 THEN 1
                ELSE IF l[3] = 0 /\ l[4] = 0 THEN 2 ELSE 4

\* mul_div_u32_div_rem: quotient and remainder; no element: an error.
MulDivU32(amount, numerator, d) ==
  LET l == Limbs(amount)
      n == LimbsUsed(l)
      product == ProductLimbs(l, n, numerator)
      result  == DividedLimbs(product, n, d)
  IN  IF d = 0 THEN {}
      ELSE IF amount = 0 \/ numerator = 0 THEN {[quotient |-> 0, remainder |-> 0]}
      ELSE IF numerator = d THEN {[quotient |-> amount, remainder |-> 0]}
      ELSE IF n = 4 /\ product[5] >= d THEN {}
      ELSE {[quotient |-> OfLimbs(result.quotient), remainder |-> result.remainder]}

MulDivU32Floor(amount, numerator, d) == {r.quotient : r \in MulDivU32(amount, numerator, d)}

MulDivU32Ceil(amount, numerator, d) ==
  UNION {{c \in {IF r.remainder = 0 THEN r.quotient ELSE r.quotient + 1} : c < Wide} :
           r \in MulDivU32(amount, numerator, d)}

=============================================================================
