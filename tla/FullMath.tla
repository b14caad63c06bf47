------------------------------ MODULE FullMath ------------------------------
(***************************************************************************)
(* Multiply and divide without losing the double-width product             *)
(* (math/full.rs).  Words have Width bits (256), Q is Q96 = 2^96, and the  *)
(* modular inverse takes NewtonSteps (6) steps.  A Result is a set: empty  *)
(* for an error, else its one value.                                       *)
(***************************************************************************)
EXTENDS Integers

CONSTANTS Width, QBits, NewtonSteps

\* The seed of the inverse is right in four bits, and each step doubles them.
ASSUME FullMathAssumption ==
  /\ Width \in Nat /\ QBits \in 1 .. Width - 1 /\ NewtonSteps \in Nat
  /\ 4 <= Width /\ Width <= 4 * 2^NewtonSteps

Word  == 2^Width
Words == 0 .. Word - 1

Checked(x) == {y \in {x} : y < Word}          \* checked_add, narrow
IsPowerOfTwo(x) == \E s \in 0 .. Width - 1 : x = 2^s
TrailingZeros(x) == CHOOSE s \in 0 .. Width - 1 : x % 2^s = 0 /\ x % 2^(s + 1) # 0

-----------------------------------------------------------------------------
\* `3 * d ^ 2`: correct modulo 2^4 for an odd d.
Seed(d) == LET x == (3 * d) % Word IN IF (x \div 2) % 2 = 0 THEN x + 2 ELSE x - 2

\* One Newton step of the inverse, in wrapping arithmetic.
Newton(d, inv) == (inv * ((2 - ((d * inv) % Word)) % Word)) % Word

\* Mutant: the first Newton step is missing.
ModInv_StepShort(d) ==
  LET inv[k \in 0 .. NewtonSteps] == IF k <= 1 THEN Seed(d) ELSE Newton(d, inv[k - 1])
  IN  inv[NewtonSteps]

\* mod_inv_u256, for an odd d.
ModInv(d) ==
  LET inv[k \in 0 .. NewtonSteps] == IF k = 0 THEN Seed(d) ELSE Newton(d, inv[k - 1])
  IN  inv[NewtonSteps]

\* Both words of a product shifted right by s, the low word of the result.
ShiftRight(prod1, prod0, s) ==
  IF s = 0 THEN prod0 ELSE (prod0 \div 2^s) + ((prod1 * 2^(Width - s)) % Word)

\* mul_div_core: the quotient and whether there is a remainder.
MulDivCore(prod1, prod0, d) ==
  LET remainder == (prod1 * Word + prod0) % d
      low    == (prod0 - remainder) % Word                   \* overflowing_sub
      high   == prod1 - (IF prod0 < remainder THEN 1 ELSE 0)  \* borrow
      shift  == TrailingZeros(d)
  IN  IF prod1 >= d THEN {}
      ELSE IF IsPowerOfTwo(d)
           THEN {[quotient |-> ShiftRight(prod1, prod0, shift), remains |-> prod0 % d # 0]}
           ELSE {[quotient |-> (ShiftRight(high, low, shift) * ModInv(d \div 2^shift)) % Word,
                  remains  |-> remainder # 0]}

\* mul_div's paths: the quotient of the single word, or of both.
Divided(a, b, d) ==
  IF d = 0 THEN {}
  ELSE IF a * b < Word THEN {[quotient |-> (a * b) \div d, remains |-> (a * b) % d # 0]}
  ELSE IF d = 1 THEN {}
  ELSE MulDivCore((a * b) \div Word, (a * b) % Word, d)

MulDiv(a, b, d) == {q.quotient : q \in Divided(a, b, d)}

\* round_up_if_remainder.
RoundUpIfRemainder(value, remains) == Checked(IF remains THEN value + 1 ELSE value)

MulDivRoundingUp(a, b, d) ==
  UNION {RoundUpIfRemainder(q.quotient, q.remains) : q \in Divided(a, b, d)}

-----------------------------------------------------------------------------
\* The shared paths of mul_q96_div and mul_q96_div_rounding_up.
Q96Divided(amount, d) ==
  LET shift == TrailingZeros(d)
      exact(x) == {[quotient |-> v, remains |-> FALSE] : v \in Checked(x)}
  IN  IF d = 0 THEN {}
      ELSE IF amount = 0 THEN exact(0)
      ELSE IF IsPowerOfTwo(d) THEN
             IF shift <= QBits THEN exact(amount * 2^(QBits - shift))
             ELSE {[quotient |-> amount \div 2^(shift - QBits),
                    remains  |-> amount % 2^(shift - QBits) # 0]}
      ELSE IF amount > (Word - 1) \div 2^QBits /\ amount \div 2^(Width - QBits) >= d THEN {}
      ELSE {[quotient |-> (amount * 2^QBits) \div d, remains |-> (amount * 2^QBits) % d # 0]}

MulQ96Div(amount, d) == {q.quotient : q \in Q96Divided(amount, d)}

MulQ96DivRoundingUp(amount, d) ==
  UNION {RoundUpIfRemainder(q.quotient, q.remains) : q \in Q96Divided(amount, d)}

-----------------------------------------------------------------------------
\* What they stand for.
Floor(n, d)   == IF d = 0 THEN {} ELSE Checked(n \div d)
Ceiling(n, d) == IF d = 0 THEN {} ELSE Checked((n + d - 1) \div d)

=============================================================================
