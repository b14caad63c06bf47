------------------------------ MODULE Numerics ------------------------------
(***************************************************************************)
(* What the wide arithmetic and the tick conversion promise, over every    *)
(* operand of a small width.  Three machines, of which an initial state    *)
(* picks one, walk up the words, the four-limb amounts and the prices; the *)
(* other operands are quantified over in each state.                       *)
(***************************************************************************)
EXTENDS Integers, Sequences, FullMath, SmallRatio, TickMath

VARIABLES walk, number

LowestPrice  == SqrtPriceAtTick(-TickBound)
HighestPrice == SqrtPriceAtTick(TickBound)

\* The lowest and the highest number of a walk.
From(w) == IF w = "price" THEN LowestPrice ELSE 0
To(w) == IF w = "word" THEN Word - 1
         ELSE IF w = "amount" THEN Wide - 1 ELSE HighestPrice

WalkInit == walk \in {"word", "amount", "price"} /\ number = From(walk)

WalkStep == number < To(walk) /\ number' = number + 1 /\ UNCHANGED walk

WalkSpec == WalkInit /\ [][WalkStep]_<<walk, number>>

-----------------------------------------------------------------------------
\* Both quotients of two words by a third, and both Q96 ratios, are the floor
\* and the ceiling of the unbounded quotient, or an error where that does not
\* fit a word: on every path, through the double word and the modular inverse.
FullMathExact ==
  walk = "word" =>
    /\ \A b, d \in Words :
         /\ MulDiv(number, b, d) = Floor(number * b, d)
         /\ MulDivRoundingUp(number, b, d) = Ceiling(number * b, d)
    /\ \A d \in Words :
         /\ MulQ96Div(number, d) = Floor(number * 2^QBits, d)
         /\ MulQ96DivRoundingUp(number, d) = Ceiling(number * 2^QBits, d)

\* Limb-by-limb multiplication and division lose no carry and no remainder,
\* whether the amount fills one, two or four limbs.
SmallRatioExact ==
  walk = "amount" =>
    \A n \in 0 .. Small - 1, d \in 0 .. Small - 1 :
      LET fits(q) == {v \in {q} : v < Wide}
      IN  /\ MulDivU32Floor(number, n, d) = (IF d = 0 THEN {} ELSE fits((number * n) \div d))
          /\ MulDivU32Ceil(number, n, d)
               = (IF d = 0 THEN {} ELSE fits((number * n + d - 1) \div d))

\* The tick of a price is the greatest whose price is not above it, on both
\* sides of one and at both ends of the range: rounding in the logarithm never
\* leaves it a tick off.
TickIsFloor ==
  walk = "price" =>
    LET t == TickAtSqrtPrice(number)
    IN  /\ SqrtPriceAtTick(t) <= number
        /\ t < TickBound => number < SqrtPriceAtTick(t + 1)

\* Products of rounded table entries keep the order of the ticks: no two ticks
\* share a price, and tick zero is the price one.
PricesIncrease ==
  walk = "price" /\ number = LowestPrice =>
    /\ \A t \in -TickBound .. TickBound - 1 : SqrtPriceAtTick(t) < SqrtPriceAtTick(t + 1)
    /\ SqrtPriceAtTick(0) = 2^(RatioBits - PriceShift)
=============================================================================
