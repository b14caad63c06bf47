------------------------------ MODULE TickMath ------------------------------
(***************************************************************************)
(* Ticks to square-root prices and back (math/tick.rs).  The algorithm is  *)
(* the source's; the fixed-point formats are constants: RatioBits stands   *)
(* for 128, PriceShift for 32 (a price has RatioBits - PriceShift, 96,     *)
(* fractional bits), LogBits for 64 and LogSteps for 14, with the table,   *)
(* the change-of-base factor and the offsets to match.                     *)
(***************************************************************************)
EXTENDS Integers, Sequences

CONSTANTS
  RatioBits, PriceShift, LogBits, LogSteps,
  TickRatios,             \* entry k: the inverse square root of base^(2^(k-1))
  LogMul,                 \* turns a logarithm into a tick estimate
  LowOffset, HighOffset,  \* bracket the error of the estimate
  TickBound               \* TickIndex::MAX

ASSUME TickMathAssumption ==
  /\ RatioBits \in Nat /\ RatioBits % 2 = 0 /\ PriceShift \in 1 .. RatioBits
  /\ LogBits \in Nat /\ LogSteps \in 0 .. LogBits
  /\ TickRatios \in Seq(1 .. 2^RatioBits - 1)
  /\ TickBound \in 1 .. 2^Len(TickRatios) - 1

One   == 2^RatioBits
Ticks == -TickBound .. TickBound

\* widening_mul_u128: both words of the product from half words.
WideningMul(a, b) ==
  LET half == 2^(RatioBits \div 2)
      ll == (a % half) * (b % half)      lh == (a % half) * (b \div half)
      hl == (a \div half) * (b % half)   hh == (a \div half) * (b \div half)
      mid == (ll \div half) + (lh % half) + (hl % half)
  IN  [high |-> hh + (lh \div half) + (hl \div half) + (mid \div half),
       low  |-> (mid % half) * half + (ll % half)]

Abs(tick) == IF tick < 0 THEN -tick ELSE tick

\* Mutant: the table is entered one bit late.
Ratio_FirstSkipped(n) ==
  LET product[k \in 0 .. Len(TickRatios)] ==
        IF k <= 1 THEN One
        ELSE IF (n \div 2^(k - 1)) % 2 = 0 THEN product[k - 1]
        ELSE WideningMul(product[k - 1], TickRatios[k]).high
  IN  product[Len(TickRatios)]

\* The table's entries for the set bits of n, multiplied from the lowest up.
Ratio(n) ==
  LET product[k \in 0 .. Len(TickRatios)] ==
        IF k = 0 THEN One
        ELSE IF (n \div 2^(k - 1)) % 2 = 0 THEN product[k - 1]
        ELSE IF product[k - 1] = One THEN TickRatios[k]
        ELSE WideningMul(product[k - 1], TickRatios[k]).high
  IN  product[Len(TickRatios)]

\* get_sqrt_price_at_tick: rounded up on both sides of tick 0.
SqrtPriceAtTick(tick) ==
  LET ratio == Ratio(Abs(tick))
  IN  IF tick = 0 THEN 2^(RatioBits - PriceShift)
      ELSE IF tick > 0 THEN ((One * One - 1) \div ratio + 2^PriceShift - 1) \div 2^PriceShift
      ELSE ratio \div 2^PriceShift + (IF ratio % 2^PriceShift # 0 THEN 1 ELSE 0)

-----------------------------------------------------------------------------
MostSignificantBit(x) == CHOOSE b \in 0 .. 2 * RatioBits : 2^b <= x /\ x < 2^(b + 1)

\* The refinement loop: LogSteps fractional bits by squaring.
Log2(ratio) ==
  LET msb == MostSignificantBit(ratio)
      step[k \in 0 .. LogSteps] ==
        IF k = 0
        THEN [log |-> (msb - RatioBits) * 2^LogBits,
              r   |-> IF msb >= RatioBits THEN ratio \div 2^(msb - (RatioBits - 1))
                      ELSE ratio * 2^(RatioBits - 1 - msb)]
        ELSE LET square == WideningMul(step[k - 1].r, step[k - 1].r)
                 f == square.high \div 2^(RatioBits - 1)
             IN  [log |-> step[k - 1].log + f * 2^(LogBits - k),
                  r   |-> IF f = 1 THEN square.high
                          ELSE 2 * square.high + square.low \div 2^(RatioBits - 1)]
  IN  step[LogSteps].log

\* smul_i128_u128: the magnitudes' product, negated across both words.
SignedMul(a, b) ==
  LET product == Abs(a) * b
      unit == 2^(2 * LogBits)
      high == product \div unit
      low  == product % unit
  IN  IF a >= 0 THEN [high |-> high, low |-> low]
      ELSE IF low = 0 THEN [high |-> -high, low |-> 0]
      ELSE [high |-> -high - 1, low |-> unit - low]

Clamp(tick) == IF tick < -TickBound THEN -TickBound ELSE IF tick > TickBound THEN TickBound ELSE tick

TickLow(e)  == Clamp(e.high - (IF e.low < LowOffset THEN 1 ELSE 0))
TickHigh(e) == Clamp(e.high + (IF e.low + HighOffset >= 2^(2 * LogBits) THEN 1 ELSE 0))

\* Mutant: the final comparison is strict.
TickOf_Strict(low, high, price) ==
  IF low = high THEN low ELSE IF SqrtPriceAtTick(high) < price THEN high ELSE low

\* The final choice between the two candidates.
TickOf(low, high, price) ==
  IF low = high THEN low ELSE IF SqrtPriceAtTick(high) <= price THEN high ELSE low

\* get_tick_at_sqrt_price.
TickAtSqrtPrice(price) ==
  LET estimate == SignedMul(Log2(price * 2^PriceShift), LogMul)
  IN  TickOf(TickLow(estimate), TickHigh(estimate), price)

=============================================================================
