------------------------------- MODULE MCPool -------------------------------
(* Values of Pool's constants for TLC. *)
EXTENDS Pool

MinusOne == -1
MinusSix == -6

\* Two prices per tick: exactly at the tick, and strictly between two ticks.
TwoPricesPerTick == [t \in MinTick .. MaxTick |-> 2 * t]

\* With a spacing of more than one, a price per tick leaves prices between the aligned ticks.
OnePricePerTick == [t \in MinTick .. MaxTick |-> t]

\* Two ranges that share a boundary, and with them one that spans both.
AdjacentRanges == {<<-1, 0>>, <<0, 1>>}
NestedRanges == AdjacentRanges \cup {<<-1, 1>>}

\* For a spacing of two: ranges that overlap or adjoin, with and without a shared boundary,
\* and one that is not aligned.
WideRanges == {<<-6, 0>>, <<-4, 2>>, <<-2, 4>>, <<0, 4>>, <<-1, 2>>}

UnitDeltas == {-1, 0, 1}
MixedDeltas == {-2, -1, 0, 1, 2, 8}

NoFees == [i \in {0, 1} |-> {0}]
LargeFees == [i \in {0, 1} |-> IF i = 0 THEN {0, 2} ELSE {0}]

\* A swap can stop anywhere by using up its amount, so few limits suffice: the
\* two ends of the price range, and a price that is exactly a tick's.
ExtremeLimits == {SqrtPriceAt[MinTick], SqrtPriceAt[MaxTick]}
TickLimits == ExtremeLimits \cup {SqrtPriceAt[0]}

\* Bound: a pool that a failed call has left half updated is checked but not
\* used any further.
Untainted == ~tainted
=============================================================================
