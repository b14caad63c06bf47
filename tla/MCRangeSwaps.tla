---------------------------- MODULE MCRangeSwaps ----------------------------
(* Values of RangeSwaps' constants for TLC. *)
EXTENDS RangeSwaps

SmallAmounts == (-12 .. 12) \ {0}

\* No fee, LP fee only, both, protocol fee only, and 100%.
AllFees == {<<0, 0>>, <<0, 3>>, <<1, 3>>, <<2, 0>>, <<1, 10>>}

\* Bound: pools that hold up to Slack units more than they owe.  Rounding only
\* ever adds to the surplus, and more of it makes nothing possible.
Slack == 2
SmallSurplus == \A i \in {0, 1} : held[i] - Principal(sqrtPrice, FALSE)[i] <= Slack
=============================================================================
