--------------------------- MODULE MCPoolManager ---------------------------
(* Values of PoolManager's constants for TLC. *)
EXTENDS PoolManager

SmallAmounts == {-2, -1, 0, 1, 2}
FourDeltas == {-3, -1, 0, 2}
TwoModifyDeltas == {-3, 1}
=============================================================================
