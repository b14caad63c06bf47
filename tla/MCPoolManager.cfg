SPECIFICATION Spec
CONSTANTS
  MaxFee = 10
  DynamicFee = 11
  LpFees = {3, 10, 11}
  ProtocolFees = {0, 2}
  Amounts <- SmallAmounts
  HookDeltas <- FourDeltas
  PoolOutputs = {0, 2}
  ModifyDeltas <- TwoModifyDeltas
  I128Max = 4
INVARIANTS
  SpecifiedAmountKept
  ChargesFeeInForce
  CacheIsFresh
