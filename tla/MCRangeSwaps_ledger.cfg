SPECIFICATION Spec
CONSTANTS
  MaxFee = 10
  DynamicFee = 11
  Q96 = 4
  U256Max = 50
  MinPrice = 2
  MaxPrice = 11
  Liquidities = {5, 8, 12}
  FeeConfigs <- AllFees
  Amounts <- SmallAmounts
  Limits = {2, 5, 11}
CONSTRAINT SmallSurplus
INVARIANTS
  Solvent
  AmountNotExceeded
  StepsSucceed
PROPERTIES
  StepHonoursContract
  FeeIsRateOfPayment
