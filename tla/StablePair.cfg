SPECIFICATION Spec
CONSTANTS
  Pips = 20
  Q48 = 16
  Q24 = 16
  MaxMultiplier = 4
  K = 13
  OptimalFee = 2
  Multiplier = 3
  Reference = 16
  Prices = {2, 10, 13, 14, 15, 16, 17, 18, 20}
  Blocks = {0, 1, 2, 4, 6, 7}
INVARIANTS
  OneFeePerBlock
  FeesBelowAll
  DecayStaysAboveTarget
PROPERTIES
  FeeDecays
