SPECIFICATION Spec
CONSTANTS
  MinTick <- MinusOne
  MaxTick = 1
  Spacing = 1
  WordTicks = 2
  SqrtPriceAt <- TwoPricesPerTick
  U128Max = 7
  I128Max = 3
  FeeMod = 7
  Q128 = 2
  Owners = {a}
  Ranges <- NestedRanges
  Deltas <- UnitDeltas
  StepFees <- LargeFees
  Limits <- ExtremeLimits
CONSTRAINT Untainted
CHECK_DEADLOCK FALSE
INVARIANTS
  FeesCovered
PROPERTIES
  GrowthGoesToActiveRanges
