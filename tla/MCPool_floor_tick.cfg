SPECIFICATION Spec
CONSTANTS
  MinTick <- MinusOne
  MaxTick = 1
  Spacing = 1
  WordTicks = 2
  SqrtPriceAt <- TwoPricesPerTick
  U128Max = 7
  I128Max = 3
  FeeMod = 1
  Q128 = 2
  Owners = {a}
  Ranges <- AdjacentRanges
  Deltas <- UnitDeltas
  StepFees <- NoFees
  Limits <- ExtremeLimits
INVARIANTS
  TickIsFloorTick
