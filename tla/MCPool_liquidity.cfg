SPECIFICATION Spec
CONSTANTS
  MinTick <- MinusSix
  MaxTick = 5
  Spacing = 2
  WordTicks = 2
  SqrtPriceAt <- OnePricePerTick
  U128Max = 23
  I128Max = 11
  FeeMod = 1
  Q128 = 2
  Owners = {a}
  Ranges <- WideRanges
  Deltas <- MixedDeltas
  StepFees <- NoFees
  Limits <- TickLimits
CONSTRAINT Untainted
CHECK_DEADLOCK FALSE
INVARIANTS
  ActiveLiquidityIsNet
  DepthWithinU128
  SnapshotLoads
