SPECIFICATION Spec
CONSTANTS
  MinTick <- LowestTick
  MaxTick = 7
  TickSpacing = 2
  WordBits = 2
  FieldBits = 4
  PriceBits = 5
  InfoBits = 5
  Batch = 2
  MaxFee = 10
  MaxProtocolFee = 2
  MaxFaults = 1
  Histories <- NestedHistories
  Options <- SomeOptions
INVARIANT
  SwapFeesMatch
CHECK_DEADLOCK FALSE
