SPECIFICATION MCSpec
CONSTANTS
  MinTick <- Lowest
  MaxTick = 887272
  SlotBits = 5
  Visited <- Windows
  Spacings <- Chosen
  Width = 6
  QBits = 2
  NewtonSteps = 1
  LimbBits = 3
  Small = 4
  RatioBits = 14
  PriceShift = 4
  LogBits = 8
  LogSteps = 4
  TickRatios <- Table
  LogMul = 3724
  LowOffset = 500
  HighOffset = 54500
  TickBound = 63
CHECK_DEADLOCK FALSE
INVARIANTS
  KeysDecode FullMathExact SmallRatioExact TickIsFloor PricesIncrease
PROPERTIES
  KeysFollowTicks
