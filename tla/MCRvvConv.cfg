SPECIFICATION ConvSpec
CONSTANTS
  Shape <- AllShapes
  Op = {1, 2}
  MaxCalls = 3
CHECK_DEADLOCK FALSE
INVARIANTS
  TilesInside
  ConvExact
