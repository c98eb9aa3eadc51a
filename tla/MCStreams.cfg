SPECIFICATION StreamSpec
CONSTANTS
  Value <- mc_Value
  Zero = 0
  DataLength = 3
  FsmnLayer <- mc_FsmnLayer
  IntMax = 7
  MaxFrames = 20
INVARIANTS
  TypeOK
  WindowIsRecent
  AccessesSafe
  ResultByDistance
  FrozenAfterOverflow
CHECK_DEADLOCK FALSE
