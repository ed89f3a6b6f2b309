SPECIFICATION SlipFairSpec
CONSTANTS
  other = other
  None = None
  Mine = mine
  Config = {mine, other}
  MapSize = 3
  MapEvent = {0, 1, 2}
  MaxPerPass = 2
  Slot = {0, 1, 2, 3}
  Radix = 2
  Foreign = {0, 3}
  StorageSize = 9
  CaptureCfg <- MCShapes
  Cost <- MCCost
  Overhead <- MCOverhead
  MaxUpsets = 1
  MaxSlips = 2
INVARIANTS TrustedColumnsExact
PROPERTIES StorageRespected SlipsEnd
