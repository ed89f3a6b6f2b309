SPECIFICATION CsvFairSpec
CONSTANTS
  other = other
  None = None
  Mine = mine
  Config = {mine, other}
  MapSize = 3
  MapEvent = {0, 1, 2}
  MaxPerPass = 2
  Slot = {0, 1, 2, 3}
  Radix = 2
  Foreign = {0, 3}
  StorageSize = 6
  CaptureCfg <- MCCaptureCfg
  Cost <- MCCost
  Overhead <- MCOverhead
  MaxUpsets = 3
INVARIANTS TypeOK ReadyRowsExact CaptureInv TableIsExact OnlyTransportFails
PROPERTIES StorageRespected DeliversRows EveryCaptureEnds
