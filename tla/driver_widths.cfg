SPECIFICATION Spec
CONSTANTS
  e1 = e1
  e2 = e2
  x1 = x1
  basic = basic
  None = None
  Chain = Chain
  Unused = Unused
  Config = {c1}
  MapEvent = {e1}
  UnlistedEvent = {}
  Entry0 = e1
  Preset <- NoPreset
  MaxCounters = 4
  Radix = 2
  EditSlot = {0, 1}
  MaxOccur = 4
INVARIANTS TypeOK ReportIsExact
PROPERTY DeltaIsLowerBound
