SPECIFICATION Spec
CONSTANTS
  e1 = e1
  e2 = e2
  x1 = x1
  basic = basic
  None = None
  Chain = Chain
  Unused = Unused
  Config = {c1}
  MapEvent = {e1, e2}
  UnlistedEvent = {x1}
  Entry0 = e1
  Preset <- MCPreset
  MaxCounters = 4
  Radix = 2
  EditSlot = {2}
  MaxOccur = 1
INVARIANTS ReportIsExact ReadsProgrammedCounts
