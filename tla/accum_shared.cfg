SPECIFICATION FairSpec
CONSTANTS
  t1 = t1
  u1 = u1
  t2 = t2
  t3 = t3
  client1 = client1
  client2 = client2
  None = None
  MapSize = 3
  MapEvent = {0, 1, 2}
  EventsPerRun = 2
  Slot = {0, 1, 2, 3}
  Radix = 2
  MaxOps = 3
  BufferSize = 6
  Tag = {t1, u1, t2, t3}
  Text <- MCText
  Client = {client1, client2}
  Model <- MCShortModel
  Cost <- MCCost
  Overhead <- MCOverhead
  MaxTally = 3
  MaxLapses = 1
  MaxMatrices = 2
  Config = {0, 1}
  Foreign = {3}
  BackendFails = TRUE
  Job <- MCTagged
INVARIANTS OwnColumnsExact
PROPERTIES BuffersLeftAlone EveryLoopEnds
