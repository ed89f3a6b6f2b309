SPECIFICATION Spec
CONSTANTS
  t1 = t1
  u1 = u1
  t2 = t2
  t3 = t3
  client1 = client1
  client2 = client2
  None = None
  MapSize = 4
  MapEvent = {0, 1, 2, 3}
  EventsPerRun = 2
  Slot = {0, 1, 2, 3}
  Radix = 2
  MaxOps = 3
  BufferSize = 6
  Tag = {t1, u1, t2, t3}
  Text <- MCText
  Client = {client1, client2}
  Model <- MCShortModel
  Cost <- MCCost
  Overhead <- MCOverhead
  MaxTally = 3
  MaxLapses = 0
  MaxMatrices = 2
  Config = {0, 1}
  Foreign = {0, 3}
  BackendFails = FALSE
  Job <- MCTwoPasses
INVARIANTS CompleteMatrixExact
