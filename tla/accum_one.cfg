SPECIFICATION Spec
CONSTANTS
  t1 = t1
  u1 = u1
  t2 = t2
  t3 = t3
  client1 = client1
  client2 = client2
  None = None
  MapSize = 3
  MapEvent = {0, 1, 2}
  EventsPerRun = 2
  Slot = {0, 1, 2, 3}
  Radix = 2
  MaxOps = 3
  BufferSize = 6
  Tag = {t1, u1, t2, t3}
  Text <- MCText
  Client = {client1, client2}
  Model <- MCModel
  Cost <- MCCost
  Overhead <- MCOverhead
  MaxTally = 3
  MaxLapses = 0
  MaxMatrices = 1
  Config = {0}
  Foreign = {0}
  BackendFails = FALSE
  Job <- MCJobOrRefused
INVARIANTS TypeOK CompleteMatrixExact TagsFindTheirRows
PROPERTIES BuffersLeftAlone
