SPECIFICATION Spec
CONSTANTS
  None = None
  Mine = mine
  Config = {mine, other}
  MapSize = 5
  MapEvent = {0, 1, 2, 3, 4}
  Batch = 2
  Slot = {0, 1, 2, 3}
  Radix = 2
  Foreign = {0, 3}
  Work <- MCWork
  Leftover <- MCLeftover
INVARIANTS EventsOnceInOrder AloneIsExact
