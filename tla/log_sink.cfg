SPECIFICATION Spec
CONSTANTS
  x = x
  y = y
  NL = NL
  NUL = NUL
  Byte = {x, y, NL, NUL}
  Capacity = 3
  Transports = {log, csv}
  Message <- MCMessage
  MaxOwed = 7
INVARIANTS TerminatorFits BytesKept NoLineWaits
