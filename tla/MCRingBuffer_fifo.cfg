SPECIFICATION Spec
CONSTANTS
  Byte <- Bits
  Stale = stale
  Limit = 3
  MaxIO = 4
INVARIANT Consistent
PROPERTY IsFifo
