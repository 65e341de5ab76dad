SPECIFICATION MCSpec
CONSTANTS
  Capacity = 3
  Byte = {a, b}
  Nul = a
  Data <- MCData
  MaxPushed = 7
INVARIANTS TypeOK CursorsFollowCounts PeekShowsOldest
PROPERTIES ImplementsStream
