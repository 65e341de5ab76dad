SPECIFICATION Spec
CONSTANTS
  U64 = 64
  Byte <- MCByte
  Worlds = {"honest", "any"}
  Capacity <- MCCapacity
  Segments <- MCSegments
  StreamLength = 9
  HonestCapacity = 5
  AnyLength = 3
  AnyCapacity = 3
INVARIANTS TypeOK InStepWithOutput PendingWithinWindow NothingInvented NothingForgotten LoopsAgree ClosedExactlyAtEof
