SPECIFICATION Spec
CONSTANTS
  Mod = 8
  U64 = 64
  MaxCheckpoint = 40
INVARIANTS UnwrapIsNearest RoundTrip
CHECK_DEADLOCK FALSE
