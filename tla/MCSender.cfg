SPECIFICATION Spec
CONSTANTS
  NoAckno = NoAckno
  Mod = 16
  U64 = 256
  MaxPayload = 2
  InitialRTO = 2
  ISN = 14
  Capacity = 3
  ToWrite = 4
  Windows = {0, 1, 2, 4}
  AckBeforeSyn = FALSE
  MaxRetx = 2
INVARIANTS TypeOK OutstandingTiles MessagesInPlace TimerCoversOutstanding BackoffMatchesCount NothingHeldBack
PROPERTIES NewDataFitsWindow
