SPECIFICATION Spec
CONSTANTS
  Client = Client
  Server = Server
  NoAckno = NoAckno
  Mod = 16
  U64 = 256
  MaxPayload = 1
  MaxWindow = 4
  InitialRTO = 1
  LingerTime = 10
  ISN <- MCISN
  ToWrite <- MCToWrite
  SendCapacity <- MCCapacity
  RecvCapacity <- MCCapacity
  ClientBytes = 3
  ServerBytes = 0
  Capacity = 2
  Chaotic = FALSE
  MaxLosses = 2
  MaxInFlight <- MCInFlight
  ToServer = 4
  ToClient = 4
  MaxRetx <- MCRetx
  ClientRetx = 5
  ServerRetx = 5
INVARIANT RespectsOffer
CHECK_DEADLOCK FALSE
