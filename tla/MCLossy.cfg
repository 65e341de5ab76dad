SPECIFICATION FairSpec
CONSTANTS
  Client = Client
  Server = Server
  NoAckno = NoAckno
  Mod = 16
  U64 = 256
  MaxPayload = 1
  MaxWindow = 4
  InitialRTO = 1
  LingerTime = 10
  ISN <- MCISN
  ToWrite <- MCToWrite
  SendCapacity <- MCCapacity
  RecvCapacity <- MCCapacity
  ClientBytes = 2
  ServerBytes = 0
  Capacity = 1
  Chaotic = FALSE
  MaxLosses = 2
  MaxInFlight <- MCInFlight
  ToServer = 6
  ToClient = 6
  MaxRetx <- MCRetx
  ClientRetx = 5
  ServerRetx = 5
PROPERTIES AllDelivered BothStop
CHECK_DEADLOCK FALSE
