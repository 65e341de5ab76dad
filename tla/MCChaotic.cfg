SPECIFICATION Spec
CONSTANTS
  Client = Client
  Server = Server
  NoAckno = NoAckno
  Mod = 16
  U64 = 256
  MaxPayload = 1
  MaxWindow = 4
  InitialRTO = 1
  LingerTime = 1
  ISN <- MCISN
  ToWrite <- MCToWrite
  SendCapacity <- MCCapacity
  RecvCapacity <- MCCapacity
  ClientBytes = 2
  ServerBytes = 0
  Capacity = 2
  Chaotic = TRUE
  MaxLosses = 0
  MaxInFlight <- MCInFlight
  ToServer = 2
  ToClient = 1
  MaxRetx <- MCRetx
  ClientRetx = 1
  ServerRetx = 0
CHECK_DEADLOCK FALSE
INVARIANTS AcknowledgedHasArrived CleanExit NoNeedToLinger
PROPERTIES ImplementsReliableStreams
