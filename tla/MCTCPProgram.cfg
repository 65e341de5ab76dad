SPECIFICATION FairSpec
CONSTANTS
  NoAckno = NoAckno
  Mod = 16
  U64 = 256
  MaxPayload = 1
  MaxWindow = 4
  InitialRTO = 1
  LingerTime = 2
  SockBuf = 1
  CopyCapacity = 2
  ISN <- MCISN
  SendCapacity <- MCSendCapacity
  RecvCapacity <- MCRecvCapacity
  ToWrite <- MCToWrite
  LocalConnecting = 1
  RemoteConnecting = 1
  LocalListening = 0
  RemoteListening = 2
  Mishaps <- MCMishaps
  Connecting = {"loss", "reset"}
  Listening = {"throw", "break", "stray"}
  MaxRetx = 2
INVARIANTS NeverDies EndsComplete
PROPERTIES ProgramImplementsReliableStreams ProgramEnds
CHECK_DEADLOCK FALSE
