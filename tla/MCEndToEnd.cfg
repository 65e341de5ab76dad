SPECIFICATION Spec
CONSTANTS
  a = a
  b = b
  RetryTime = 1
  EntryTime = 2
  ClockSize = 3
  Broadcast = 15
  NoEthernet = 0
  NoIP = 0
  AddressBits = 4
  Direct = direct
  NoRule = norule
  Host = {a, b}
  HostIP <- MCHostIP
  HostSideIP <- MCHostSideIP
  InternetIP <- MCInternetIP
  Table <- MCTable
  Loads <- MCLoads
  Step = {1}
  MaxLosses = 1
  MaxIdle = 1
CHECK_DEADLOCK FALSE
INVARIANTS OnePlace OnCourse
PROPERTIES EventuallyGone
