SPECIFICATION Spec
CONSTANTS
  RetryTime = 2
  EntryTime = 3
  ClockSize = 6
  Broadcast = broadcast
  NoEthernet = zeros
  NoIP = noip
  OwnIP = ownip
  OwnEthernet = own
  Hop = {h1, noip}
  Ethernet = {e1, e2}
  Id = {d1, d2}
  Datagram <- MCDatagram
  Step = {1, 3}
  MaxWaiting = 2
  MaxTime = 8
SYMMETRY Symmetry
CHECK_DEADLOCK FALSE
INVARIANTS TypeOK WaitingIsAsked
PROPERTIES RequestsApart ImplementsLink
