CONSTANTS
  s1 = s1
  s2 = s2
  p1 = p1
  p2 = p2
  j1 = j1
  Slots = {s1, s2}
  Peers = {p1, p2}
  Jobs = {j1}
  MaxConns = 2
  NoPeer = NoPeer
SPECIFICATION FairSpec
CHECK_DEADLOCK FALSE
INVARIANT TypeOK
INVARIANT SocketsAreReserved
INVARIANT StopIsComplete
PROPERTY SlotsMove
