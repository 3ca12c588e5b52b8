SPECIFICATION MCSpec
CONSTANTS
  Players = {p1}
  p1 = p1
  NoPlayer = NoPlayer
  n1 = n1
  n2 = n2
  Nodes = {n1, n2}
  Home = n1
  HubCap = 1
  SendCap = 1
  MaxConns = 2
  MaxMessages = 1
INVARIANT MappedIsOpen
INVARIANT OpenIsMapped
INVARIANT AtMostOnce
INVARIANT ReconnectStands
PROPERTY ClosedGoesAway
PROPERTY LossIsNoticed
PROPERTY GoneIsForgotten
CHECK_DEADLOCK FALSE
