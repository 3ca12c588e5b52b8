SPECIFICATION Spec
CONSTANTS
  Players = {p1}
  p1 = p1
  NoPlayer = NoPlayer
  n1 = n1
  Nodes = {n1}
  Home = n1
  HubCap = 1
  SendCap = 2
  MaxConns = 2
  MaxMessages = 2
INVARIANT NobodyPanics
CHECK_DEADLOCK FALSE
