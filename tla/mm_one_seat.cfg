SPECIFICATION Spec
CONSTANTS
  Players = {p1, p2}
  p1 = p1
  p2 = p2
  Nodes = {n1}
  n1 = n1
  NoPlayer = NoPlayer
  Expiring = {}
  MaxJoins = 3
  MaxLeaves = 0
  MaxLapses = 1
  MaxFaults = 0
  MaxCrashes = 0
INVARIANT OneSeatEach
