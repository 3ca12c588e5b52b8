SPECIFICATION TroubledSpec
CONSTANTS
  Players = {p1, p2}
  p1 = p1
  p2 = p2
  Nodes = {n1, n2}
  n1 = n1
  n2 = n2
  NoPlayer = NoPlayer
  Expiring = {"mm:lock"}
  MaxJoins = 2
  MaxLeaves = 1
  MaxLapses = 1
  MaxFaults = 1
  MaxCrashes = 1
INVARIANT TypeOK
INVARIANT PlayerGamesValid
PROPERTY QueueDrains
