SPECIFICATION BusySpec
CONSTANTS
  Players = {p1, p2, p3}
  p1 = p1
  p2 = p2
  p3 = p3
  Nodes = {n1, n2}
  n1 = n1
  n2 = n2
  NoPlayer = NoPlayer
  Expiring = {"mm:queue:", "mm:lock"}
  MaxJoins = 4
  MaxLeaves = 1
  MaxLapses = 1
  MaxFaults = 1
  MaxCrashes = 1
SYMMETRY PlayersAndNodes
INVARIANT QueuedOnce
INVARIANT LockedInv
INVARIANT NobodyForgotten
INVARIANT RefusedIsQueued
