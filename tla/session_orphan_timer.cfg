SPECIFICATION Spec
CONSTANTS
  Players = {p1, p2}
  p1 = p1
  p2 = p2
  TotalRounds = 1
  ChanCap = 2
  MaxAnswers = 0
  MaxConnEvents = 3
  MayShutDown = FALSE
INVARIANT ReconnectCancelsGrace
CHECK_DEADLOCK FALSE
