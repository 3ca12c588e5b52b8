SPECIFICATION Spec
CONSTANTS
  Players = {p1, p2}
  p1 = p1
  p2 = p2
  TotalRounds = 2
  ChanCap = 1
  MaxAnswers = 0
  MaxConnEvents = 1
  MayShutDown = FALSE
PROPERTY AbandonedIsFinal
CHECK_DEADLOCK FALSE
