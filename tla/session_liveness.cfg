SPECIFICATION FairSpec
CONSTANTS
  Players = {p1, p2}
  p1 = p1
  p2 = p2
  TotalRounds = 2
  ChanCap = 1
  MaxAnswers = 1
  MaxConnEvents = 1
  MayShutDown = TRUE
PROPERTY SessionEnds
PROPERTY AnswerCallsReturn
CHECK_DEADLOCK FALSE
