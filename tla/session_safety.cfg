SPECIFICATION Spec
CONSTANTS
  Players = {p1, p2}
  p1 = p1
  p2 = p2
  TotalRounds = 2
  ChanCap = 1
  MaxAnswers = 3
  MaxConnEvents = 3
  MayShutDown = TRUE
SYMMETRY PlayerSymmetry
CONSTRAINT NotEverythingAtOnce
INVARIANT RoundsInOrder
INVARIANT OverWhenAllPlayed
INVARIANT ScoreMatchesRounds
INVARIANT AckHonest
INVARIANT OutcomeHonest
INVARIANT WinnerHonest
INVARIANT PlayersUpToDate
INVARIANT AbsenceIsTimed
PROPERTY GameOverIsFinal
PROPERTY ImplementsLedger
CHECK_DEADLOCK FALSE
