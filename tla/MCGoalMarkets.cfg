\* Five clubs, double round robin, every scoreline up to 3-3.
SPECIFICATION Spec
CONSTANTS
  Teams    <- Clubs
  Calendar <- DoubleRoundRobin
  Sheets   <- ScoreSheets
  MaxGoals = 3
INVARIANTS
  MarketsWheneverSpread
CONSTRAINTS
  FifteenThenAny
\* A season ends.
CHECK_DEADLOCK FALSE
