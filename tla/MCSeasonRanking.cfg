\* Four clubs, single round robin, four match sheets.
SPECIFICATION Spec
CONSTANTS
  Arsenal = Arsenal
  Chelsea = Chelsea
  Everton = Everton
  Fulham  = Fulham
  Teams    <- FourClubs
  Calendar <- SingleRounds
  Sheets   <- RankingSheets
  MaxGoals = 2
INVARIANTS
  RankFollowsCriteria
PROPERTIES
  BystandersKeepOrder
\* A season ends.
CHECK_DEADLOCK FALSE
