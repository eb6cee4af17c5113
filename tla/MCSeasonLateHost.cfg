\* As MCSeason.cfg, but one club does not host until the others are done.
SPECIFICATION Spec
CONSTANTS
  Arsenal = Arsenal
  Chelsea = Chelsea
  Everton = Everton
  Fulham  = Fulham
  Teams    <- ThreeClubs
  Calendar <- LateHost
  Sheets   <- MCSheets
  MaxGoals = 2
INVARIANTS
  AveragesArePooled
  ShotsPerGoalNeedGoals
  MatrixTellsTheTable
  MatrixOnlyWhenAllMet
  HeadToHeadAddsUp
\* A season ends.
CHECK_DEADLOCK FALSE
