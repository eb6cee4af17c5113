\* Three clubs, double round robin, five match sheets.
SPECIFICATION Spec
CONSTANTS
  Arsenal = Arsenal
  Chelsea = Chelsea
  Everton = Everton
  Fulham  = Fulham
  Teams    <- ThreeClubs
  Calendar <- Alternating
  Sheets   <- ReportSheets
  MaxGoals = 4
INVARIANTS
  WinOddsRowsAligned
\* A season ends.
CHECK_DEADLOCK FALSE
