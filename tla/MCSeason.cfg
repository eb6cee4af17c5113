\* Three clubs, double round robin, one match sheet per result.
SPECIFICATION Spec
CONSTANTS
  Arsenal = Arsenal
  Chelsea = Chelsea
  Everton = Everton
  Fulham  = Fulham
  Teams    <- ThreeClubs
  Calendar <- Alternating
  Sheets   <- OnePerResult
  MaxGoals = 2
INVARIANTS
  TypeOK
  TableDescends
PROPERTIES
  ImplementsStandings
\* A season ends.
CHECK_DEADLOCK FALSE
