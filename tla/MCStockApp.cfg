\* Three databases, three days, four touches.
SPECIFICATION Spec
CONSTANTS
  Databases <- MCDatabases
  NULL = NULL
  LastDate = 3
  EarliestDate = 1
  Today = 2
  MaxTouches = 4
INVARIANTS
  TypeOK
  RestingPageAnswers
  ChartsShowRecognisedDays
PROPERTIES
  ComesToRest
\* The user may leave.
CHECK_DEADLOCK FALSE
