\* Four contents of the file, three touches.
SPECIFICATION Spec
CONSTANTS
  Files     <- MCFiles
  EmptyFile = EmptyFile
  MenuTeams <- MCMenuTeams
  MaxTouches = 3
INVARIANTS
  FavouriteTeamsShown
\* The user may leave.
CHECK_DEADLOCK FALSE
