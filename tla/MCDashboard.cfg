\* Two season files, one touch.
SPECIFICATION Spec
CONSTANTS
  Downloads <- MCDownloads
  Files     <- MCFiles
  EmptyFile = EmptyFile
  MenuTeams <- MCMenuTeams
  MaxTouches = 1
INVARIANTS
  OlderSeasonsAreWhole
  NewestSeasonByDefault
\* The user may leave.
CHECK_DEADLOCK FALSE
