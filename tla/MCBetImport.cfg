\* Three season files, five rows.
SPECIFICATION Spec
CONSTANTS
  Downloads <- MCDownloads
  EmptyFile = EmptyFile
INVARIANTS
  TypeOK
  ImportIsFresh
  OneSeasonIsCutAtMost
  ContentIsPromised
CHECK_DEADLOCK FALSE
