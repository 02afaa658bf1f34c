SPECIFICATION MovieSpec
CONSTANTS
  Names <- MCNames
  MaxFiles = 2
  MaxPlays = 5
INVARIANTS
  SplitRestoresFiles
  PlaysListedParts
CHECK_DEADLOCK FALSE
