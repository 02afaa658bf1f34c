SPECIFICATION FairSpec
CONSTANTS
  NMedia = 3
  MaxKeys = 3
INVARIANTS
  PlaysWhatWindowSays
  MonitorSurvives
PROPERTIES
  LeftAtItsEnd
  EndMovesOn
  KeysReturn
CHECK_DEADLOCK FALSE
