SPECIFICATION Spec
CONSTANTS
  w1 = w1
  w2 = w2
  Windows = {w1, w2}
  LocalPowerdown = TRUE
  MaxInbox = 3
  MaxKeys = 1
  MaxEvents = 1
SYMMETRY WindowSymmetry
INVARIANTS
  StreamStaysInStep
  NothingUsedBeforeInit
  OverlayFollowsServer
  KeyboardNeverBlocks
  SessionReleasesAll
CHECK_DEADLOCK FALSE
