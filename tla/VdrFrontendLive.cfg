SPECIFICATION FairSpec
CONSTANTS
  w1 = w1
  Windows = {w1}
  LocalPowerdown = FALSE
  MaxInbox = 2
  MaxKeys = 1
  MaxEvents = 1
PROPERTIES
  SessionEnds
  IdStartsSession
CHECK_DEADLOCK FALSE
