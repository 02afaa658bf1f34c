SPECIFICATION FairSpec
CONSTANTS
  MaxCopies = 3
PROPERTIES
  NoProgramAfterPowerOff
  ProgramComesBack
  PowerOffSleeps
CHECK_DEADLOCK FALSE
