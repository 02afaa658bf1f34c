SPECIFICATION FairSpec
CONSTANTS
  Clients = {c1, c2, c3}
  Systems = {pal, hd720}
  MaxCycles = 2
  MaxEvents = 2
INVARIANTS
  HoldersSeeWholeLibrary
  MainThreadNeverUsesDeadVout
  LifetimesNest
  ScreenMatchesRect
PROPERTIES
  CallsReturn
  ChangesAreApplied
CHECK_DEADLOCK FALSE
