SPECIFICATION Spec
CONSTANTS
  Half = 2
  HudWidth = 8
  HudHeight = 8
  DefWidth = 5
  DefHeight = 5
  ScreenWidth = 7
  ScreenHeight = 11
  Lens = {1}
  Colors = {3}
  MaxRuns = 1
  Xs = {0, 6}
  Ys = {0}
  Ws = {1}
  Hs = {1}
  OsdWidths = {5, 7}
  OsdHeights = {5}
  Pictures <- MCPictures
  Windows <- MCWindows
INVARIANT EveryOsdFitsScreen
CHECK_DEADLOCK FALSE
