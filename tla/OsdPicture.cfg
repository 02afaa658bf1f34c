SPECIFICATION Spec
CONSTANTS
  Half = 2
  HudWidth = 6
  HudHeight = 6
  DefWidth = 5
  DefHeight = 5
  ScreenWidth = 7
  ScreenHeight = 11
  Lens = {0, 1, 2, 4, 5}
  Colors = {0, 3}
  MaxRuns = 3
  Xs = {0, 1, 2}
  Ys = {0, 3}
  Ws = {1, 2, 3, 5}
  Hs = {1, 2, 3}
  OsdWidths = {5}
  OsdHeights = {5}
  Pictures <- MCPictures
  Windows <- MCWindows
INVARIANTS
  DecodeRestoresRuns
  PaintsPictureInOrder
  BlitCoversDirtyArea
  BlitStaysOnScreen
CHECK_DEADLOCK FALSE
