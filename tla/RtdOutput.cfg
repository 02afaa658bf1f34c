SPECIFICATION FairSpec
CONSTANTS
  Users = {main, updater}
  Areas = {osd, list}
  Nobody = Nobody
CHECK_DEADLOCK FALSE
INVARIANTS
  PictureLeftAlone
  NoRectangleLost
PROPERTIES
  FrameSpec
  Served
