SPECIFICATION Spec
CONSTANTS
  Users = {main, updater}
  Areas = {osd}
  Nobody = Nobody
CHECK_DEADLOCK FALSE
INVARIANT OverlayAfterOutput
