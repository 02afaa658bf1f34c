SPECIFICATION FairSpec
CONSTANTS
  Mapped = {tv, home}
  Unmapped = {other}
  TvKey = tv
  HomeKey = home
  MaxKeys = 3
INVARIANTS
  NobodyBlocksInRead
  QueuedInputIsAnnounced
PROPERTIES
  OwnerSpec
  HandoverCompletes
  KeysAreRead
