SPECIFICATION FairSpec
CONSTANTS
  Card = {0, 1}
  AckGated = FALSE
  MaxEpoch = 2
  MaxQueue = 2
  MaxPosts = 1
  MaxHotplug = 2
INVARIANTS
  ScanoutsBacked
  DisabledReleases
  NewestNotStale
  ExitReleases
PROPERTIES
  EventuallyReleased
CHECK_DEADLOCK FALSE
