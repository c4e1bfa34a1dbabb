SPECIFICATION Spec
CONSTANTS
  Card = {0, 1}
  AckGated = TRUE
  MaxEpoch = 2
  MaxQueue = 2
  MaxPosts = 1
  MaxHotplug = 0
PROPERTIES
  ActivatedAfresh
CHECK_DEADLOCK FALSE
