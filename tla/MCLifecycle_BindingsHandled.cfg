SPECIFICATION FairSpec
CONSTANTS
  Key = {"f2"}
  KnownKey = {"f2"}
  Defaults <- MCNone
  Script <- MCOneKey
  MaxInputs = 2
PROPERTY BindingsHandled
CHECK_DEADLOCK FALSE
