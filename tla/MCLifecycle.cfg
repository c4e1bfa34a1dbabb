SPECIFICATION FairSpec
CONSTANTS
  Key = {"f2", "a"}
  KnownKey = {"f2"}
  Defaults <- MCNone
  Script <- MCScript
  MaxInputs = 2
INVARIANTS
  KeymapsAgree
  ExitStopsAll
  MessagesWake
PROPERTY ShutdownEnds
CHECK_DEADLOCK FALSE
