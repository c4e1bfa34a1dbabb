SPECIFICATION Spec
CONSTANTS
  c1 = c1
  c2 = c2
  Key <- MCKey
  Use <- MCUse
  MaxUpdates = 2
  NoClient = NoClient
  NoKey = NoKey
  Unchanged = Unchanged
INVARIANTS
  RolesPaired
  RemovedLeavesNothing
PROPERTIES
  SubmittedInOrder
  ContentRemoved
  ScreenSpec
CHECK_DEADLOCK FALSE
