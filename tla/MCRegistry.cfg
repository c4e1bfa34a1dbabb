SPECIFICATION Spec
CONSTANTS
  c1 = c1
  c2 = c2
  Client = {c1, c2}
  Display = 1
  Id = {1, 2, 3, 4, 5, 6}
  ServerId = ServerId
  SeatName = {"seat0"}
  Version = {0, 1, 3, 10}
  Use <- MCUse
  Gone = Gone
  None = None
INVARIANTS
  NeverUnimplemented
  ToldOnce
  IdsAgree
  BehavedServed
