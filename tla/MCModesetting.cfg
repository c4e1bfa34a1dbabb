SPECIFICATION Spec
CONSTANTS
  Card = {1, 2}
  Connector = {1, 2, 3}
  Crtc = {1, 2, 3}
  Plane = {1, 2, 3}
  Encoder = {1, 2, 3}
  Handle = {1, 2}
  ConnectorCard <- MCConnectorCard
  CrtcCard <- MCCrtcCard
  PlaneCard <- MCPlaneCard
  EncodersOf <- MCEncodersOf
  PossibleCrtcs <- MCPossibleCrtcs
  PlaneCrtcs <- MCPlaneCrtcs
  Modes <- MCModes
  Preferred <- MCPreferred
  StopsCrtc = {2}
  ConfigModes = {"sd", None}
  ConsoleRoutes <- MCConsoleRoutes
  MaxChanges = 2
  Other = Other
  None = None
INVARIANTS
  OutputsApart
  ScanoutsShown
  ObjectsAccounted
  ConfigApplied
CHECK_DEADLOCK FALSE
