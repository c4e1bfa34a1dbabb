SPECIFICATION Spec
CONSTANTS
  c1 = c1
  c2 = c2
  Key <- MCKey
  Size <- MCSize
  Shape <- MCShape
  NoClient = NoClient
INVARIANTS
  RefsExact
  FreeListExact
  SnapshotInBounds
  ResourcesRegistered
PROPERTIES
  SharingSpec
