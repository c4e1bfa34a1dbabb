SPECIFICATION Spec
CONSTANTS
  Card = {0, 1, 2}
  Gpu = {1, 2, 3, 4}
  GpuType <- MCGpuType
  GpuVersion <- MCGpuVersion
  GpuNode <- MCGpuNode
  CardNode <- MCCardNode
  GraphicsGpu = {1, 2, 3}
  ExportingGpu = {1, 2, 3, 4}
  Output = {1, 2}
  OutputCard <- MCOutputCard
  OutputSize <- MCOutputSize
  Frames <- MCFrames
  MaxWork = 3
  MaxChanges = 3
  Undefined = Undefined
  None = None
INVARIANTS
  ShownAsAsked
  UploadsKept
  TemporariesGone
  PreferredUsed
CHECK_DEADLOCK FALSE
