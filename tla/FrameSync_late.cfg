\* An image is handed out again only after its last present was processed.
CONSTANTS
  Extents <- MCExtents
  ImageCounts = {1, 2, 3}
  SwapchainMayFail = FALSE
  AcquireMayFail = FALSE
  EarlyAcquire = FALSE
  MaxFailedSubmits = 0

SPECIFICATION FrameSpec

INVARIANTS
  FrameTypeOK
  RecordsIdleCommandBuffer
  WaitsOnlyForOthers

PROPERTIES
  DestroysNothingInUse
  DrawFrameReturns
  ImplementsFramePipeline
