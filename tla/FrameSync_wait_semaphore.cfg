CONSTANTS
  Extents <- MCExtents
  ImageCounts = {2}
  SwapchainMayFail = FALSE
  AcquireMayFail = FALSE
  EarlyAcquire = FALSE
  MaxFailedSubmits = 0

SPECIFICATION FrameSpec

INVARIANT ClearsAfterWaitSemaphore
