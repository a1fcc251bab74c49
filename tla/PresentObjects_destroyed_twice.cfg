CONSTANTS
  Extents <- MCExtents
  ImageCounts = {2}
  SwapchainMayFail = FALSE
  AcquireMayFail = FALSE

SPECIFICATION Spec

INVARIANT NothingDestroyedTwice
