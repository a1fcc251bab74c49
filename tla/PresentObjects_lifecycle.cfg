\* Every kind of window size, drivers that change the image count between
\* recreations, and failing calls.
CONSTANTS
  Extents <- MCExtents
  ImageCounts = {2, 3}
  SwapchainMayFail = TRUE
  AcquireMayFail = TRUE

SPECIFICATION FairSpec

INVARIANTS
  TypeOK
  DrawsOnlyWithLiveObjects
  DoubleDestroyOnlyWhenQuitHidden
  FrameIndexInRange

PROPERTIES
  FrameIndexLeftBehindOnlyByShrinking
  OnlyCommandBuffersLeak
  RestoredWindowIsDrawn
