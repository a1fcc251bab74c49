\* An image may be handed out again while its last present is in progress,
\* and every call may fail.  The window keeps its size: that it is minimized is
\* in FrameSync_late.  After a submission that failed the program may wait for
\* ever, so a deadlock is no error here; OnlyFailedSubmitBlocks allows no other.
CONSTANTS
  Extents <- MCFixedExtent
  ImageCounts = {2, 3}
  SwapchainMayFail = TRUE
  AcquireMayFail = TRUE
  EarlyAcquire = TRUE
  MaxFailedSubmits = 1

SPECIFICATION FrameSpec

INVARIANTS
  RecordsIdleCommandBuffer
  AcquireSemaphoreFree
  FinishedSemaphoreConsumed
  AwaitedFenceWillBeSignaled
  WaitsOnlyForOthers
  BacklogIsBounded

PROPERTIES
  DestroysNothingInUse
  OnlyFailedSubmitBlocks

CHECK_DEADLOCK FALSE
