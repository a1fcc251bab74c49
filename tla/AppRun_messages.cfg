\* Three messages at a time: some can be posted while others are handled, and a
\* drag can be followed by a close within its loop.
CONSTANTS
  Extents <- MCExtents
  ImageCounts = {2, 3}
  SwapchainMayFail = TRUE
  AcquireMayFail = TRUE
  StartMayFail = TRUE
  MayLackDevice = TRUE
  MaxPending = 3

SPECIFICATION AppSpec

INVARIANTS
  AppTypeOK
  DrawsWithEverything
  CrashesOnlyAfterFailure
  OutlivedByParents

PROPERTIES
  PumpReturns
  QuitDestroysEverything
