CONSTANTS
  Limits = {0, 1, 2, 3}
  ModeLists <- MCModeLists

SPECIFICATION Spec

INVARIANT DoubleBuffering
