CONSTANTS
  DeviceLists <- MCDeviceLists
  Garbage = {0}
  Word = 4096

SPECIFICATION Spec

INVARIANT BestIsChosen
