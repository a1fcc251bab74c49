\* Every order of every set of modes with FIFO in it, and every pair of limits
\* around the two images the program wants.
CONSTANTS
  Limits = {0, 1, 2, 3}
  ModeLists <- MCModeLists

SPECIFICATION Spec

INVARIANTS
  TypeOK
  MailboxElseLast
  RequestWithinLimits
