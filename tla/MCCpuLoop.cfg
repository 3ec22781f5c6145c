CONSTANTS
  Last = 2
  General = 0
  Refill = 1
  Device = {"AI", "VI", "SP", "DP", "SI"}
  StatusWrites <- MCStatusWrites
  MaskWrites <- MCMaskWrites
  EnableCompare = TRUE
SPECIFICATION FairSpec
INVARIANTS RequestNotLost SpuriousOnlyIfWithdrawn CauseIsCurrent ResumesWhereInterrupted
PROPERTIES PendingIsServed
