SPECIFICATION FairSpec
CONSTANTS
  MaxHardware = 3
  PerThread = 2
  Points = 2
  Requests <- DocRequests
  NumParams = 2
  Word = 16
  Counts <- MCCounts
  ThreadsCanFail = FALSE
INVARIANT DocSweepsRequestedIndices
CHECK_DEADLOCK FALSE
