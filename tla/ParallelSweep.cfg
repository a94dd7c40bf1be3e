SPECIFICATION FairSpec
CONSTANTS
  MaxHardware = 3
  PerThread = 2
  Points = 2
  Requests <- MCRequests
  NumParams = 2
  Word = 16
  Counts <- MCCounts
  ThreadsCanFail = TRUE
INVARIANTS
  Inv
  NoDataRace
PROPERTIES
  DiesOnlyOfThese
  ImplementsSweepCall
  CallEnds
CHECK_DEADLOCK FALSE
