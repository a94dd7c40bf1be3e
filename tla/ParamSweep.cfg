SPECIFICATION Spec
CONSTANTS
  r = r
  p = p
  NumParams = 3
  Componants <- MCComponants
  Owner <- MCOwner
  Word = 128
  SweepCounts <- MCCounts
  Totals <- MCTotals
  Indices <- MCIndices
  GivenRanges <- MCGivenRanges
  PowShort <- MeasuredPowShort
  PowOver <- MCPowOver
INVARIANTS
  EverySpectrumOnce
  ResolvedStepsInRange
  OnlyStrayIndexDies
PROPERTIES
  TotalHonoured
  StepStrandedOnlyByCaller
CHECK_DEADLOCK FALSE
