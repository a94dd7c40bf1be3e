SPECIFICATION Spec
CONSTANTS
  MaxTyped = 5
  Printed <- MCPrinted
  Typed <- MCTyped
INVARIANTS
  ReadsWhatItPrints
  EveryElementOnce
  MatchedEndsWell
  SeriesResistanceRemoved
  EisToCdcKeepsCircuit
  CdcToEisKeepsCircuit
  RelaxisRoundTrip
  MadapToEisKeepsCircuit
CHECK_DEADLOCK FALSE
