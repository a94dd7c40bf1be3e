SPECIFICATION Spec
CONSTANTS
  Inputs <- MCInputs
  Frequencies <- MCFrequencies
  Sizes = {0, 1, 2, 3, 5}
  Factors <- MCFactors
  Tiny <- MCTiny
  Coarseness = 40
  Refused = Refused
INVARIANT DocReduced
CHECK_DEADLOCK FALSE
