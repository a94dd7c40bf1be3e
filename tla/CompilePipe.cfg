SPECIFICATION PipeFairSpec
CONSTANTS
  MaxCalls = 3
  CodeSize = 3
  MaxOutput = 3
  Capacity = 2
  FdLimit = 7
  ForkFails = TRUE
  ExecFails = TRUE
  Interrupts = TRUE
INVARIANTS
  NothingLeftBehind
  ZeroMeansCompiled
PROPERTIES
  CallEnds
  ChildEnds
CHECK_DEADLOCK FALSE
