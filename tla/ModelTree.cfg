SPECIFICATION Spec
CONSTANTS
  Models = {m1, m2}
  Plans <- MCPlans
  Steps = {0, 1}
  Places = 10
  MaxLeaked = 1
  Absent = Absent
  Null = Null
INVARIANTS
  OwnedOnce
  CodeTakesFlatParameters
PROPERTY
  ImplementsValues
CHECK_DEADLOCK FALSE
SYMMETRY Symmetry
