SPECIFICATION FairSpec
CONSTANTS
  p = p
  q = q
  m1 = m1
  m2 = m2
  n1 = n1
  c = c
  d = d
  w = w
  a1 = a1
  a2 = a2
  Null = Null
  Truncated = Truncated
  Processes = {p, q}
  Models = {m1, n1}
  ProcessOf <- MCProcessOf
  Circuits = {c, d}
  Compileable = {c, d}
  Uuid <- MCUuid
  Addresses = {a1, a2}
  Disciplined = TRUE
  CrashesHappen = TRUE
  DiskFails = TRUE
  Signals = TRUE
INVARIANTS
  ExecutesItsCircuit
PROPERTIES
  CompileEnds
  LoadsItsFile
