SPECIFICATION Spec
CONSTANTS
  p = p
  q = q
  m1 = m1
  m2 = m2
  n1 = n1
  c = c
  d = d
  w = w
  a1 = a1
  a2 = a2
  Null = Null
  Truncated = Truncated
  Processes = {p}
  Models = {m1, m2}
  ProcessOf <- MCProcessOf
  Circuits = {c, d, w}
  Compileable = {c, d}
  Uuid <- MCUuid
  Addresses = {a1, a2}
  Disciplined = TRUE
  CrashesHappen = FALSE
  DiskFails = TRUE
  Signals = FALSE
INVARIANTS
  ExecutesItsCircuit
  AloneLoadsItsFile
PROPERTIES
  CacheKept
