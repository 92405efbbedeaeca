CONSTANTS
  t1 = t1
  t2 = t2
  s1 = s1
  s2 = s2
  Callers <- TwoCallers
  Keys <- TwoKeys
  Under <- KeysUnder
  SessionIds <- TwoSessions
  Precision = 2
  Workloads <- AllWork
SYMMETRY Alike
SPECIFICATION Spec
CHECK_DEADLOCK FALSE
INVARIANTS
  TypeOK
  HeldAtServer
PROPERTIES
  Atomic
  NoLostUpdate
