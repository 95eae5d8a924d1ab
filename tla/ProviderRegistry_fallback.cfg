CONSTANTS
  p1 = p1
  p2 = p2
  Providers = {p1, p2}
  Order <- FirstThenSecond
  Callers = {c1, c2}
  Threshold = 2
  RecoveryTimeout = 0
  Disturbances = {"query", "cancel", "cache", "cache_down", "reset"}
SPECIFICATION Spec
SYMMETRY Symmetry
INVARIANTS TypeOK OpenedByFailures
PROPERTIES NoCallBeforeRecovery
