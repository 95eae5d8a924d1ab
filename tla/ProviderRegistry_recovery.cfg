CONSTANTS
  p1 = p1
  p2 = p2
  Providers = {p1}
  Order <- OnlyFirst
  Callers = {c1, c2}
  Threshold = 2
  RecoveryTimeout = 1
  Disturbances = {}
SPECIFICATION FairSpec
PROPERTIES OpenIsProbed HalfOpenResolves
