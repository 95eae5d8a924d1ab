CONSTANTS
  r1 = r1
  r2 = r2
  Backends = {"sliding_window", "token_bucket", "fixed_window"}
  Workers = {c1, c2}
  Rules = {r1, r2}
  Order <- Priority
  LogOnly = {r1}
  Policies <- TwoRules
  Window = 3
  Fractions = 1
  MaxDelay = 1
  MaxTime = 4
SPECIFICATION Spec
SYMMETRY Symmetry
INVARIANTS TypeOK SlidingBound TokenBound FixedBound
CHECK_DEADLOCK FALSE
