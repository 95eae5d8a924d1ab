SPECIFICATION FairSpec
CONSTANTS
  k1 = k1
  k2 = k2
  Keys = {k1, k2}
  Timeout <- Unequal
  Readers = {c1, c2}
  Savers = {c2, c3}
  Transactional = {TRUE, FALSE}
INVARIANTS
  TypeOK
  NoneMissed
PROPERTIES
  Converges
