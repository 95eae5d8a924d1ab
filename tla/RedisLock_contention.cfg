SPECIFICATION FairSpec
CONSTANTS
  c1 = c1
  c2 = c2
  Clients = {c1, c2}
  Timeout <- Unequal
  Ids = {i1, i2, i3}
  NoId = NoId
  Decoding = {TRUE, FALSE}
  Uses = {"with", "blocking", "try"}
INVARIANTS
  TypeOK
  MutualExclusion
PROPERTIES
  OwnerDeletes
  ImplementsLease
  KeyExpires
  CallsReturn
