SPECIFICATION Spec
CONSTANTS
  c1 = c1
  c2 = c2
  c3 = c3
  p = p
  q = q
  list = list
  tuple = tuple
  other = other
  None = None
  Unknown = Unknown
  Keys = {k1, k2}
  Values = {list, tuple, other}
  Json <- TupleToList
  Procs = {p, q}
  Clients = {c1, c2, c3}
  Home <- TwoAndOne
  L1Size = 1
SYMMETRY Symmetry
INVARIANTS
  TypeOK
  Settled
PROPERTIES
  StaleOnlyShrinks
  DeleterForgets
