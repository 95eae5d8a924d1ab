SPECIFICATION FairSpec
CONSTANTS
  Workers = {w1, w2}
  Admins = {a1, a2}
  MaxAttempts = 3
  Atomic = {TRUE, FALSE}
  MaxTasks = 3
  MaxCount = 4
INVARIANTS
  TypeOK
  BudgetKept
  NoneStranded
PROPERTIES
  SuccessFinal
  Settles
CHECK_DEADLOCK FALSE
