CONSTANTS
  Events = {e1, e2}
  Matching = {e1}
  Consumers = {c1, c2}
  Operators = {o1}
  MaxRetries = 2
  Workers = 1
  Prefetch = 1
  DeadLetterQueue = TRUE
  Faults = {"db", "handler_import", "connection", "shutdown", "crash", "expiry"}
  MaxFaults = 2
  MaxDeliveries = 3
  NoEvent = NoEvent
CHECK_DEADLOCK FALSE
SPECIFICATION Spec
SYMMETRY Symmetry
INVARIANTS TypeOK GivenUpOnlyAfterBudget NoMessageLost
PROPERTY ImplementsDelivery
