CONSTANTS
  Events = {e1, e2}
  Matching = {e1, e2}
  Consumers = {c1}
  Operators = {}
  MaxRetries = 2
  Workers = 1
  Prefetch = 2
  DeadLetterQueue = TRUE
  Faults = {"db", "crash", "expiry"}
  MaxFaults = 2
  MaxDeliveries = 4
  NoEvent = NoEvent
CHECK_DEADLOCK FALSE
SPECIFICATION FairSpec
PROPERTIES ProcessingResolves EveryEventAttempted CompletedIsFinal
