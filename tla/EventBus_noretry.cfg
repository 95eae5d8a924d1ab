CONSTANTS
  Events = {e1}
  Matching = {e1}
  Consumers = {c1}
  Operators = {}
  MaxRetries = 2
  Workers = 1
  Prefetch = 1
  DeadLetterQueue = FALSE
  Faults = {}
  MaxFaults = 0
  MaxDeliveries = 2
  NoEvent = NoEvent
CHECK_DEADLOCK FALSE
SPECIFICATION FairSpec
PROPERTY ScheduledRetryHappens
