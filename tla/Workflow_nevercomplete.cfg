CONSTANTS
  a = a
  b = b
  c = c
  NoTask = NoTask
  Tasks = {a, b, c}
  Successor <- Sequential
  System = {c}
  InitiallySkipped = {}
  Users = {u1}
  Staff = {}
  Actions = {"start", "complete"}
  MaxRequests = 0
SPECIFICATION FairSpec
PROPERTY WorkflowCompletes
