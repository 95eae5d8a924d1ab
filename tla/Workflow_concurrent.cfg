CONSTANTS
  a = a
  b = b
  c = c
  NoTask = NoTask
  Tasks = {a, c}
  Successor <- Short
  System = {c}
  InitiallySkipped = {}
  Users = {u1, u2}
  Staff = {s1}
  Actions = {"start", "complete", "fail", "skip"}
  MaxRequests = 1
SYMMETRY Symmetry
SPECIFICATION Spec
INVARIANTS TypeOK CompletedMeansAllFinished FailedMeansTaskFailed SuccessorActivated
