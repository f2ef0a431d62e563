SPECIFICATION Spec
CONSTANTS
  w1 = w1
  q1 = q1
  q2 = q2
  Workload = {w1}
  Deployed = {w1}
  Request = {q1, q2}
  Built = {}
  Bundled = {}
  Tracked = {}
  MaxAttempts = 1
  MaxLosses = 0
  MaxRaces = 0
  Overlapping = TRUE
  First = First
  None = None
CHECK_DEADLOCK FALSE
INVARIANTS SavedIsDeployed
