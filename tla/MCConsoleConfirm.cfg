SPECIFICATION Spec
CONSTANTS
  Branch = {b1, b2}
  First = b1
  None = None
  MaxPatches = 1
  MaxLoads = 2
  MaxRuns = 2
CHECK_DEADLOCK FALSE
INVARIANTS WritesAreConfirmed
