SPECIFICATION Spec
CONSTANTS
  main = main
  r1 = r1
  r2 = r2
  d1 = d1
  x = x
  Branch = {main}
  Primary = {main}
  Restore = {r1, r2}
  Backup = {d1}
  Datum = {x}
  MaxAttempts = 1
  MaxLosses = 0
  MaxRaces = 0
  Overlapping = TRUE
  None = None
CHECK_DEADLOCK FALSE
PROPERTIES CleanCanvas
