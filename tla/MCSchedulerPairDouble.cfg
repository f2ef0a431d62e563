SPECIFICATION Spec
CONSTANTS
  Server = {a1, a2}
  Schedule = {s1}
  Job = {j1, j2, j3}
  hourly = hourly
  daily = daily
  broken = broken
  Cron = {hourly}
  Fires <- MCFires
  MaxTime = 3
  MaxFaults = 0
  None = None
INVARIANTS
  OneRunPerOccurrence
CHECK_DEADLOCK FALSE
