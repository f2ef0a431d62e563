SPECIFICATION MCSpec
CONSTANTS
  main = main
  b1 = b1
  r1 = r1
  d1 = d1
  w1 = w1
  q1 = q1
  q2 = q2
  First = First
  Placeholder = Placeholder
  Server = {a1}
  Schedule = {s1, s2}
  Job = {j1, j2}
  hourly = hourly
  daily = daily
  broken = broken
  Cron = {hourly, broken}
  Fires <- MCFires
  MaxTime = 2
  MaxFaults = 0
  None = None
CHECK_DEADLOCK FALSE
PROPERTIES DueScheduleFires QueuedJobSettles BackupsClose BranchesSettle WorkloadsSettle
