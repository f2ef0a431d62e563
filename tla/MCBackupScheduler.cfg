SPECIFICATION Spec
CONSTANTS
  Server = {a1, a2}
  Schedule = {s1}
  Job = {j1, j2, j3, j4}
  hourly = hourly
  daily = daily
  broken = broken
  Cron = {hourly, daily, broken}
  Fires <- MCFires
  MaxTime = 4
  MaxFaults = 2
  None = None
SYMMETRY MCSymmetry
CONSTRAINT Within
INVARIANTS
  TypeOK
  AloneFiresOnce
  NoLostJob
  NotDispatchedIsTrue
  PausedFiresOncePerServer
CHECK_DEADLOCK FALSE
