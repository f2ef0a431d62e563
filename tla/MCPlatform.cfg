SPECIFICATION MCSpec
CONSTANTS
  Provider = {p1}
  Reading = {q1, q2}
  MaxGrants = 3
  MaxLapses = 1
  Host = {h1}
  Email = {e1}
  Patcher = {a1, a2}
  MaxSlips = 1
  Creation = {q1, q2, q3}
  MaxCreations = 2
  Cluster = {c1}
  Reader = {r1}
  MaxAttempts = 2
  MaxFaults = 2
  MaxRaces = 1
  MaxChanges = 2
  MaxMarks = 2
  MaxFailed = 1
  MaxFocus = 1
  None = None
  Null = Null
CHECK_DEADLOCK FALSE
INVARIANTS TypesOK StoredTokenRefreshes AppliedIsServed RequestedIsUnderWay AnswerIsWhole RefusedMeansCrowded QuietIsCurrent
PROPERTIES LoneReadSucceeds
