SPECIFICATION MCSpec
CONSTANTS
  main = main
  b1 = b1
  b2 = b2
  r1 = r1
  r2 = r2
  t1 = t1
  t2 = t2
  k1 = k1
  k2 = k2
  Branch = {main, b1, b2}
  Primary = {main}
  Restore = {r1, r2}
  Backup = {d1}
  Datum = {x}
  MaxAttempts = 2
  MaxLosses = 1
  MaxRaces = 1
  Overlapping = TRUE
  None = None
CHECK_DEADLOCK FALSE
CONSTRAINT InTime
INVARIANTS TypeOK ReadyIsWhole CreatingIsUnderWay RestoreOutcome ParentStays WritesHitTheirRows ShownIsAsked
PROPERTIES ReadyKeepsData BranchesFollowService
