SPECIFICATION MCSpec
CONSTANTS
  Job = {0, 1, 2, 3}
  Scheduled = {1, 2, 3}
  Uploading = {1, 2, 3}
  Keep = 1
  MaxAttempts = 2
  MaxLosses = 1
  MaxRaces = 1
  Overlapping = TRUE
  Restoring = TRUE
  Placeholder = Placeholder
  None = None
CHECK_DEADLOCK FALSE
INVARIANTS TypeOK ArtifactIsReal OutcomeAgrees RetentionConverges
PROPERTIES SequentialKeepsNewest RowsFollowLifecycle
