SPECIFICATION Spec
CONSTANTS
  Job = {1, 2}
  Scheduled = {1, 2}
  Uploading = {1, 2}
  Keep = 1
  MaxAttempts = 1
  MaxLosses = 0
  MaxRaces = 0
  Overlapping = TRUE
  Restoring = FALSE
  Placeholder = Placeholder
  None = None
CHECK_DEADLOCK FALSE
PROPERTIES RetentionKeepsNewest
