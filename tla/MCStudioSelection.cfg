SPECIFICATION Spec
CONSTANTS
  Table = {t1}
  First = t1
  Key = {k1, k2}
  None = None
  MaxLoads = 2
  MaxWrites = 1
  MaxSchemas = 0
CHECK_DEADLOCK FALSE
INVARIANTS SelectionIsDeleted
