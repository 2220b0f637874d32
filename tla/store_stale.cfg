SPECIFICATION Spec
CONSTANTS
  Request = {r1, r2}
  Change = {c1, c2}
  None = None
  Limit = 2
  Stale = 2
  Timeout = 1
INVARIANTS
  SavedIsKept
CHECK_DEADLOCK FALSE
