SPECIFICATION Spec
CONSTANTS
  v1 = v1 v2 = v2 k1 = k1 k2 = k2
  None = None
  Requests = {1, 2}
  Reviewers = {v1, v2}
  Keys = {k1, k2}
  MaxTime = 1
INVARIANT NewestPending
CHECK_DEADLOCK FALSE
