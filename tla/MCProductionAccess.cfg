SPECIFICATION Spec
CONSTANTS
  v1 = v1 v2 = v2 k1 = k1 k2 = k2
  None = None
  Requests = {1, 2, 3}
  Reviewers = {v1, v2}
  Keys = {k1, k2}
  MaxTime = 1
INVARIANTS OnePending PostureBacked DecisionRemembered AppliedOnce
SYMMETRY Symmetry
CHECK_DEADLOCK FALSE
