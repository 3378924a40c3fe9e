SPECIFICATION Spec
CONSTANTS
  a1 = a1 a2 = a2 r1 = r1 r2 = r2 l1 = l1 l2 = l2
  high = high low = low x1 = x1
  None = None
  Keys = {high, low}
  HighRisk = {high}
  Ids = {l1, l2}
  Agents = {a1, a2}
  Reviewers = {r1, r2}
  Admins = {x1}
  MaxCalls = 2
INVARIANT RevocationFinal
SYMMETRY Symmetry
CHECK_DEADLOCK FALSE
