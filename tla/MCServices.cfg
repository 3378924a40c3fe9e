SPECIFICATION ServicesSpec
CONSTANTS
  Parts = {"settings", "account", "automation", "delivery", "governance", "workspace", "providers", "spend", "rate", "cache", "guard", "ingest", "startup", "pilot", "release"}
  Threads = {t1, t2}
  None = None
  ApiKeys = {k1, k2}
  AccountKeys = {s1, s2}
  Rules = {r1}
  InlineLimit = 1
  PageLimit = 1
  MaxDeliveries = 2
  MaxRuns = 4
  Records = {d1, d2}
  Renewed = {d1}
  Marked = {d2}
  Texts = {x1, x2}
  Holds = {h1}
  Simulations = {p1}
  MaxTime = 2
  Users = {u1, u2}
  HomeUsers = {u1}
  Members = {m1}
  Invites = {i1}
  MaxKeys = 2
  Findings = {f1}
  Critical = {}
  Limits = {1}
  Costs = {1}
  Spends = {0}
  RateLimits = {1, 2}
  Attempts = 1
  MaxCharge = 2
  MaxCalls = 2
  ToolKeys = {k1}
  Reviewed = {k1}
  MaxPosts = 4
  TraceKeys = {k1}
  MaxBatch = 2
  MaxTraces = 4
  Policies = 2
  Clients = {c1, c2}
  PilotKeys = {k1, k2}
  Forms = {f1, f2}
  RateMax = 1
  BucketMax = 1
  MaxAdmitted = 3
  MaxResults = 2
  DatasetSize = 1
INVARIANTS ServicesTypeOK AnsweredChangesStand CountedRunsHaveEvents DeliveredOnce PurgeSparesHeld InviteStaysSpent RoutedKeyIsVetted SpendIsCharged RateLimitHolds BlockedAnswerWithheld ToolRunsOnce TraceStoredOnce ReadyIsSeeded PilotPromises GateShowsNewestRun
PROPERTY ToolAsGranted
SYMMETRY Symmetry
CHECK_DEADLOCK FALSE
