SPECIFICATION Spec
CONSTANTS
  Components = {"schedule"}
  Keys <- TwoPaths
  Transactions = {t1, t2}
  Requests <- RequestsOfTwo
  Objects = {o1, o2}
  None = None
  MaxFaults = 2
  Tasks = {k1}
  Workers = {w1}
  NoTask = NoTask
  MaxTime = 3
  MaxRuns = 3
  MaxEdits = 0
  MaxOutages = 0
  d1 = d1
  d2 = d2
  d3 = d3
  e1 = e1
  e2 = e2
  Deliveries = {d1, d2, d3}
  DedupeKeys = {e1, e2}
  KeyOf <- Redelivered
  MaxRequests = 1
  Window = 2
  DedupeTTL = 2
  CooldownTime = 1
  MaxClock = 2
  MaxRestarts = 1
  Sockets = {h1, h2}
  Clients = {j1}
  Commands = {n1, n2}
  TabSessions = {b1}
  Targets = {g1, g2}
  Nothing = Nothing
PROPERTY OverlapIsReal
CHECK_DEADLOCK FALSE
