SPECIFICATION FairSpec
CONSTANTS
  c1 = c1
  c3 = c3
  m1 = m1
  m2 = m2
  s1 = s1
  s2 = s2
  r1 = r1
  r2 = r2
  r3 = r3
  a = a
  b = b
  v1 = v1
  v3 = v3
  Components = {"turn", "permission", "buffer", "reply", "transaction", "schedule", "webhook"}
  Prompts = {c1, c3}
  Removals = {}
  Sessions = {s1}
  MessageIds = {m1, m2}
  Nobody = Nobody
  SessionOf <- OneSession
  MessageOf <- TwoMessages
  MaxCrashes = 1
  Asks = {r1, r2, r3}
  Replies = {p1}
  AskSessions = {s1, s2}
  Patterns = {a, b}
  AskedIn <- TwoSessions
  PatternsOf <- SomePatterns
  Rules <- SomeRules
  AlwaysOf <- AllPatterns
  AutoAllowed = {}
  ProfileSnapshots = TRUE
  Parts = {q1}
  MaxChanges = 2
  MaxCheckpoints = 2
  MaxFailures = 0
  Streams <- SomeStreams
  MaxCardFaults = 0
  MaxPolls = 0
  Keys <- TwoPaths
  Transactions = {t1, t2}
  Requests <- RequestsOfTwo
  Objects = {o1, o2}
  None = None
  MaxFaults = 1
  Tasks = {k1, k2}
  Workers = {w1}
  NoTask = NoTask
  MaxTime = 2
  MaxRuns = 4
  MaxEdits = 0
  MaxOutages = 0
  Deliveries = {v1, v3}
  DedupeKeys = {v1, v3}
  KeyOf <- KeyOfEach
  MaxRequests = 1
  Window = 2
  DedupeTTL = 2
  CooldownTime = 1
  MaxClock = 2
  MaxRestarts = 0
PROPERTIES CancelledTurnsEnd AsksEnd EverythingArrives RepliesEnd IsAtomic TransactionsEnd DueIsHandled WebhookRunsEnd
CHECK_DEADLOCK FALSE
