SPECIFICATION Spec
CONSTANTS
  c1 = c1
  c2 = c2
  c3 = c3
  d1 = d1
  m1 = m1
  m2 = m2
  s1 = s1
  s2 = s2
  r1 = r1
  r2 = r2
  r3 = r3
  a = a
  b = b
  Components = {"permission"}
  Prompts = {c1, c2, c3}
  Removals = {d1}
  Sessions = {s1}
  MessageIds = {m1, m2}
  Nobody = Nobody
  SessionOf <- WithRemoval
  MessageOf <- SentTwice
  MaxCrashes = 1
  Asks = {r1, r2, r3}
  Replies = {p1, p2}
  AskSessions = {s1, s2}
  Patterns = {a, b}
  AskedIn <- OneSession
  PatternsOf <- SomePatterns
  Rules <- SomeRules
  AlwaysOf <- AllPatterns
  AutoAllowed = {}
  ProfileSnapshots = TRUE
  Parts = {q1}
  MaxChanges = 3
  MaxCheckpoints = 1
  MaxFailures = 1
  Streams <- SomeStreams
  MaxCardFaults = 1
  MaxPolls = 1
  ChatMessages = {x1, x2}
  AbortCalls = {y1}
  ResetCalls = {z1}
  NoSession = NoSession
SYMMETRY Symmetry
PROPERTY GrantsNeverOverrideDeny
CHECK_DEADLOCK FALSE
