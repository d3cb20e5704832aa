SPECIFICATION Spec
CONSTANTS
  t1 = t1
  t2 = t2
  t3 = t3
  f1 = f1
  f2 = f2
  p1 = p1
  p2 = p2
  c1 = c1
  c2 = c2
  c3 = c3
  n1 = n1
  n2 = n2
  n3 = n3
  NoFinding = NoFinding
  NoTrigger = NoTrigger
  NoPayload = NoPayload
  NoClaim = NoClaim
  Finding = {f1, f2}
  Inline = {f1}
  Trigger = {t1}
  Payload = {p1, p2}
  PublicationClaim = {c1, c2}
  NoteClaim = {n1, n2, n3}
  MaxRuns = 1
  MaxAttempts = 3
  MaxRecords = 10
  LateWrites = TRUE
  MaxCrashes = 1
  MaxDiskFaults = 2
SYMMETRY Symmetry
INVARIANT ExclusiveOutcome
INVARIANT OneOutcomeInStore
INVARIANT FailureNoteAtMostOnce
INVARIANT PublishedMeansPosted
INVARIANT PublishingIsClaimed
CHECK_DEADLOCK FALSE
