SPECIFICATION Spec
CONSTANTS
  t1 = t1
  t2 = t2
  t3 = t3
  f1 = f1
  f2 = f2
  p1 = p1
  p2 = p2
  c1 = c1
  c2 = c2
  c3 = c3
  n1 = n1
  n2 = n2
  n3 = n3
  NoFinding = NoFinding
  NoTrigger = NoTrigger
  NoPayload = NoPayload
  NoClaim = NoClaim
  Finding = {f1}
  Inline = {f1}
  Trigger = {t1}
  Payload = {p1}
  PublicationClaim = {c1, c2}
  NoteClaim = {n1}
  MaxRuns = 3
  MaxAttempts = 2
  MaxRecords = 10
  LateWrites = FALSE
  MaxCrashes = 1
  MaxDiskFaults = 0
SYMMETRY Symmetry
INVARIANT TypeOK
INVARIANT OnlyLatestSpeaks
PROPERTIES TerminalIsFinal OneOutcome
CHECK_DEADLOCK FALSE
