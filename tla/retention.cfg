SPECIFICATION Spec
CONSTANTS
  t1 = t1
  t2 = t2
  t3 = t3
  f1 = f1
  f2 = f2
  p1 = p1
  p2 = p2
  c1 = c1
  c2 = c2
  c3 = c3
  n1 = n1
  n2 = n2
  n3 = n3
  NoFinding = NoFinding
  NoTrigger = NoTrigger
  NoPayload = NoPayload
  NoClaim = NoClaim
  Finding = {}
  Inline = {}
  Trigger = {t1, t2, t3}
  Payload = {p1}
  PublicationClaim = {c1}
  NoteClaim = {}
  MaxRuns = 3
  MaxAttempts = 3
  MaxRecords = 2
  LateWrites = FALSE
  MaxCrashes = 0
  MaxDiskFaults = 0
SYMMETRY Symmetry
PROPERTY PruneSparesClaims
CONSTRAINT OneUnderWay
CHECK_DEADLOCK FALSE
