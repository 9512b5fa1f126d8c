SPECIFICATION OperatedSpec
CONSTANTS
  c1 = c1
  c2 = c2
  t1 = t1
  t2 = t2
  t3 = t3
  r1 = r1
  r2 = r2
  r3 = r3
  A = A
  B = B
  good = good
  other = other
  bad = bad
  Callers = {c1, c2}
  TaskIds = {t1}
  RequestIds = {r1}
  Fingerprints = {A}
  NoFingerprint = NoFingerprint
  Candidates = {good, other}
  Sound = {good}
  Degradable = {other}
  Failures <- MCFailures
  Lease = 2
  MaxTime = 3
  MaxRenewals = 1
  Drift = 0
  NoTask = NoTask
  NoRequest = NoRequest
  NoCandidate = NoCandidate
INVARIANTS
  LeasesValidate
PROPERTIES
  LeaseIsHonoured
  AbandonedAttemptSettles
