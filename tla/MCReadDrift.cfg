SPECIFICATION Spec
CONSTANTS
  c1 = c1
  c2 = c2
  t1 = t1
  t2 = t2
  t3 = t3
  r1 = r1
  r2 = r2
  r3 = r3
  A = A
  B = B
  good = good
  other = other
  bad = bad
  Callers = {c1}
  TaskIds = {t1}
  RequestIds = {r1}
  Fingerprints = {A}
  NoFingerprint = NoFingerprint
  Candidates = {good}
  Sound = {good}
  Degradable = {}
  Failures <- MCFailures
  Lease = 1
  MaxTime = 2
  MaxRenewals = 1
  Drift = 1
  NoTask = NoTask
  NoRequest = NoRequest
  NoCandidate = NoCandidate
SYMMETRY Symmetry
INVARIANTS
  HolderActsBeforeDeadline
