SPECIFICATION OperatedSpec
CONSTANTS
  c1 = c1
  c2 = c2
  t1 = t1
  t2 = t2
  t3 = t3
  r1 = r1
  r2 = r2
  A = A
  B = B
  good = good
  other = other
  bad = bad
  Callers = {c1}
  TaskIds = {t1}
  RequestIds = {}
  Fingerprints = {A, B}
  Mapping <- MCChanging
  Unmapped = Unmapped
  Candidates = {good, other, bad}
  Verdict <- MCVerdict
  Reports <- MCReports
  Lease = 1
  MaxTime = 2
  NoTask = NoTask
  NoId = NoId
  NoCandidate = NoCandidate
PROPERTIES
  AbandonedAttemptSettles
