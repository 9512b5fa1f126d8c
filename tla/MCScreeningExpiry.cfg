SPECIFICATION Spec
CONSTANTS
  c1 = c1
  c2 = c2
  t1 = t1
  t2 = t2
  t3 = t3
  r1 = r1
  r2 = r2
  A = A
  B = B
  good = good
  other = other
  bad = bad
  Callers = {c1, c2}
  TaskIds = {t1, t2}
  RequestIds = {r1}
  Fingerprints = {A}
  Mapping <- MCOnce
  Unmapped = Unmapped
  Candidates = {good}
  Verdict <- MCGoodOnly
  Reports <- MCReports
  Lease = 1
  MaxTime = 1
  NoTask = NoTask
  NoId = NoId
  NoCandidate = NoCandidate
SYMMETRY Symmetry
INVARIANTS
  SuccessClosesBudget
  ArchiveValidates
  CorrectionWasChecked
PROPERTIES
  SettlementIsFinal
