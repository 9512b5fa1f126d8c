SPECIFICATION MCSpec
CONSTANTS
  p1 = p1
  p2 = p2
  q1 = q1
  q2 = q2
  A = A
  B = B
  good = good
  bad = bad
  Callers = {"caller"}
  TaskIds = {p1, p2}
  RequestIds = {"request"}
  Fingerprints = {A, B}
  Mapping <- MCReturning
  Unmapped = Unmapped
  Candidates = {good, bad}
  Verdict <- MCGoodBad
  Reports <- MCReports
  Lease = 1
  MaxTime = 0
  NoTask = NoTask
  NoId = "NoId"
  NoCandidate = NoCandidate
  InitCommands = 1
  PromptParts = 2
  InputSize = 1
  OutputSize = 1
  MaxNotices = 1
  Readers = {p1, p2}
  Screeners = {q1, q2}
  ExecutionInstalls = {"i1", "i2"}
  Evidenced = {"i1"}
  AttemptLimit = 2
  LogWriters = {p1, p2}
  EventSizes = {1, 2}
  MaxBytes = 2
  MaxFiles = 3
  MaxEmitted = 4
  ReadContexts <- MCContexts
  ReadCandidates <- MCCandidates
  ValidIds = {"e1", "e2", "e3"}
  ConfigCallers = {p1, p2}
  FirstFiles <- MCFirstFiles
  Drafts <- MCDrafts
  Absent = Absent
  Invalid = Invalid
  MaxEdits = 2
  MaxConfigCalls = 2
  StageFacts <- MCFacts
  BlankTexts = {" "}
  BadHashes = {"?"}
  ProtocolProfiles = {"a", "b"}
  PaperFacts <- MCPaperFacts
  Upgraders = {p1, p2}
  Services = {"service"}
  Registrars = {p1, p2}
  Journals <- MCJournals
  Documents <- MCDocuments
  Summaries <- MCSummaries
  PdfRequests <- MCPdfRequests
  PdfFiles = {"f", "g", "empty"}
  NoBytes = "empty"
  BackendRequests <- MCBackendRequests
  Plans = {"a1", "a2"}
  Places = {"feed", "doi_ra"}
  Contents = {"m", "n"}
  MaterialParsers <- MCParsers
  PublishedParsers = {"audit-abstract-v1"}
  RequestKeys = {"x", "y"}
  Baselines <- MCBaselines
  MaxRows = 3
SYMMETRY Symmetry
INVARIANTS
  CallIsSound
  NobodyWaits
  ExecutionIsSound
  AcceptanceIsSound
  ConfigIsReplayable
  VerdictsAreSound
  HistoriesAreAccepted
PROPERTIES
  ImplementsBudget
  NewestAreKept
  UpgradeKeepsFacts
CHECK_DEADLOCK FALSE
