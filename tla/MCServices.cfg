SPECIFICATION MCSpec
CONSTANTS
  w1 = w1
  w2 = w2
  k1 = k1
  k2 = k2
  Submitters = {w1, w2}
  Requests <- MCRequests
  Entries = {1, 2}
  NoDOI = "none"
  MaxAcquisitions = 3
  Resumers = {w1, w2}
  CheckIds = {k1, k2}
  Parsers = {1, 2}
  Bodies <- MCBodies
  Parsed <- MCParsed
  Enrichers = {w1, w2}
  RunIds = {k1, k2}
  Rules = {1}
  Agencies = {"none", "Crossref"}
  Pages = {5}
  Extract <- MCExtract
  Discovered <- MCDiscovered
  Registrars = {w1, w2}
  ManualIds = {"q"}
  Purposes = {"production"}
  Extractors = {w1, w2}
  PDFs = {"p", "q"}
  Recipes = {"r"}
  MaxAttachments = 2
  MaxDecisions = 2
  MaxSamples = 1
  MaxReviews = 2
  Auditors = {w1, w2}
  MaxExecutions = 5
  MaxEvents = 3
SYMMETRY Symmetry
INVARIANTS
  ArchiveIsAccepted
  ReceiptsStand
  CheckHistoryIsAccepted
  PreparationsGoThrough
  PipelineValidates
  BodyIsAccepted
  AuditIsAccepted
  AuditsGoThrough
PROPERTIES
  RegisteredOnCurrentFacts
CHECK_DEADLOCK FALSE
