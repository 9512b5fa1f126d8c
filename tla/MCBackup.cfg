SPECIFICATION Spec
CONSTANTS
  p1 = p1
  p2 = p2
  w1 = w1
  x = x
  y = y
  s1 = s1
  a1 = a1
  a2 = a2
  d1 = d1
  d2 = d2
  e1 = e1
  Publishers = {p1, p2}
  Blobs = {x, y}
  Shards = {s1}
  ShardOf <- MCOneShard
  Namespace = Namespace
  Artifacts = {a1}
  Members <- MCPair
  NoArtifact = NoArtifact
  Workers = {w1}
  Batches = {d1}
  Targets = {e1}
  Database = Database
  Manifest = Manifest
  NoPlace = NoPlace
SYMMETRY Symmetry
INVARIANTS
  RegisteredIsSynced
  BackupFindsItsBlobs
  PublishedIsWhole
PROPERTIES
  MissingIsNotRebuilt
  NothingIsReplaced
