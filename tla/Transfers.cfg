SPECIFICATION Spec
CONSTANTS
  Parts = {"download", "chunks", "upload", "signatures", "layout", "bolt"}
  DownloadSize = 5
  MinimumProgress = 2
  SinceLastRetry = 2
  MaxDownloadTime = 4
  ChunksSize = 5
  Requests <- MCRequests
  Buffers = 2
  UploadSize = 3
  CandidateLists <- MCCandidateLists
  Manifests = {d1, d2}
  NoManifest = NoManifest
  Signatures = {"a", "b", "c", "s", "t"}
  Sigstore = {"s", "t"}
  Lists <- MCLists
  MaxFiles = 3
  MaxCalls = 3
  Objects <- MCObjects
  Names = {"x", "y"}
  Initial <- MCInitial
  Workers = {w1, w2}
  MaxSessions = 2
  ReplacementAttempts = 2
  ReplacementUnknownLocationAttempts = 1
  Digests <- MCDigests
  TOCs <- MCTOCs
  Scopes <- MCScopes
  Locations = {"l1"}
  MaxTime = 1
  TrueUncompressed <- MCTrueUncompressed
  TrueTOC <- MCTrueTOC
  TrueCompressor <- MCTrueCompressor
  Goroutines = {g1, g2, g3}
  Locks = {p1, p2, p3, p4}
SYMMETRY Symmetry
INVARIANTS
  DownloadIsExact
  RetriesAreBounded
  ChunksAreExact
  UploadsAreSound
  SignaturesAreExact
  LayoutIsSound
  BoltIsSound
