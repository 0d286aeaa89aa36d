SPECIFICATION Spec
CONSTANTS
  ReplacementAttempts = 2
  ReplacementUnknownLocationAttempts = 1
  Digests <- MCDigests
  TOCs <- MCTOCs
  Scopes <- MCScopes
  Locations = {"l1"}
  MaxTime = 1
  TrueUncompressed <- MCTrueUncompressed
  TrueTOC <- MCTrueTOC
  TrueCompressor <- MCTrueCompressor
  Clients = {c1, c2}
INVARIANTS
  TablesAgree
  HandlesAreSafe
PROPERTIES
  ImplementsBlobInfoCache
