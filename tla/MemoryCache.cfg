SPECIFICATION Spec
CONSTANTS
  ReplacementAttempts = 2
  ReplacementUnknownLocationAttempts = 1
  Digests <- MCDigests
  TOCs <- MCTOCs
  Scopes <- MCScopes
  Locations = {l1, l2}
  MaxTime = 3
  TrueUncompressed <- MCTrueUncompressed
  TrueTOC <- MCTrueTOC
  TrueCompressor <- MCTrueCompressor
SYMMETRY LocationSymmetry
INVARIANTS
  SubstitutionIsSound
  CandidatesAreTheBest
  MapsAgree
PROPERTIES
  ImplementsBlobInfoCache
