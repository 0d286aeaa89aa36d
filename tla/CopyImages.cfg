SPECIFICATION FairSpec
CONSTANTS
  Copies = {"parallel", "serial"}
  ThreadSafe <- MCThreadSafe
  Shared = "shared"
  Capacity = 1
  Instances = 2
  LayersPerImage = 2
  OtherCandidates = 1
INVARIANTS
  UnitsAreAccounted
  ConcurrencyIsBounded
  ManifestNeedsAllLayers
  NoCopyAfterClose
PROPERTIES
  CallsEndWithoutLeaks
