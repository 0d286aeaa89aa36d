SPECIFICATION Spec
CONSTANTS
  Blobs = {"plain", "chunked"}
  DiffIDs = {"d1", "d2"}
  TOCs = {"t1"}
  None = "none"
  N = 2
  LayerBlob <- MCLayerBlob
  BlobDiffID <- MCBlobDiffID
  BlobTOC <- MCBlobTOC
  Environments <- MCEnvironments
  InitialStores <- MCInitialStores
  Images = 2
INVARIANTS
  CommitQueueIsSound
  LayersAreAuthentic
PROPERTIES
  EveryImageIsDecided
