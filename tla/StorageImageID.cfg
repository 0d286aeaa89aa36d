SPECIFICATION Spec
CONSTANTS
  Blobs = {"plain", "chunked"}
  DiffIDs = {"d1", "d2"}
  TOCs = {"t1"}
  None = "none"
  N = 1
  LayerBlob <- MCLayerBlob
  BlobDiffID <- MCBlobDiffID
  BlobTOC <- MCBlobTOC
  Environments <- ConfigEnvironments
  InitialStores <- EmptyStore
  Images = 2
PROPERTIES
  ImageIDIdentifiesConfig
