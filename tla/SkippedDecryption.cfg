SPECIFICATION Spec
CONSTANTS
  Parts = {"image"}
  Contents = {"A", "B"}
  Images <- MCImages
  Signings <- MCSignings
  Destinations <- MCDestinations
  Compressions <- MCCompressions
  SourceLists <- MCSourceLists
  OptionSets <- MCOptionSets
  MaxMembers = 3
  MaxRequirements = 1
  IdentityDocs <- MCIdentityDocs
  NestedValues = {"empty", "set"}
  Policies <- MCPolicies
  CheckedImages <- MCCheckedImages
  Manifests = {"m1", "m2"}
  SignatureLists <- MCSignatureLists
  Certs <- MCCerts
  Wildcards <- MCWildcards
  MaxTime = 2
  MaxChanges = 2
  MaxCalls = 2
INVARIANT SkippedCopyIsNoOp
