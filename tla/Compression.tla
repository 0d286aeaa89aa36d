----------------------------- MODULE Compression -----------------------------
(***************************************************************************)
(* The compression algorithms and the manifest formats that the copy code  *)
(* and the blob info cache tell apart (pkg/compression,                    *)
(* internal/manifest/manifest.go).  Constant-level definitions only.       *)
(***************************************************************************)

(* Names stored in a blob info cache next to real algorithm names.         *)
Uncompressed == "uncompressed"
UnknownCompression == "unknown"

(* Algorithms that compression.AlgorithmByName resolves.  "zstd:chunked"   *)
(* is the only one that is a specific variant of another one.              *)
Algorithms == {"gzip", "bzip2", "xz", "zstd", "zstd:chunked"}

BaseVariantName(algo) == IF algo = "zstd:chunked" THEN "zstd" ELSE algo

(* A nil *Algorithm.                                                       *)
NoAlgorithm == "nil"

(* The manifest formats of a single image.                                 *)
V2S1 == "v2s1"
V2S1Signed == "v2s1+signed"
V2S2 == "v2s2"
OCI == "oci"
ImageFormats == {V2S1, V2S1Signed, V2S2, OCI}

CompressionAlgorithmIsUniversallySupported(algo) == algo = "gzip"

MIMETypeSupportsCompressionAlgorithm(mimeType, algo) ==
  \/ CompressionAlgorithmIsUniversallySupported(algo)
  \/ algo \in {"zstd", "zstd:chunked"} /\ mimeType = OCI

(* ReuseConditions: PossibleManifestFormats is a set, with AnyFormat for   *)
(* nil; RequiredCompression is an algorithm or NoAlgorithm.                *)
AnyFormat == {}

CandidateCompressionMatchesReuseConditions(c, candidate) ==
  /\ c.required # NoAlgorithm =>
       /\ candidate # NoAlgorithm
       /\ c.required \in {candidate, BaseVariantName(candidate)}
  /\ (c.formats # AnyFormat /\ candidate # NoAlgorithm) =>
       \E mt \in c.formats : MIMETypeSupportsCompressionAlgorithm(mt, candidate)
==============================================================================
