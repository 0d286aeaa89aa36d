-------------------------- MODULE ManifestConversion --------------------------
(***************************************************************************)
(* copy/manifest.go: in which manifest formats to try to store an image,   *)
(* and in which order.  Constant-level definitions only.                   *)
(***************************************************************************)
EXTENDS Compression, SequencesExt

preferredManifestMIMETypes == <<V2S2, V2S1Signed>>
allManifestMIMETypes == <<OCI, V2S2, V2S1Signed, V2S1>>

(* forceManifestMIMEType = ""                                              *)
NoForce == "none"

MIMETypeSupportsEncryption(mimeType) == mimeType = OCI

(* in.destSupportedManifestMIMETypes, after its defaults.                  *)
destSupportedManifestMIMETypes(in) ==
  IF in.force # NoForce THEN <<in.force>>
  ELSE IF in.destTypes = <<>> THEN allManifestMIMETypes ELSE in.destTypes

(* The filter that computes supportedByDest.                               *)
Acceptable(in, t) ==
  /\ in.encryption => MIMETypeSupportsEncryption(t)
  /\ (in.compression # NoAlgorithm
        /\ ~CompressionAlgorithmIsUniversallySupported(in.compression)) =>
       MIMETypeSupportsCompressionAlgorithm(t, in.compression)

(* The order of preference: the source's own type, our preferred types,    *)
(* then whatever else the destination supports.  The candidates are at     *)
(* their places in this order; an orderedSet keeps the first of equals.    *)
orderOfPreference(in) == <<in.srcType>> \o preferredManifestMIMETypes \o destSupportedManifestMIMETypes(in)

supportedByDest(in) == {t \in ToSet(destSupportedManifestMIMETypes(in)) : Acceptable(in, t)}

prioritizedTypes(in) ==
  LET order == orderOfPreference(in)
      first == {k \in DOMAIN order : \A j \in 1..(k - 1) : order[j] # order[k]}
  IN [k \in {k \in first : order[k] \in supportedByDest(in)} |-> order[k]]

NoPlan == [ok |-> FALSE]

determineManifestConversion(in) ==
  LET types == prioritizedTypes(in)
      best == Min(DOMAIN types)
  IN IF supportedByDest(in) = {} THEN NoPlan
     ELSE IF in.cannotModify
     THEN [ok |-> TRUE, preferred |-> in.srcType, needsConversion |-> FALSE,
           others |-> <<>>]
     ELSE [ok |-> TRUE, preferred |-> types[best], needsConversion |-> types[best] # in.srcType,
           others |-> [k \in DOMAIN types \ {best} |-> types[k]]]
==============================================================================
