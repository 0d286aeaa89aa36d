----------------------------- MODULE ImageUpdate -----------------------------
(***************************************************************************)
(* UpdatedImage of the three manifest formats (internal/image) and         *)
(* UpdateLayerInfos (manifest): how a manifest is converted to another     *)
(* format, and how the edits a copy made to its layers change their media  *)
(* types.  Constant-level definitions only.                                *)
(*                                                                         *)
(* A media type says whether the layer is non-distributable ("foreign"),   *)
(* how it is compressed and whether it is encrypted.  Schema1 has no media *)
(* types.  An edit is what a types.BlobInfo says about the uploaded layer. *)
(***************************************************************************)
EXTENDS Compression, Sequences, Integers

MediaTypes == [foreign : BOOLEAN, comp : {"none", "gzip", "zstd"}, enc : BOOLEAN]
NoMediaType == [foreign |-> FALSE, comp |-> "any", enc |-> FALSE]

isSchema1(format) == format \in {V2S1, V2S1Signed}

Edits == [op : {"preserve", "compress", "decompress"},
          algorithm : Algorithms \cup {NoAlgorithm},
          crypto : {"preserve", "encrypt", "decrypt"}]

(* options.LayerInfos = nil; images have at least one layer.               *)
NoEdits == <<>>

(* Results: a value, or an error that is a                                 *)
(* ManifestLayerCompressionIncompatibilityError or another one.            *)
Ok(v) == [ok |-> TRUE, value |-> v]
Incompatible == [ok |-> FALSE, incompatible |-> TRUE]
Error == [ok |-> FALSE, incompatible |-> FALSE]
AndThen(result, Use(_)) == IF result.ok THEN Use(result.value) ELSE result

-----------------------------------------------------------------------------
(* Media types *)

(* The {oci1,schema2,schema1}CompressionMIMETypeSets.                      *)
SupportedVariants(format) ==
  IF format = OCI THEN {"none", "gzip", "zstd"} ELSE {"none", "gzip"}

(* Encrypted media types have no compression variants.                     *)
compressionVariantMIMEType(format, mt, algorithm) ==
  LET name == IF algorithm = NoAlgorithm THEN "none" ELSE BaseVariantName(algorithm)
  IN IF mt.enc THEN Error
     ELSE IF name \notin SupportedVariants(format) THEN Incompatible
     ELSE Ok(IF isSchema1(format) THEN NoMediaType ELSE [mt EXCEPT !.comp = name])

updatedMIMEType(format, mt, edit) ==
  IF edit.op # "decompress" /\ edit.algorithm = NoAlgorithm THEN Ok(mt)
  ELSE compressionVariantMIMEType(format, mt,
         IF edit.op = "decompress" THEN NoAlgorithm ELSE edit.algorithm)

UpdateLayerInfo(format, mt, edit) ==
  IF format # OCI
  THEN AndThen(updatedMIMEType(format, mt, edit),
         LAMBDA new : IF edit.crypto # "preserve" THEN Error ELSE Ok(new))
  ELSE IF edit.crypto = "decrypt" /\ ~mt.enc THEN Error
  ELSE AndThen(updatedMIMEType(OCI, [mt EXCEPT !.enc = @ /\ edit.crypto # "decrypt"], edit),
         LAMBDA new : IF edit.crypto # "encrypt" THEN Ok(new)
                      ELSE IF new.enc THEN Error
                      ELSE Ok([new EXCEPT !.enc = TRUE]))

(* All of results, or the first error among them.                          *)
Collect(results) ==
  IF \A i \in DOMAIN results : results[i].ok
  THEN Ok([i \in DOMAIN results |-> results[i].value])
  ELSE results[CHOOSE i \in DOMAIN results :
                 ~results[i].ok /\ \A j \in 1..(i - 1) : results[j].ok]

UpdateLayerInfos(format, layers, edits) ==
  Collect([i \in DOMAIN layers |-> UpdateLayerInfo(format, layers[i], edits[i])])

-----------------------------------------------------------------------------
(* Conversions.  They yield the layers in the new format, and the edits    *)
(* that are still to be made there.                                        *)

Converted(layers, edits) == Ok([layers |-> layers, edits |-> edits])

(* manifestOCI1.layerEditsOfOCIOnlyFeatures: what Docker formats cannot    *)
(* represent is edited before the conversion, the rest after it.           *)
EarlyEdit(mt, edit) ==
  [op |-> IF mt.comp = "zstd" /\ ~mt.enc THEN edit.op ELSE "preserve",
   algorithm |-> IF mt.comp = "zstd" /\ ~mt.enc THEN edit.algorithm ELSE NoAlgorithm,
   crypto |-> IF edit.crypto = "decrypt" THEN "decrypt" ELSE "preserve"]
LateEdit(mt, edit) ==
  [op |-> IF mt.comp = "zstd" /\ ~mt.enc THEN "preserve" ELSE edit.op,
   algorithm |-> IF mt.comp = "zstd" /\ ~mt.enc THEN NoAlgorithm ELSE edit.algorithm,
   crypto |-> IF edit.crypto = "decrypt" THEN "preserve" ELSE edit.crypto]

OCIToSchema2(artifact, layers, edits) ==
  IF artifact THEN Error
  ELSE AndThen(IF edits = NoEdits THEN Ok(layers)
               ELSE UpdateLayerInfos(OCI, layers,
                      [i \in DOMAIN edits |-> EarlyEdit(layers[i], edits[i])]),
         LAMBDA early :
           IF \E i \in DOMAIN early : early[i].enc \/ early[i].comp = "zstd" THEN Error
           ELSE Converted(early, [i \in DOMAIN edits |-> LateEdit(layers[i], edits[i])]))

(* Schema1 layers are taken to be gzip.                                    *)
Schema1ToSchema2(layers, edits) ==
  Converted([i \in DOMAIN layers |-> [foreign |-> FALSE, comp |-> "gzip", enc |-> FALSE]],
            edits)

Schema2ToSchema1(layers, edits) ==
  Converted([i \in DOMAIN layers |-> NoMediaType], edits)

Schema2ToOCI(layers, edits) == Converted(layers, edits)

(* The other conversions go through schema2.                               *)
ConvertToSchema2(image, edits) ==
  IF image.format = OCI THEN OCIToSchema2(image.artifact, image.layers, edits)
  ELSE IF isSchema1(image.format) THEN Schema1ToSchema2(image.layers, edits)
  ELSE Converted(image.layers, edits)

Convert(image, target, edits) ==
  IF target = image.format THEN Error   \* Unsupported conversion type
  ELSE AndThen(ConvertToSchema2(image, edits),
         LAMBDA schema2 :
           CASE target = V2S2 -> Ok(schema2)
             [] target = OCI -> Schema2ToOCI(schema2.layers, schema2.edits)
             [] isSchema1(target) -> Schema2ToSchema1(schema2.layers, schema2.edits))

(* UpdatedImage: target is NoConversion for ManifestMIMEType = "".  The    *)
(* result keeps the schema1 MIME type the source had: both mean the same.  *)
NoConversion == "none"

UpdatedImage(image, target, edits) ==
  LET converts == target # NoConversion
                  /\ ~(isSchema1(image.format) /\ isSchema1(target))
      format == IF converts THEN target ELSE image.format
  IN AndThen(IF converts THEN Convert(image, target, edits)
             ELSE Converted(image.layers, edits),
       LAMBDA new :
         AndThen(IF new.edits = NoEdits THEN Ok(new.layers)
                 ELSE UpdateLayerInfos(format, new.layers, new.edits),
           LAMBDA layers : Ok([format |-> format, layers |-> layers])))

(* Only a conversion from schema1 needs the layers' DiffIDs.               *)
UpdatedImageNeedsLayerDiffIDs(format, target) ==
  isSchema1(format) /\ target \in {V2S2, OCI}

CanChangeLayerCompression(image, mt) ==
  isSchema1(image.format) \/ (~mt.enc /\ ~image.artifact)
==============================================================================
