----------------------------- MODULE BlobPipeline -----------------------------
(***************************************************************************)
(* One blob going through copyBlobFromStream (copy/blob.go) with its       *)
(* decryption, compression and encryption steps (copy/encryption.go,       *)
(* copy/compression.go), the DiffID computation of copyLayer               *)
(* (copy/single.go), and the facts that are recorded in the blob info      *)
(* cache on the way.  BlobFacts assumes that only true facts are recorded; *)
(* here that is what has to be shown.                                      *)
(*                                                                         *)
(* A blob is identified with its digest, and is a sequence: a content, and *)
(* what was done to it, in order.  <<"A", "gzip", "enc">> is "A" in gzip,  *)
(* encrypted.  "zstd:chunked" is zstd data that a table of contents really *)
(* describes.  The manifest is written by somebody else: its media type    *)
(* and annotations may be wrong, and the source may serve a blob that the  *)
(* digest does not match.                                                  *)
(***************************************************************************)
EXTENDS Compression, SequencesExt

CONSTANT Contents

Formats == {"gzip", "zstd", "zstd:chunked"}

(* The blobs of an image; the pipeline can produce others.                 *)
SourceBlobs ==
  {<<c>> : c \in Contents} \cup {<<c, "enc">> : c \in Contents}
  \cup {<<c, f>> : c \in Contents, f \in Formats}
  \cup {<<c, f, "enc">> : c \in Contents, f \in Formats}
Blobs == Seq(Contents \cup Formats \cup {"enc"})

(* What can be seen in the data: its compression, if it is compressed now. *)
FormatOf(b) == IF Last(b) \in Formats THEN Last(b) ELSE "none"
IsEncrypted(b) == Last(b) = "enc"
Decompressed(b) == IF FormatOf(b) = "none" THEN b ELSE Front(b)
Converted(b, f) == IF f = "none" THEN Decompressed(b) ELSE Append(Decompressed(b), f)

(* The name a blob info cache has for the compression of a blob.           *)
CompressorName(f) == IF f = "none" THEN Uncompressed ELSE BaseVariantName(f)

(* Layer media types: of known compression variants, with the "+encrypted" *)
(* suffix, or anything else (CanChangeLayerCompression is false for both). *)
MediaTypes == {"layer", "layer+encrypted", "other"}
isOciEncrypted(mediaType) == mediaType = "layer+encrypted"
CanChangeLayerCompression(mediaType) == mediaType = "layer"

Jobs == [
  want : SourceBlobs,            \* srcInfo.Digest
  served : SourceBlobs,          \* what GetBlob returns
  mediaType : MediaTypes,
  claimsTOC : BOOLEAN,        \* annotations with a zstd:chunked TOC digest
  isConfig : BOOLEAN,
  cannotModify : BOOLEAN,     \* cannotModifyManifestReason != ""
  decryptConfig : BOOLEAN,    \* options.OciDecryptConfig != nil
  toEncrypt : BOOLEAN,        \* layersToEncrypt, with options.OciEncryptConfig
  desired : {"preserve", "compress", "decompress"},  \* DesiredLayerCompression
  compressionFormat : {NoAlgorithm, "gzip", "zstd", "zstd:chunked"},
  diffIDIsNeeded : BOOLEAN]

(* What the callers pass: configs are copied with isConfig and are neither *)
(* layers nor encrypted; DiffIDs are only needed to convert from schema1,  *)
(* which has no encrypted layers; copySingleImage replaces zstd:chunked by *)
(* zstd when layers are encrypted.                                         *)
PossibleJob(j) ==
  /\ j.served = j.want \/ (j.served[1] # j.want[1] /\ ~IsEncrypted(j.served))
  /\ j.isConfig => j.mediaType = "other" /\ ~j.toEncrypt /\ ~j.diffIDIsNeeded
  /\ j.diffIDIsNeeded => ~isOciEncrypted(j.mediaType)
  /\ j.toEncrypt => j.compressionFormat # "zstd:chunked"

NoCompressionStep == [operation |-> "none", srcBase |-> "", uploadedBase |-> "", specific |-> ""]

VARIABLES
  job,
  step,        \* the next step of the pipeline
  stream,      \* [blob: what stream.reader yields, known: stream.info.Digest is set]
  original,    \* the stream that is also sent to the DiffID computation
  decrypting, encrypting,
  detected,    \* blobPipelineDetectCompressionStep: a format
  compression, \* bpCompressionStepData
  validation,  \* digestingReader: "unknown", "succeeded" or "failed"
  uploaded,    \* {} or {uploadedInfo.Digest}
  edits,       \* the CompressionAlgorithm and CryptoOperation edits of uploadedInfo
  diffID,      \* {} or {the DiffID returned}
  pairs,       \* RecordDigestUncompressedPair calls
  tocs,        \* RecordTOCUncompressedPair calls
  compressors  \* RecordDigestCompressorData calls

records == <<pairs, tocs, compressors>>
vars == <<job, step, stream, original, decrypting, encrypting, detected, compression,
          validation, uploaded, edits, diffID, records>>

PipelineSteps == {"decrypt", "detect", "compress", "encrypt", "put", "drain", "finish",
                  "diffID", "done", "failed"}

TypeOK ==
  /\ job \in Jobs
  /\ step \in PipelineSteps
  /\ stream \in [blob : Blobs, known : BOOLEAN]
  /\ original \in Blobs
  /\ decrypting \in BOOLEAN /\ encrypting \in BOOLEAN
  /\ detected \in Formats \cup {"none"}
  /\ validation \in {"unknown", "succeeded", "failed"}
  /\ uploaded \in SUBSET Blobs /\ diffID \in SUBSET Blobs
  /\ pairs \subseteq Blobs \X Blobs
  /\ tocs \subseteq Blobs \X Blobs

Init ==
  /\ job \in {j \in Jobs : PossibleJob(j)}
  /\ step = "decrypt"
  /\ stream = [blob |-> job.served, known |-> TRUE]
  /\ original = job.served
  /\ decrypting = FALSE /\ encrypting = FALSE
  /\ detected = "none"
  /\ compression = NoCompressionStep
  /\ validation = "unknown"
  /\ uploaded = {} /\ diffID = {}
  /\ edits = [algorithm |-> NoAlgorithm, crypto |-> "preserve"]
  /\ pairs = {} /\ tocs = {} /\ compressors = {}

Fail == step' = "failed"

(* blobPipelineDecryptionStep.  Decrypting data that is not encrypted      *)
(* fails.                                                                  *)
Decrypt ==
  /\ step = "decrypt"
  /\ IF ~isOciEncrypted(job.mediaType) \/ ~job.decryptConfig
     THEN step' = "detect" /\ UNCHANGED <<stream, original, decrypting>>
     ELSE IF job.cannotModify \/ ~IsEncrypted(stream.blob)
     THEN Fail /\ UNCHANGED <<stream, original, decrypting>>
     ELSE /\ stream' = [blob |-> Front(stream.blob), known |-> FALSE]
          /\ original' = stream'.blob
          /\ decrypting' = TRUE
          /\ step' = "detect"
  /\ UNCHANGED <<job, encrypting, detected, compression, validation, uploaded, edits,
                 diffID, records>>

(* blobPipelineDetectCompressionStep: looks at the data, and believes the  *)
(* annotations about zstd:chunked.                                         *)
Detect ==
  /\ step = "detect"
  /\ detected' = IF FormatOf(stream.blob) \in {"zstd", "zstd:chunked"}
                 THEN IF job.claimsTOC THEN "zstd:chunked" ELSE "zstd"
                 ELSE FormatOf(stream.blob)
  /\ step' = "compress"
  /\ UNCHANGED <<job, stream, original, decrypting, encrypting, compression, validation,
                 uploaded, edits, diffID, records>>

SpecificVariantName(algo) ==
  IF algo = BaseVariantName(algo) THEN UnknownCompression ELSE algo

(* Mutation: a conversion does not say which algorithm it used.            *)
ConvertingSilently(operation, algorithm) ==
  [operation |-> operation, algorithm |-> NoAlgorithm,
   srcBase |-> CompressorName(detected),
   uploadedBase |-> IF algorithm = NoAlgorithm THEN Uncompressed ELSE BaseVariantName(algorithm),
   specific |-> UnknownCompression]

(* The bpCompressionStepData of the bpc* functions.                        *)
Preserving(operation, algorithm) ==
  [operation |-> operation, algorithm |-> algorithm,
   srcBase |-> CompressorName(detected),
   uploadedBase |-> CompressorName(detected),
   specific |-> UnknownCompression]

Converting(operation, algorithm) ==
  [operation |-> operation, algorithm |-> algorithm,
   srcBase |-> CompressorName(detected),
   uploadedBase |-> IF algorithm = NoAlgorithm THEN Uncompressed ELSE BaseVariantName(algorithm),
   specific |-> IF algorithm = NoAlgorithm THEN UnknownCompression
                ELSE SpecificVariantName(algorithm)]

canModifyBlob == ~job.isConfig /\ ~job.cannotModify

MayChangeCompression == canModifyBlob /\ CanChangeLayerCompression(job.mediaType)

(* The conversion the first applicable bpc* function chooses: the format   *)
(* to store, or "keep".  bpcPreserveEncrypted is never applicable here,    *)
(* because CanChangeLayerCompression is false for encrypted media types.   *)
TargetFormat ==
  CASE job.desired = "compress" /\ detected = "none" ->
         IF job.compressionFormat = NoAlgorithm THEN "gzip" ELSE job.compressionFormat
    [] job.desired = "compress" /\ detected # "none"
       /\ job.compressionFormat \notin {NoAlgorithm, detected, BaseVariantName(detected)} ->
         job.compressionFormat
    [] job.desired = "decompress" /\ detected # "none" -> "none"
    [] OTHER -> "keep"

(* blobPipelineCompressionStep                                             *)
Compress ==
  /\ step = "compress"
  /\ IF MayChangeCompression /\ TargetFormat # "keep"
     THEN /\ stream' = [blob |-> Converted(stream.blob, TargetFormat), known |-> FALSE]
          /\ compression' =
               Converting(CASE TargetFormat = "none" -> "decompressCompressed"
                            [] TargetFormat # "none" /\ detected = "none" -> "compressUncompressed"
                            [] OTHER -> "recompressCompressed",
                          IF TargetFormat = "none" THEN NoAlgorithm ELSE TargetFormat)
     ELSE /\ compression' =
               CASE ~CanChangeLayerCompression(job.mediaType) ->
                      Preserving("preserveOpaque", NoAlgorithm)
                 [] CanChangeLayerCompression(job.mediaType) /\ detected # "none" ->
                      Preserving("preserveCompressed", detected)
                 [] OTHER -> Preserving("preserveUncompressed", NoAlgorithm)
          /\ UNCHANGED stream
  /\ step' = "encrypt"
  /\ UNCHANGED <<job, original, decrypting, encrypting, detected, validation, uploaded,
                 edits, diffID, records>>

(* blobPipelineEncryptionStep, after the check that decryption and         *)
(* encryption are not combined.                                            *)
Encrypt ==
  /\ step = "encrypt"
  /\ IF decrypting /\ job.toEncrypt
     THEN Fail /\ UNCHANGED <<stream, encrypting>>
     ELSE IF ~job.toEncrypt \/ isOciEncrypted(job.mediaType)
     THEN step' = "put" /\ UNCHANGED <<stream, encrypting>>
     ELSE IF job.cannotModify
     THEN Fail /\ UNCHANGED <<stream, encrypting>>
     ELSE /\ stream' = [blob |-> Append(stream.blob, "enc"), known |-> FALSE]
          /\ encrypting' = TRUE
          /\ step' = "put"
  /\ UNCHANGED <<job, original, decrypting, detected, compression, validation, uploaded,
                 edits, diffID, records>>

(* Mutation: the digest is not compared.                                   *)
AcceptedAtEOF == "succeeded"

(* digestingReader at the end of the source's data.                        *)
ValidatedAtEOF == IF job.served = job.want THEN "succeeded" ELSE "failed"

(* dest.PutBlobWithOptions: it fails, or finds a blob with the digest it   *)
(* was given and need not read the stream to its end, or reads all of it.  *)
PutBlob ==
  /\ step = "put"
  /\ \/ Fail /\ UNCHANGED <<validation, uploaded>>
     \/ /\ stream.known
        /\ uploaded' = {job.want}
        /\ step' = "drain"
        /\ UNCHANGED validation
     \/ /\ validation' = ValidatedAtEOF
        /\ uploaded' = IF ValidatedAtEOF = "failed" THEN {} ELSE {stream.blob}
        /\ step' = IF ValidatedAtEOF = "failed" THEN "failed" ELSE "drain"
  /\ edits' = [algorithm |-> compression.algorithm,
               crypto |-> CASE encrypting -> "encrypt" [] decrypting -> "decrypt"
                            [] OTHER -> "preserve"]
  /\ UNCHANGED <<job, stream, original, decrypting, encrypting, detected, compression,
                 diffID, records>>

(* Reading the rest of the original layer for the DiffID.                  *)
Drain ==
  /\ step = "drain"
  /\ validation' = IF job.diffIDIsNeeded THEN ValidatedAtEOF ELSE validation
  /\ step' = IF validation' = "failed" THEN "failed" ELSE "finish"
  /\ UNCHANGED <<job, stream, original, decrypting, encrypting, detected, compression,
                 uploaded, edits, diffID, records>>

(* Mutation: encryption is not looked at.                                  *)
RecordPairsOfEncrypted(u) ==
  /\ pairs' = pairs \cup
       CASE compression.operation = "compressUncompressed" -> {<<u, job.want>>}
         [] compression.operation = "decompressCompressed" -> {<<job.want, u>>}
         [] OTHER -> {}
  /\ UNCHANGED tocs

(* recordValidatedDigestData, for the blob u that was uploaded.            *)
RecordPairs(u) ==
  IF encrypting \/ decrypting THEN UNCHANGED <<pairs, tocs>>
  ELSE /\ pairs' = pairs \cup
            CASE compression.operation = "compressUncompressed" -> {<<u, job.want>>}
              [] compression.operation = "decompressCompressed" -> {<<job.want, u>>}
              [] compression.operation = "preserveUncompressed" -> {<<job.want, job.want>>}
              [] OTHER -> {}
       /\ tocs' = IF /\ compression.operation = "compressUncompressed"
                     /\ compression.specific = "zstd:chunked"
                  THEN tocs \cup {<<u, job.want>>} ELSE tocs

RecordCompressors(u) ==
  compressors' = compressors
    \cup {[digest |-> u, base |-> compression.uploadedBase, specific |-> compression.specific]}
    \cup IF job.want = u THEN {}
         ELSE {[digest |-> job.want, base |-> compression.srcBase,
                specific |-> UnknownCompression]}

Finish ==
  /\ step = "finish"
  /\ \E u \in uploaded :
       IF stream.known /\ u # job.want
       THEN Fail /\ UNCHANGED records
       ELSE /\ step' = "diffID"
            /\ IF validation = "succeeded" THEN RecordPairs(u) /\ RecordCompressors(u)
               ELSE UNCHANGED records
  /\ UNCHANGED <<job, stream, original, decrypting, encrypting, detected, compression,
                 validation, uploaded, edits, diffID>>

encryptingOrDecrypting ==
  job.toEncrypt \/ (isOciEncrypted(job.mediaType) /\ job.decryptConfig)

(* The end of copyLayer: the DiffID of the original layer is recorded.     *)
DiffID ==
  /\ step = "diffID"
  /\ IF job.diffIDIsNeeded
     THEN /\ diffID' = {Decompressed(original)}
          /\ pairs' = IF encryptingOrDecrypting THEN pairs
                      ELSE pairs \cup {<<job.want, Decompressed(original)>>}
     ELSE UNCHANGED <<diffID, pairs>>
  /\ step' = "done"
  /\ UNCHANGED <<job, stream, original, decrypting, encrypting, detected, compression,
                 validation, uploaded, edits, tocs, compressors>>

Stopped == step \in {"done", "failed"} /\ UNCHANGED vars

Next == Decrypt \/ Detect \/ Compress \/ Encrypt \/ PutBlob \/ Drain \/ Finish
        \/ DiffID \/ Stopped

Spec == Init /\ [][Next]_vars

-----------------------------------------------------------------------------
(* Properties *)

(* Every uncompressed-digest pair recorded is true, whatever the manifest  *)
(* claims and the source serves: the blob really decompresses to the other.*)
PairsAreTrue == \A p \in pairs \cup tocs : p[2] = Decompressed(p[1])

(* No such pair is recorded for a blob that is encrypted or comes out of   *)
(* decryption, where that is known from the media type.                    *)
NoPairsOfEncryptedBlobs ==
  isOciEncrypted(job.mediaType) = IsEncrypted(job.want) =>
    \A p \in pairs : ~IsEncrypted(p[1]) /\ ~IsEncrypted(job.want)

(* Every compressor recorded for a blob that is not encrypted is the       *)
(* blob's own, and a specific variant or a table of contents is only       *)
(* recorded for data we compressed, never because an annotation claims it. *)
CompressorsAreTrue ==
  /\ \A r \in compressors : ~IsEncrypted(r.digest) =>
       /\ r.base = CompressorName(FormatOf(r.digest))
       /\ r.specific # UnknownCompression => r.specific = FormatOf(r.digest)
  /\ \A p \in tocs : FormatOf(p[1]) = "zstd:chunked"

(* A blob that was copied holds the content the manifest's digest stands   *)
(* for, however it was decrypted, converted and encrypted: content that    *)
(* does not match the digest never ends up under another digest.           *)
UploadHasWantedContent ==
  step = "done" => \A u \in uploaded : u[1] = job.want[1]

(* If the manifest cannot be modified, the blob stored is the one the      *)
(* manifest names.                                                         *)
DigestKeptIfCannotModify ==
  step = "done" /\ job.cannotModify => uploaded = {job.want}

(* The edits handed to UpdatedImage describe the blob that was stored: the *)
(* algorithm is, up to the variant, the compression of what is stored,     *)
(* before its encryption; and the crypto operation is what happened to the *)
(* wanted blob.                                                            *)
EditsDescribeUpload ==
  (step = "done" /\ validation = "succeeded"
     /\ isOciEncrypted(job.mediaType) = IsEncrypted(job.want)) =>
    \A u \in uploaded :
      LET data == IF IsEncrypted(u) THEN Front(u) ELSE u
      IN /\ edits.crypto = CASE IsEncrypted(u) = IsEncrypted(job.want) -> "preserve"
                             [] IsEncrypted(u) /\ ~IsEncrypted(job.want) -> "encrypt"
                             [] OTHER -> "decrypt"
         /\ CanChangeLayerCompression(job.mediaType) =>
              IF edits.algorithm = NoAlgorithm THEN FormatOf(data) = "none"
              ELSE BaseVariantName(edits.algorithm) = BaseVariantName(FormatOf(data))

(* A DiffID is the digest of the uncompressed content of the wanted blob.  *)
DiffIDIsTrue == \A d \in diffID : d = Decompressed(job.want)

(* Whatever the cache is told about blobs is true, and said of blobs that  *)
(* are not encrypted.                                                      *)
RecordsAreTrue == TypeOK /\ PairsAreTrue /\ NoPairsOfEncryptedBlobs /\ CompressorsAreTrue

(* What is stored is what was asked for.                                   *)
UploadIsWanted == UploadHasWantedContent /\ DigestKeptIfCannotModify

(* What is returned about the blob is true of what was stored.             *)
ResultDescribesUpload == EditsDescribeUpload /\ DiffIDIsTrue
==============================================================================
