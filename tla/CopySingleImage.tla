--------------------------- MODULE CopySingleImage ---------------------------
(***************************************************************************)
(* copySingleImage (copy/single.go): one image, from the policy check to   *)
(* its signatures.  The choice of manifest formats is ManifestConversion,  *)
(* the manifest edits are ImageUpdate.  The layers are copied in one step  *)
(* here; CopyImages has their concurrency, BlobPipeline the data.          *)
(*                                                                         *)
(* A blob is described by its media type: what is really in it.  The       *)
(* manifest of the source describes its layers correctly (schema1: they    *)
(* are gzip), but containers-storage serves them uncompressed, and says so *)
(* in LayerInfosForCopy.                                                   *)
(***************************************************************************)
EXTENDS ManifestConversion, ImageUpdate

CONSTANTS
  Images,        \* source images: [format, layers, artifact]
  Signings,      \* [sigs: the source has signatures, to be copied,
                 \*  signs: the copy is signed (c.signers),
                 \*  pinned: the destination has a digest, or PreserveDigests]
  Destinations,  \* [types: SupportedManifestMIMETypes, force: ForceManifestMIMEType]
  Compressions   \* [algo: the compression format, required: requireCompressionFormatMatch]

(* A job: the source image and the options of the copy.                    *)
Jobs == [
  image : Images, signing : Signings, dest : Destinations, compression : Compressions,
  uncompressed : BOOLEAN,     \* LayerInfosForCopy reports uncompressed layers
  desired : {"preserve", "compress", "decompress"},  \* DesiredLayerCompression
  decrypt : BOOLEAN,          \* OciDecryptConfig is set
  encrypt : {{}, {1}},        \* the layers to encrypt; {} if OciEncryptLayers = nil
  optimize : BOOLEAN,         \* OptimizeDestinationImageAlreadyExists
  present : BOOLEAN,          \* the destination has a manifest with the same digest
  conflict : BOOLEAN,         \* the embedded Docker reference has to be changed
  skipForeign : BOOLEAN]      \* the foreign layers have URLs, which the destination
                              \* accepts, and DownloadForeignLayers is off

(* containers-storage holds images, not artifacts: bpcPreserveOriginal     *)
(* relies on LayerInfosForCopy not changing those.                         *)
PossibleJob(j) ==
  /\ j.conflict => isSchema1(j.image.format)
  /\ j.image.artifact => j.image.format = OCI /\ ~j.uncompressed
  /\ \A i \in DOMAIN j.image.layers :
       LET mt == j.image.layers[i]
       IN /\ isSchema1(j.image.format) <=> mt = NoMediaType
          /\ j.image.format = V2S2 => ~mt.enc /\ mt.comp # "zstd"
          /\ j.uncompressed => ~mt.enc
  /\ j.present => j.optimize
  /\ j.skipForeign => \E i \in DOMAIN j.image.layers : j.image.layers[i].foreign

VARIABLES
  job,
  step,
  format,       \* ic.compressionFormat
  plan,         \* ic.manifestConversionPlan
  updates,      \* ic.manifestUpdates: [mime, edits, embedded]
  blobs,        \* the layers at the destination; <<>> until copied
  attempts,     \* the formats tried, in order
  at,           \* the place of the format to try in plan.others, 0 for the preferred one
  rejected,     \* the first attempt failed because of the format
  put,          \* {} or {the manifest stored}
  result,       \* {} or {the MIME type returned}
  skipped,      \* returned without copying anything
  sigsPut       \* the source's signatures were stored

vars == <<job, step, format, plan, updates, blobs, attempts, at, rejected, put,
          result, skipped, sigsPut>>

Steps == {"policy", "read", "plan", "optimize", "layers", "manifest", "sign",
          "done", "failed"}

TypeOK ==
  /\ job \in Jobs
  /\ step \in Steps
  /\ rejected \in BOOLEAN /\ skipped \in BOOLEAN
  /\ sigsPut \in BOOLEAN
  /\ format \in Algorithms \cup {NoAlgorithm}
  /\ updates.mime \in ImageFormats \cup {NoConversion}
  /\ updates.edits \in Seq(Edits)
  /\ updates.embedded \in BOOLEAN
  /\ blobs \in Seq(MediaTypes)
  /\ attempts \in Seq(ImageFormats) /\ at \in Nat
  /\ result \subseteq ImageFormats

Init ==
  /\ job \in Jobs /\ PossibleJob(job)
  /\ step = "policy"
  /\ format = job.compression.algo
  /\ plan = NoPlan
  /\ updates = [mime |-> NoConversion, edits |-> NoEdits, embedded |-> FALSE]
  /\ blobs = <<>> /\ attempts = <<>> /\ at = 0 /\ rejected = FALSE
  /\ put = {} /\ result = {} /\ skipped = FALSE /\ sigsPut = FALSE

Fail == step' = "failed"

cannotModifyManifest == job.signing.sigs \/ job.signing.pinned
canSubstituteBlobs == ~cannotModifyManifest /\ ~job.signing.signs

isEncrypted(layers) == \E i \in DOMAIN layers : layers[i].enc
destRequiresOciEncryption ==
  (isEncrypted(job.image.layers) /\ ~job.decrypt) \/ job.encrypt # {}

-----------------------------------------------------------------------------
(* Before anything is copied *)

CheckPolicy ==
  /\ step = "policy"
  /\ Fail \/ step' = "read"
  /\ UNCHANGED <<job, format, plan, updates, blobs, attempts, at, rejected, put, result,
                 skipped, sigsPut>>

(* FromUnparsedImage, the digest of the destination reference, the config, *)
(* the signatures; then zstd:chunked is replaced if layers are encrypted.  *)
ReadImage ==
  /\ step = "read"
  /\ \/ Fail /\ UNCHANGED format
     \/ /\ job.encrypt # {} /\ format = "zstd:chunked"
        /\ step' = IF job.compression.required THEN "failed" ELSE "plan"
        /\ format' = "zstd"
     \/ /\ ~(job.encrypt # {} /\ format = "zstd:chunked")
        /\ step' = "plan" /\ UNCHANGED format
  /\ UNCHANGED <<job, plan, updates, blobs, attempts, at, rejected, put, result,
                 skipped, sigsPut>>

(* updateEmbeddedDockerReference, determineManifestConversion              *)
Plan ==
  LET p == determineManifestConversion(
             [srcType |-> job.image.format, destTypes |-> job.dest.types,
              force |-> job.dest.force, compression |-> format,
              encryption |-> destRequiresOciEncryption,
              cannotModify |-> cannotModifyManifest])
  IN /\ step = "plan"
     /\ IF (job.conflict /\ cannotModifyManifest) \/ ~p.ok
        THEN Fail /\ UNCHANGED <<plan, updates>>
        ELSE /\ plan' = p
             /\ updates' = [mime |-> IF p.needsConversion THEN p.preferred ELSE NoConversion,
                            edits |-> NoEdits, embedded |-> job.conflict]
             /\ step' = "optimize"
     /\ UNCHANGED <<job, format, blobs, attempts, at, rejected, put, result,
                    skipped, sigsPut>>

diffIDsAreNeeded ==
  UpdatedImageNeedsLayerDiffIDs(job.image.format,
    IF plan.needsConversion THEN plan.preferred ELSE NoConversion)

noPendingManifestUpdates ==
  updates.mime = NoConversion /\ updates.edits = NoEdits /\ ~updates.embedded

(* compareImageDestinationManifestEqual, which may also fail.              *)
Optimize ==
  LET considered == /\ job.optimize
                    /\ ~job.signing.sigs /\ ~job.signing.signs
                    /\ ~destRequiresOciEncryption
                    /\ noPendingManifestUpdates /\ ~job.compression.required
  IN /\ step = "optimize"
     /\ \/ considered /\ Fail /\ UNCHANGED <<result, skipped>>
        \/ /\ considered /\ job.present
           /\ skipped' = TRUE
           /\ result' = {job.image.format}
           /\ step' = "done"
        \/ /\ ~(considered /\ job.present)
           /\ step' = "layers" /\ UNCHANGED <<result, skipped>>
     /\ UNCHANGED <<job, format, plan, updates, blobs, attempts, at, rejected, put,
                    sigsPut>>

-----------------------------------------------------------------------------
(* copyLayers, copyLayer *)

(* The layer as the source serves it, and what its BlobInfo says of it.    *)
SourceBlob(i) ==
  LET mt == job.image.layers[i]
  IN CASE job.uncompressed -> [foreign |-> mt.foreign, comp |-> "none", enc |-> FALSE]
       [] ~job.uncompressed /\ mt = NoMediaType ->
            [foreign |-> FALSE, comp |-> "gzip", enc |-> FALSE]
       [] OTHER -> mt
SourceInfoType(i) ==
  IF job.uncompressed THEN [foreign |-> FALSE, comp |-> "none", enc |-> FALSE]
  ELSE job.image.layers[i]

Edit(op, algorithm, crypto) == [op |-> op, algorithm |-> algorithm, crypto |-> crypto]

(* Mutation: the media type is ignored.                                    *)
compressionEditsIgnored(mt) == Edit("preserve", NoAlgorithm, "preserve")

compressionEditsFromBlobInfo(mt) ==
  IF mt.foreign \/ mt.enc \/ mt = NoMediaType THEN Edit("preserve", NoAlgorithm, "preserve")
  ELSE IF mt.comp = "none" THEN Edit("decompress", NoAlgorithm, "preserve")
  ELSE Edit("preserve", mt.comp, "preserve")

Decrypts(i) == SourceInfoType(i).enc /\ job.decrypt
Encrypts(i) == i \in job.encrypt

(* TryReusingBlobWithOptions finds the blob itself, or a substitute that   *)
(* some of the possible manifest formats can express; PutBlobPartial is    *)
(* like the former.                                                        *)
ReusedLayers(i) ==
  LET own == compressionEditsFromBlobInfo(SourceInfoType(i))
      conditions == [formats |-> {plan.preferred} \cup ToSet(plan.others),
                     required |-> IF job.compression.required THEN format ELSE NoAlgorithm]
      Allowed(algo) == CandidateCompressionMatchesReuseConditions(conditions, algo)
      AlgorithmOf(c) == IF c = "none" THEN NoAlgorithm ELSE c
      canSubstitute == /\ canSubstituteBlobs
                       /\ CanChangeLayerCompression(job.image, SourceInfoType(i))
  IN (IF Allowed(own.algorithm)
      THEN {[blob |-> SourceBlob(i), edit |-> own, changed |-> FALSE]} ELSE {})
     \cup
     {[blob |-> [SourceBlob(i) EXCEPT !.comp = c],
       edit |-> Edit(IF c = "none" THEN "decompress" ELSE "compress", AlgorithmOf(c), "preserve"),
       changed |-> TRUE] :
        c \in {c \in {"none", "gzip", "zstd"} : canSubstitute /\ Allowed(AlgorithmOf(c))}}

(* copyBlobFromStream: the compression the first applicable bpc* function  *)
(* chooses for data in format detected; "keep" otherwise.                  *)
TargetFormat(detected) ==
  CASE job.desired = "compress" /\ detected = "none" ->
         IF format = NoAlgorithm THEN "gzip" ELSE format
    [] job.desired = "compress" /\ detected # "none"
       /\ format \notin {NoAlgorithm, detected} -> format
    [] job.desired = "decompress" /\ detected # "none" -> "none"
    [] OTHER -> "keep"

(* zstd:chunked data is zstd data.                                         *)
CompOf(f) == IF f = "none" THEN "none" ELSE BaseVariantName(f)

StreamedLayers(i) ==
  LET src == SourceBlob(i)
      detected == IF src.enc /\ ~Decrypts(i) THEN "none" ELSE src.comp
      mayChange == CanChangeLayerCompression(job.image, SourceInfoType(i))
      target == IF mayChange /\ ~cannotModifyManifest THEN TargetFormat(detected) ELSE "keep"
      encrypts == Encrypts(i) /\ ~SourceInfoType(i).enc
      fails == \/ Decrypts(i) /\ (cannotModifyManifest \/ Encrypts(i))
               \/ encrypts /\ cannotModifyManifest
      crypto == IF encrypts THEN "encrypt" ELSE IF Decrypts(i) THEN "decrypt" ELSE "preserve"
      edit == IF target = "keep"
              THEN CASE ~mayChange -> Edit("preserve", NoAlgorithm, crypto)
                     [] mayChange /\ detected # "none" -> Edit("preserve", detected, crypto)
                     [] OTHER -> Edit("decompress", NoAlgorithm, crypto)
              ELSE IF target = "none" THEN Edit("decompress", NoAlgorithm, crypto)
              ELSE Edit("compress", target, crypto)
  IN IF fails THEN {}
     ELSE {[blob |-> [src EXCEPT !.comp = IF target = "keep" THEN @ ELSE CompOf(target),
                                 !.enc = (@ /\ ~Decrypts(i)) \/ encrypts],
            edit |-> edit,
            changed |-> target # "keep" \/ encrypts \/ Decrypts(i)]}

(* copyLayers skips a foreign layer before copyLayer looks at encryption;  *)
(* the layers that LayerInfosForCopy reports uncompressed have no URLs.    *)
Skips(i) == job.skipForeign /\ SourceInfoType(i).foreign
SkippedLayers(i) ==
  IF diffIDsAreNeeded THEN {}
  ELSE {[blob |-> SourceBlob(i), edit |-> Edit("preserve", NoAlgorithm, "preserve"),
         changed |-> FALSE]}

(* Mutation: layers to be encrypted or decrypted may be reused.            *)
CopiedLayersReusingEncrypted(i) ==
  IF Skips(i) THEN SkippedLayers(i) ELSE StreamedLayers(i) \cup ReusedLayers(i)

(* A cached DiffID makes reuse possible where DiffIDs are needed.          *)
CopiedLayers(i) ==
  IF Skips(i) THEN SkippedLayers(i)
  ELSE IF Encrypts(i) \/ Decrypts(i) THEN StreamedLayers(i)
  ELSE StreamedLayers(i) \cup ReusedLayers(i)

CopyLayers ==
  /\ step = "layers"
  /\ \/ Fail /\ UNCHANGED <<updates, blobs>>
     \/ /\ ~(job.uncompressed /\ cannotModifyManifest)
        /\ \E copied \in [DOMAIN job.image.layers -> UNION {CopiedLayers(i) : i \in DOMAIN job.image.layers}] :
             /\ \A i \in DOMAIN copied : copied[i] \in CopiedLayers(i)
             /\ blobs' = [i \in DOMAIN copied |-> copied[i].blob]
             /\ updates' = [updates EXCEPT !.edits =
                  IF job.uncompressed \/ \E i \in DOMAIN copied : copied[i].changed
                  THEN [i \in DOMAIN copied |-> copied[i].edit] ELSE NoEdits]
        /\ step' = "manifest"
  /\ UNCHANGED <<job, format, plan, attempts, at, rejected, put, result, skipped,
                 sigsPut>>

-----------------------------------------------------------------------------
(* copyUpdatedConfigAndManifest, and the loop over the formats *)

(* The manifest to store, or the error.                                    *)
PendingManifest ==
  IF noPendingManifestUpdates
  THEN Ok([format |-> job.image.format, layers |-> job.image.layers, original |-> TRUE])
  ELSE IF \/ cannotModifyManifest
          \/ /\ ~diffIDsAreNeeded
             /\ UpdatedImageNeedsLayerDiffIDs(job.image.format, updates.mime)
  THEN Error
  ELSE AndThen(UpdatedImage(job.image, updates.mime, updates.edits),
         LAMBDA new : Ok([format |-> new.format, layers |-> new.layers,
                          original |-> FALSE]))

AttemptedFormat == IF at = 0 THEN plan.preferred ELSE plan.others[at]
formatsLeft == {k \in DOMAIN plan.others : k > at}

(* Mutation: the last format is forgotten.                                 *)
AttemptFailsOneShort(aboutFormat) ==
  /\ rejected' = (rejected \/ (at = 0 /\ aboutFormat))
  /\ IF /\ \E k, l \in formatsLeft : k # l
        /\ at # 0 \/ aboutFormat
        /\ ~cannotModifyManifest
     THEN /\ at' = Min(formatsLeft)
          /\ updates' = [updates EXCEPT !.mime = plan.others[at']]
          /\ UNCHANGED step
     ELSE Fail /\ UNCHANGED <<at, updates>>
  /\ UNCHANGED <<put, result>>

(* After a failure, the next format is tried, if there is one; after the   *)
(* first failure only if it was about the format.                          *)
AttemptFails(aboutFormat) ==
  /\ rejected' = (rejected \/ (at = 0 /\ aboutFormat))
  /\ IF /\ formatsLeft # {}
        /\ at # 0 \/ aboutFormat
        /\ ~cannotModifyManifest
     THEN /\ at' = Min(formatsLeft)
          /\ updates' = [mime |-> plan.others[at'], edits |-> updates.edits, embedded |-> updates.embedded]
          /\ UNCHANGED step
     ELSE Fail /\ UNCHANGED <<at, updates>>
  /\ UNCHANGED <<put, result>>

CopyManifest ==
  LET pending == PendingManifest
  IN /\ step = "manifest"
     /\ attempts' = Append(attempts, AttemptedFormat)
     /\ \/ ~pending.ok /\ AttemptFails(pending.incompatible)
        \/ \E aboutFormat \in BOOLEAN : pending.ok /\ AttemptFails(aboutFormat)
        \/ /\ pending.ok
           /\ put' = {pending.value}
           /\ result' = {AttemptedFormat}
           /\ step' = "sign"
           /\ UNCHANGED <<at, updates, rejected>>
     /\ UNCHANGED <<job, format, plan, blobs, skipped, sigsPut>>

(* createSignatures, PutSignaturesWithFormat                               *)
Sign ==
  /\ step = "sign"
  /\ \/ Fail /\ UNCHANGED sigsPut
     \/ step' = "done" /\ sigsPut' = job.signing.sigs
  /\ UNCHANGED <<job, format, plan, updates, blobs, attempts, at, rejected, put,
                 result, skipped>>

Returned == step \in {"done", "failed"} /\ UNCHANGED vars

Next == CheckPolicy \/ ReadImage \/ Plan \/ Optimize \/ CopyLayers \/ CopyManifest
        \/ Sign \/ Returned

Spec == Init /\ [][Next]_vars

-----------------------------------------------------------------------------
(* Properties *)

(* The manifest that is stored describes the layers that are stored: their *)
(* compression and encryption are what each media type says, through every *)
(* conversion, reuse, recompression, encryption and decryption; and a      *)
(* format without media types gets neither zstd nor encrypted layers.      *)
ManifestDescribesLayers ==
  \A m \in put : \A i \in DOMAIN blobs :
    IF isSchema1(m.format) THEN blobs[i].comp # "zstd" /\ ~blobs[i].enc
    ELSE m.layers[i].comp = blobs[i].comp /\ m.layers[i].enc = blobs[i].enc

(* If the manifest must not be modified (signatures are copied, the        *)
(* destination has a digest, PreserveDigests) the stored one is the        *)
(* source's own, for exactly the source's layers; so copied signatures     *)
(* always belong to the manifest they are stored with.                     *)
UnmodifiableManifestIsKept ==
  /\ cannotModifyManifest => \A m \in put :
       m.original /\ \A i \in DOMAIN blobs : blobs[i] = SourceBlob(i)
  /\ sigsPut => \E m \in put : m.original

(* A manifest is only stored in a format that was asked for: supported by  *)
(* the destination or forced, able to hold encrypted layers and the        *)
(* requested compression; unless the manifest cannot be modified.          *)
StoredFormatIsAcceptable ==
  \A m \in put : ~cannotModifyManifest =>
    \E t \in ToSet(destSupportedManifestMIMETypes([force |-> job.dest.force, destTypes |-> job.dest.types])) :
      /\ t = m.format \/ (isSchema1(t) /\ isSchema1(m.format))
      /\ Acceptable([encryption |-> destRequiresOciEncryption, compression |-> format], t)

(* The MIME type returned to the caller (copyMultipleImages writes it to   *)
(* the manifest list) is that of the manifest stored.                      *)
ResultIsWhatWasStored ==
  \A m \in put : \A t \in result : t = m.format \/ (isSchema1(t) /\ isSchema1(m.format))

(* The copy fails after its format was rejected only when every format the *)
(* destination may accept was tried, and it never tries one twice.         *)
EveryFormatIsTried ==
  /\ \A k, l \in DOMAIN attempts : k # l => attempts[k] # attempts[l]
  /\ (step = "failed" /\ rejected /\ put = {} /\ ~cannotModifyManifest) =>
       ToSet(attempts) = supportedByDest([force |-> job.dest.force, destTypes |-> job.dest.types,
                                          encryption |-> destRequiresOciEncryption, compression |-> format])

(* The layers of a stored image are encrypted or decrypted as the options  *)
(* ask, but for the foreign ones that are not copied: those stay what they *)
(* are at their URLs, also if OciEncryptLayers names them.                 *)
EncryptionIsHonoured ==
  put # {} => \A i \in DOMAIN blobs :
    IF Skips(i) THEN blobs[i] = SourceBlob(i)
    ELSE /\ i \in job.encrypt => blobs[i].enc
         /\ job.decrypt /\ blobs[i].enc => i \in job.encrypt

(* OptimizeDestinationImageAlreadyExists assumes that "the destination     *)
(* image already exists (and is equivalent)" and makes the "(no-op) copy   *)
(* more performant": a copy that would store other layers than the ones    *)
(* the manifest names, because they are to be decrypted, is not skipped.   *)
SkippedCopyIsNoOp == skipped => \A i \in DOMAIN job.image.layers : ~Decrypts(i)

(* The manifest, the layers and the result agree, in a format asked for.   *)
StoredImageIsConsistent ==
  TypeOK /\ ManifestDescribesLayers /\ StoredFormatIsAcceptable /\ ResultIsWhatWasStored

(* What must not change is kept, what must change is changed.              *)
OptionsAreHonoured == UnmodifiableManifestIsKept /\ EncryptionIsHonoured
==============================================================================
