----------------------------- MODULE MCCopying ------------------------------
(***************************************************************************)
(* The parts of a copy below the concurrency of CopyImages, each explored  *)
(* on its own: a blob through the pipeline, an image, a list, the policy   *)
(* file, and the decision of a policy about an image.  They share no state *)
(* (a copy calls one after the other), so their behaviours are             *)
(* alternatives, chosen by part.                                           *)
(***************************************************************************)
EXTENDS ManifestConversion, ImageUpdate

CONSTANTS
  Parts, Contents, Images, Signings, Destinations, Compressions,
  SourceLists, OptionSets, MaxMembers, MaxRequirements, IdentityDocs,
  NestedValues, Policies, CheckedImages, Manifests, SignatureLists, Certs,
  Wildcards, MaxTime, MaxChanges, MaxCalls

VARIABLE part   \* what this behaviour is about

VARIABLES
  blobJob, blobStep, stream, blobOriginal, decrypting, encrypting, detected,
  compression, validation, uploaded, blobEdits, diffID, pairs, tocs,
  compressors
Blob == INSTANCE BlobPipeline WITH
  job <- blobJob, step <- blobStep, original <- blobOriginal,
  edits <- blobEdits
blobVars == <<blobJob, blobStep, stream, blobOriginal, decrypting, encrypting, detected,
              compression, validation, uploaded, blobEdits, diffID, pairs,
              tocs, compressors>>

VARIABLES
  imageJob, imageStep, format, plan, updates, blobs, attempts, imageAt, rejected,
  put, imageResult, skipped, sigsPut
Single == INSTANCE CopySingleImage WITH
  job <- imageJob, step <- imageStep, at <- imageAt, result <- imageResult
imageVars == <<imageJob, imageStep, format, plan, updates, blobs, attempts, imageAt, rejected,
               put, imageResult, skipped, sigsPut>>

VARIABLES
  originalList, opt, pc, copies, listEdits, candidates, updated, stored,
  signatures
Multiple == INSTANCE CopyMultiple WITH
  original <- originalList, edits <- listEdits
listVars == <<originalList, opt, pc, copies, listEdits, candidates, updated, stored,
              signatures>>

VARIABLES
  phase, sections, section, kind, doc, nested, verdict, trust
Config == INSTANCE PolicyConfig
policyVars == <<phase, sections, section, kind, doc, nested, verdict, trust>>

VARIABLES
  policy, checkedImage, pcState, source, changes, now, cachedManifest,
  cachedSignatures, call, calls, served, result, used
Evaluation == INSTANCE PolicyEvaluation WITH
  Images <- CheckedImages, image <- checkedImage
decisionVars == <<policy, checkedImage, pcState, source, changes, now, cachedManifest,
                  cachedSignatures, call, calls, served, result, used>>

ASSUME ContentsAssumption == Contents \cap (Blob!Formats \cup {"enc"}) = {}

(* Manifests have layers, and a destination lists formats of images.       *)
ASSUME ImagesAssumption ==
  /\ Images \subseteq [format : ImageFormats, layers : Seq(MediaTypes \cup {NoMediaType}), artifact : BOOLEAN]
  /\ \A i \in Images : i.layers # <<>>
  /\ Signings \subseteq [sigs : BOOLEAN, signs : BOOLEAN, pinned : BOOLEAN]
  /\ Destinations \subseteq [types : Seq(ImageFormats), force : ImageFormats \cup {NoForce}]
  /\ Compressions \subseteq [algo : Algorithms \cup {NoAlgorithm}, required : BOOLEAN]

ASSUME PolicyAssumption == NestedValues \subseteq Config!Values

ASSUME DecisionAssumption ==
  /\ Evaluation!None \notin Manifests /\ MaxTime \in Nat
  /\ \A reqs \in Evaluation!RequirementLists :
       Evaluation!IsSequence(reqs) /\ \A k \in DOMAIN reqs : Evaluation!WellFormed(reqs[k])
  /\ \A list \in SignatureLists : Evaluation!IsSequence(list)
  /\ \A i \in CheckedImages : Evaluation!Named(i.ref) =>
       Evaluation!IsSequence(i.ref.name) /\ Evaluation!IsSequence(Wildcards[i.ref.name[1]])

vars == <<part, blobVars, imageVars, listVars, policyVars, decisionVars>>

-----------------------------------------------------------------------------
(* Images of one layer in every format, compression and encryption, a      *)
(* foreign layer, and pairs of layers that differ.                         *)
Layer(comp, enc) == [foreign |-> FALSE, comp |-> comp, enc |-> enc]

MCLayers ==
  {<<NoMediaType>>, <<[Layer("gzip", FALSE) EXCEPT !.foreign = TRUE]>>,
   <<Layer("zstd", FALSE), Layer("gzip", FALSE)>>,
   <<Layer("gzip", TRUE), Layer("zstd", FALSE)>>}
  \cup {<<mt>> : mt \in [foreign : {FALSE}, comp : {"none", "gzip", "zstd"}, enc : BOOLEAN]}

MCImages ==
  [format : ImageFormats, layers : MCLayers, artifact : {FALSE}]
  \cup [format : {OCI}, layers : {<<Layer("gzip", FALSE)>>}, artifact : {TRUE}]

MCSignings ==
  {s \in [sigs : BOOLEAN, signs : BOOLEAN, pinned : BOOLEAN] :
     ~(s.sigs /\ s.signs) /\ ~(s.sigs /\ s.pinned) /\ ~(s.signs /\ s.pinned)}

MCDestinations ==
  [types : {<<>>, <<OCI>>, <<V2S1, V2S2>>, <<V2S2, V2S1Signed, OCI>>}, force : {NoForce}]
  \cup [types : {<<>>}, force : {V2S2}]

MCCompressions ==
  [algo : {NoAlgorithm, "zstd", "zstd:chunked"}, required : {FALSE}]
  \cup [algo : {"gzip", "zstd:chunked"}, required : {TRUE}]

(* Lists of two platforms; two compressions of an image; one image for two *)
(* platforms; no platform; zstd without its annotation.                    *)
Instance(number, variant) == [image |-> number, variant |-> variant]
Entry(instance, platform, zstd) == [digest |-> instance, platform |-> platform, zstd |-> zstd]

(* As in CopyMultiple.                                                     *)
Index == "OCI index"
List == "Docker list"
NoPlatform == "no platform"
NoForcedList == "no forced type"

gzip1 == Instance(1, "gzip")
zstd1 == Instance(1, "zstd")
gzip2 == Instance(2, "gzip")

MCSourceLists ==
  {[type |-> t, entries |-> e] : t \in {Index, List},
     e \in {<<Entry(gzip1, "linux", FALSE), Entry(gzip2, "arm", FALSE)>>,
            <<Entry(gzip1, "linux", FALSE), Entry(zstd1, "linux", FALSE)>>,
            <<Entry(gzip1, "linux", FALSE), Entry(gzip1, "arm", FALSE)>>}}
  \cup {[type |-> Index, entries |-> e] :
     e \in {<<Entry(zstd1, "linux", TRUE), Entry(gzip2, "arm", FALSE)>>,
            <<Entry(gzip1, "linux", FALSE), Entry(zstd1, "linux", TRUE), Entry(gzip2, "arm", FALSE)>>,
            <<Entry(gzip1, NoPlatform, FALSE), Entry(gzip2, "arm", FALSE)>>}}

Variants == {"gzip", "zstd", "converted gzip"}
Conversions ==
  {[v \in Variants |-> v],
   [v \in Variants |-> IF v = "gzip" THEN "converted gzip" ELSE v],
   [v \in Variants |-> "zstd"],
   [v \in Variants |-> "gzip"]}

(* selection, instances: ImageListSelection, Instances.  ensure:           *)
(* EnsureCompressionVariantsExist.  signed: the source has signatures that *)
(* are kept; sign: new ones are made.  digested: the destination has a     *)
(* digest.  supported, forced: list types.  conversion: what copying an    *)
(* instance makes of its variant.                                          *)
MCOptionSets ==
  {o \in [selection : {"all", "specific"}, instances : {{}, {gzip1}},
          ensure : {<<>>, <<"zstd">>, <<"gzip">>, <<"zstd", "zstd">>},
          signed : BOOLEAN, sign : BOOLEAN, digested : {"no", "matches", "differs"},
          preserveDigests : BOOLEAN,
          supported : {<<>>, <<"image", Index>>, <<List, Index>>, <<"image">>},
          forced : {NoForcedList, List, Index}, conversion : Conversions] :
     /\ o.selection = "all" => o.instances = {}
     /\ o.digested # "no" => ~o.preserveDigests
     /\ o.preserveDigests => ~o.signed}

(* Identity objects of policy.json: every type in its valid form, in its   *)
(* invalid one, and with an unknown member.                                *)
Identity(t, v, e) == [type |-> t, value |-> v, extra |-> e]

MCIdentityDocs ==
  {Identity("matchExact", "absent", FALSE), Identity("matchRepository", "nameOnly", FALSE),
   Identity("exactReference", "nameOnly", FALSE), Identity("exactReference", "full", FALSE),
   Identity("exactRepository", "nameOnly", FALSE), Identity("exactRepository", "invalid", FALSE),
   Identity("remapIdentity", "validPrefixes", FALSE), Identity("remapIdentity", "invalid", FALSE),
   Identity("matchRepoDigestOrExact", "absent", TRUE), Identity("unknown", "absent", FALSE)}

(* One repository on one host.  Signatures by trusted and other keys, for  *)
(* two manifests, under the right, another and a bare name; sigstore       *)
(* signatures with log entries made for another key or too late for the    *)
(* certificate.  The policies combine requirements of every kind.          *)
None == "none"   \* as in PolicyEvaluation
Ref(name, atTag, digest) == [name |-> name, tag |-> atTag, digest |-> digest]
Repo     == <<"host", "repo">>
Tagged   == Ref(Repo, "t", None)
ByDigest == Ref(Repo, None, "m1")
Other    == Ref(<<"mirror", "repo">>, "t", None)

MCCheckedImages ==
  {[ref |-> Tagged, instance |-> None], [ref |-> ByDigest, instance |-> None],
   [ref |-> Ref(<<>>, None, None), instance |-> "m2"]}

NoSET == [by |-> None, over |-> None, of |-> <<>>, time |-> 0]
Sig(sigFormat, key, digest, ref, set, cert) ==
  [format |-> sigFormat, key |-> key, digest |-> digest, ref |-> ref, set |-> set, cert |-> cert]
SET(over, key, digest, ref, time) ==
  [by |-> "rekor", over |-> over, of |-> <<key, digest, ref>>, time |-> time]

S1 == Sig("simple", "k1", "m1", Tagged, NoSET, None)
S2 == Sig("simple", "k1", "m2", Tagged, NoSET, None)
S3 == Sig("simple", "k2", "m1", Other, NoSET, None)
G1 == Sig("sigstore", "k1", "m1", Tagged, SET("k1", "k1", "m1", Tagged, 0), None)
G2 == Sig("sigstore", "k2", "m2", Tagged, SET("k1", "k1", "m2", Tagged, 0), None)
G3 == Sig("sigstore", "ck", "m1", Tagged, SET("cert", "ck", "m1", Tagged, 1), "cert")
G4 == Sig("sigstore", "ck", "m2", Tagged, SET("cert", "ck", "m2", Tagged, 2), "cert")
At == Sig("attestation", "k1", "m1", Tagged, NoSET, None)

MCSignatureLists == {<<>>, <<S1>>, <<S3, S2>>, <<At, S1, G1>>, <<G2, G3>>, <<G4>>}

MCCerts ==
  [c \in {"cert"} |-> [root |-> "ca", issuer |-> "idp", email |-> "e", host |-> "h",
                       key |-> "ck", from |-> 0, to |-> 1]]
MCWildcards == [h \in {"host"} |-> <<<<"*", "domain">>>>]

Exact == [type |-> "matchExact"]
Accept == [kind |-> "insecureAcceptAnything"]
SignedBy(keys, identity) == [kind |-> "signedBy", keys |-> keys, identity |-> identity]
Sigstored(by, keys, rekor, identity) ==
  [kind |-> "sigstoreSigned", by |-> by, keys |-> keys, rekor |-> rekor, identity |-> identity,
   root |-> "ca", issuer |-> "idp", email |-> "e", host |-> "h"]

Default(reqs) == [default |-> reqs, scopes |-> [s \in {} |-> <<>>]]
Scoped(scope, reqs) == [default |-> <<[kind |-> "reject"]>>, scopes |-> [s \in {scope} |-> reqs]]
Remap == [type |-> "remapIdentity", prefix |-> <<"host">>, signedPrefix |-> <<"mirror">>]

MCPolicies == {
  Scoped(<<>>, <<Accept>>),
  Default(<<SignedBy({"k1"}, Exact)>>),
  Scoped(<<"host">>, <<SignedBy({"k1", "k2"}, [type |-> "matchRepoDigestOrExact"]),
                       Sigstored("keys", {"k1", "k2"}, {"rekor"}, Exact)>>),
  Scoped(<<"*", "domain">>, <<SignedBy({"k2"}, Remap), Accept>>),
  Scoped(Repo \o <<":", "t">>, <<Sigstored("fulcio", {}, {"rekor"}, Exact)>>),
  Scoped(Repo, <<Sigstored("pki", {}, {}, [type |-> "matchRepository"])>>),
  Default(<<SignedBy({"k1"}, [type |-> "exactReference", ref |-> Tagged]),
            SignedBy({"k1"}, [type |-> "exactRepository", ref |-> Tagged])>>),
  Default(<<[kind |-> "signedBaseLayer"], Accept>>)}

-----------------------------------------------------------------------------
(* A behaviour is about one part; the variables of the others keep the     *)
(* value Unused.                                                           *)
Unused == "unused"

blobInit ==
  IF part = "blob" THEN Blob!Init
  ELSE /\ blobJob = Unused /\ blobStep = Unused /\ stream = Unused
       /\ blobOriginal = Unused /\ decrypting = Unused /\ encrypting = Unused
       /\ detected = Unused /\ compression = Unused /\ validation = Unused
       /\ uploaded = Unused /\ blobEdits = Unused /\ diffID = Unused
       /\ pairs = Unused /\ tocs = Unused /\ compressors = Unused
imageInit ==
  IF part = "image" THEN Single!Init
  ELSE /\ imageJob = Unused /\ imageStep = Unused /\ format = Unused /\ plan = Unused
       /\ updates = Unused /\ blobs = Unused /\ attempts = Unused /\ imageAt = Unused
       /\ rejected = Unused /\ put = Unused /\ imageResult = Unused
       /\ skipped = Unused /\ sigsPut = Unused
listInit ==
  IF part = "list" THEN Multiple!Init
  ELSE /\ originalList = Unused /\ opt = Unused /\ pc = Unused /\ copies = Unused
       /\ listEdits = Unused /\ candidates = Unused /\ updated = Unused
       /\ stored = Unused /\ signatures = Unused
policyInit ==
  IF part = "policy" THEN Config!Init
  ELSE /\ phase = Unused /\ sections = Unused /\ section = Unused /\ kind = Unused
       /\ doc = Unused /\ nested = Unused /\ verdict = Unused /\ trust = Unused
decisionInit ==
  IF part = "decision" THEN Evaluation!Init
  ELSE /\ policy = Unused /\ checkedImage = Unused /\ pcState = Unused
       /\ source = Unused /\ changes = Unused /\ now = Unused
       /\ cachedManifest = Unused /\ cachedSignatures = Unused /\ call = Unused
       /\ calls = Unused /\ served = Unused /\ result = Unused /\ used = Unused
Init ==
  /\ part \in Parts
  /\ blobInit /\ imageInit /\ listInit /\ policyInit /\ decisionInit

BlobStep ==
  /\ part = "blob" /\ Blob!Next
  /\ UNCHANGED <<part, imageVars, listVars, policyVars, decisionVars>>
ImageStep ==
  /\ part = "image" /\ Single!Next
  /\ UNCHANGED <<part, blobVars, listVars, policyVars, decisionVars>>
ListStep ==
  /\ part = "list" /\ Multiple!Next
  /\ UNCHANGED <<part, blobVars, imageVars, policyVars, decisionVars>>
PolicyStep ==
  /\ part = "policy" /\ Config!Next
  /\ UNCHANGED <<part, blobVars, imageVars, listVars, decisionVars>>
DecisionStep ==
  /\ part = "decision" /\ Evaluation!Next
  /\ UNCHANGED <<part, blobVars, imageVars, listVars, policyVars>>

(* The file is read once, and the environment of a decision is bounded.    *)
MayStop == part \in {"policy", "decision"} /\ UNCHANGED vars

Next == BlobStep \/ ImageStep \/ ListStep \/ PolicyStep \/ DecisionStep
        \/ MayStop

Spec == Init /\ [][Next]_vars

-----------------------------------------------------------------------------
(* Properties.  Each is the property of the same name of a part's module.  *)

(* Whatever the pipeline tells the blob info cache about blobs is true,    *)
(* and said of blobs that are not encrypted (recordValidatedDigestData).   *)
RecordsAreTrue == part = "blob" => Blob!RecordsAreTrue

(* What copyBlobFromStream stores is what was asked for.                   *)
UploadIsWanted == part = "blob" => Blob!UploadIsWanted

(* What copyBlobFromStream returns is true of what was stored.             *)
ResultDescribesUpload == part = "blob" => Blob!ResultDescribesUpload

(* The manifest copySingleImage stores, the layers and the result agree,   *)
(* in a format asked for.                                                  *)
StoredImageIsConsistent == part = "image" => Single!StoredImageIsConsistent

(* What must not change is kept, what must change is changed.              *)
OptionsAreHonoured == part = "image" => Single!OptionsAreHonoured

(* A copy fails after its format was rejected only when every format the   *)
(* destination may accept was tried, and it never tries one twice.         *)
EveryFormatIsTried == part = "image" => Single!EveryFormatIsTried

(* The short-circuit for an existing destination is a no-op also when      *)
(* layers are to be decrypted (OptimizeDestinationImageAlreadyExists).     *)
SkippedCopyIsNoOp == part = "image" => Single!SkippedCopyIsNoOp

(* The list copyMultipleImages stores lists what was copied, is signed as  *)
(* it is stored, and works for the clients of the source list.             *)
ListIsSound == part = "list" => Multiple!ListIsSound

(* A policy that NewPolicyFromBytes accepts never meets an error marked    *)
(* "Internal inconsistency", and its trust root is the complete one.       *)
PolicyIsConsistent == part = "policy" => Config!PolicyIsConsistent

(* An allowed image is the one the signatures vouch for, and returned      *)
(* signatures are accepted ones, whatever the tag does meanwhile.          *)
DecisionIsSound == part = "decision" => Evaluation!DecisionIsSound
=============================================================================
