---------------------------- MODULE MCTransfers -----------------------------
(***************************************************************************)
(* What reads and writes blobs and records outside this process, each      *)
(* explored on its own: downloads, partial downloads and uploads of the    *)
(* registry client, its signatures, an OCI layout directory and the BoltDB *)
(* cache file.  They share no state, so their behaviours are alternatives, *)
(* chosen by part.                                                         *)
(***************************************************************************)
EXTENDS BlobFacts, Integers, Sequences, TLC

CONSTANTS
  Parts, DownloadSize, MinimumProgress, SinceLastRetry, MaxDownloadTime,
  ChunksSize, Requests, Buffers, UploadSize, CandidateLists, Manifests,
  NoManifest, Signatures, Sigstore, Lists, MaxFiles, MaxCalls, Objects,
  Names, Initial, Workers, MaxSessions, Goroutines, Locks

ASSUME DownloadAssumption ==
  /\ DownloadSize \in Nat /\ MaxDownloadTime \in Nat
  /\ MinimumProgress \in Nat \ {0} /\ SinceLastRetry \in Nat \ {0}
ASSUME ChunksAssumption ==   \* -1 is Rest of BlobChunks
  /\ ChunksSize \in Nat /\ Buffers \in Nat
  /\ \A r \in Requests : r \in Seq([off : Nat, len : Nat \cup {-1}])
ASSUME UploadAssumption ==
  /\ UploadSize \in Nat
  /\ \A l \in CandidateLists :
       l \in Seq([repo : {"dest", "other"}, digest : 0..(UploadSize + 1)])
ASSUME SignaturesAssumption ==   \* a list may be too long for a source to read
  /\ MaxFiles \in Nat /\ MaxCalls \in Nat /\ NoManifest \notin Manifests /\ Sigstore \subseteq Signatures
  /\ \A l \in Lists : l \in Seq(Signatures) /\ Len(l) <= MaxFiles + 1
ASSUME LayoutAssumption ==   \* the layouts to start from are whole
  /\ "" \notin DOMAIN Objects /\ "" \notin Names /\ MaxSessions \in Nat
  /\ \A d \in DOMAIN Objects :
       /\ Objects[d] \in [kind : {"blob", "manifest", "index", "docker"}, uses : Seq(DOMAIN Objects)]
       /\ Objects[d].kind = "blob" => Objects[d].uses = <<>>
  /\ \A l \in Initial :
       /\ DOMAIN l.blobs \subseteq DOMAIN Objects /\ l.blobs \in [DOMAIN l.blobs -> {"ok"}]
       /\ l.index \in [state : {"absent", "ok"},
                       entries : Seq([digest : DOMAIN Objects, name : Names \cup {""}])]
       /\ \A i, j \in DOMAIN l.index.entries :
            l.index.entries[i].name = l.index.entries[j].name /\ l.index.entries[i].name # "" => i = j

VARIABLE part   \* what this behaviour is about

VARIABLES
  body, offset, lastRetryOffset, lastRetryTime, now, received, retries,
  lengthKnown, result
Download == INSTANCE BodyReader WITH
  Size <- DownloadSize, MaxTime <- MaxDownloadTime
downloadVars == <<body, offset, lastRetryOffset, lastRetryTime, now, received, retries,
                  lengthKnown, result>>

VARIABLES
  chunks, reply, chunksBody, closed, empty, ready, handler, producer,
  chunksOffset, skip, left, got, ended, errors
Chunks == INSTANCE BlobChunks WITH
  Size <- ChunksSize, body <- chunksBody, offset <- chunksOffset
chunksVars == <<chunks, reply, chunksBody, closed, empty, ready, handler, producer,
                chunksOffset, skip, left, got, ended, errors>>

VARIABLES
  job, registry, recorded, uploadPC, next, missing, digest, pos, stream,
  transport, lock, terminated, response, uploadResult
Upload == INSTANCE DockerUpload WITH
  Size <- UploadSize, pc <- uploadPC, result <- uploadResult
uploadVars == <<job, registry, recorded, uploadPC, next, missing, digest, pos, stream,
                transport, lock, terminated, response, uploadResult>>

VARIABLES
  config, tag, manifests, lookaside, attached, extension, manifestDigest,
  call, sigsPC, sigsIndex, fetched, other, overlapped, written, kept, calls
Sigs == INSTANCE DockerSignatures WITH
  Digests <- Manifests, NoDigest <- NoManifest, pc <- sigsPC,
  index <- sigsIndex
signaturesVars == <<config, tag, manifests, lookaside, attached, extension, manifestDigest,
                    call, sigsPC, sigsIndex, fetched, other, overlapped, written, kept, calls>>

VARIABLES
  blobs, index, shared, theirs, session, workers, sessions, promised, interrupted
Layout == INSTANCE OCILayout
layoutVars == <<blobs, index, shared, theirs, session, workers, sessions, promised, interrupted>>

VARIABLES
  pathLocks, refCount, owner, pc, mine, writes, file, uncompressedDigest,
  uncompressedDigestByTOC, digestByUncompressed, digestCompressor,
  digestSpecificVariantCompressor, knownLocations, clock
Bolt == INSTANCE BoltCache
boltVars == <<pathLocks, refCount, owner, pc, mine, writes, file, uncompressedDigest,
              uncompressedDigestByTOC, digestByUncompressed,
              digestCompressor, digestSpecificVariantCompressor,
              knownLocations, clock>>

ASSUME BoltAssumption ==
  /\ IsFiniteSet(Goroutines) /\ Bolt!Nobody \notin Goroutines
  /\ Locks # {} /\ Bolt!NoLock \notin Locks

vars == <<part, downloadVars, chunksVars, uploadVars, signaturesVars,
          layoutVars, boltVars>>

-----------------------------------------------------------------------------
(* GetBlobAt: a blob of five bytes and fewer buffers than bytes, so that   *)
(* the network reader waits for the consumer; chunks with gaps, adjacent,  *)
(* up to the end, out of order, and beyond the end.                        *)
Chunk(off, len) == [off |-> off, len |-> len]
Rest == -1   \* as in BlobChunks

MCRequests ==
  {<<Chunk(1, 2)>>, <<Chunk(0, 1), Chunk(2, 1)>>, <<Chunk(1, 1), Chunk(2, 2)>>,
   <<Chunk(0, 2), Chunk(3, Rest)>>, <<Chunk(2, 1), Chunk(0, 1)>>, <<Chunk(0, 1), Chunk(6, 1)>>}

(* PutBlob: up to two candidates for reuse, the blob or a variant of it,   *)
(* in the destination or in another repository.                            *)
Candidate(repo, d) == [repo |-> repo, digest |-> d]
Variant == UploadSize + 1   \* as in DockerUpload

MCCandidateLists ==
  {<<>>, <<Candidate("other", UploadSize)>>,
   <<Candidate("dest", UploadSize), Candidate("dest", Variant)>>,
   <<Candidate("other", Variant), Candidate("other", UploadSize)>>}

(* Lists of up to three signatures in both formats, so that later lists    *)
(* are shorter and longer than earlier ones.                               *)
MCLists == {<<"a">>, <<"b", "a">>, <<"a", "b", "c">>, <<"s">>, <<"a", "s">>}

(* An OCI layout with two manifests that share a layer, one of them with   *)
(* the layer twice, a list of one of them, and a Docker manifest some      *)
(* other tool has written.                                                 *)
Object(kind, uses) == [kind |-> kind, uses |-> uses]

MCObjects == "c" :> Object("blob", <<>>) @@ "l" :> Object("blob", <<>>)
  @@ "m1" :> Object("manifest", <<"c", "l">>) @@ "m2" :> Object("manifest", <<"c", "c">>)
  @@ "list" :> Object("index", <<"m1">>) @@ "docker" :> Object("docker", <<"c">>)

Listed(entries) == [state |-> "ok", entries |-> entries]
MCInitial ==
  {[blobs |-> <<>>, index |-> [state |-> "absent", entries |-> <<>>]],
   [blobs |-> "c" :> "ok" @@ "docker" :> "ok",
    index |-> Listed(<<[digest |-> "docker", name |-> "x"]>>)],
   [blobs |-> "c" :> "ok" @@ "l" :> "ok" @@ "m1" :> "ok",
    index |-> Listed(<<[digest |-> "m1", name |-> "x"], [digest |-> "m1", name |-> ""]>>)]}

(* The BoltDB cache: blob 1 is uncompressed; blob 2 is blob 1 in           *)
(* zstd:chunked.                                                           *)
MCDigests == 1..2
MCTOCs == {"toc"}
MCScopes == {"scope"}
MCTrueUncompressed == [d \in MCDigests |-> 1]
MCTrueTOC == [t \in MCTOCs |-> 1]
MCTrueCompressor ==
  <<[base |-> Uncompressed, specific |-> UnknownCompression],
    [base |-> "zstd", specific |-> "zstd:chunked"]>>

-----------------------------------------------------------------------------
(* A behaviour is about one part; the variables of the others keep the     *)
(* value Unused.                                                           *)
Unused == "unused"

downloadInit ==
  IF part = "download" THEN Download!Init
  ELSE /\ body = Unused /\ offset = Unused /\ lastRetryOffset = Unused
       /\ lastRetryTime = Unused /\ now = Unused /\ received = Unused
       /\ retries = Unused /\ lengthKnown = Unused /\ result = Unused
chunksInit ==
  IF part = "chunks" THEN Chunks!Init
  ELSE /\ chunks = Unused /\ reply = Unused /\ chunksBody = Unused /\ closed = Unused
       /\ empty = Unused /\ ready = Unused /\ handler = Unused /\ producer = Unused
       /\ chunksOffset = Unused /\ skip = Unused /\ left = Unused /\ got = Unused
       /\ ended = Unused /\ errors = Unused
uploadInit ==
  IF part = "upload" THEN Upload!Init
  ELSE /\ job = Unused /\ registry = Unused /\ recorded = Unused /\ uploadPC = Unused
       /\ next = Unused /\ missing = Unused /\ digest = Unused /\ pos = Unused
       /\ stream = Unused /\ transport = Unused /\ lock = Unused
       /\ terminated = Unused /\ response = Unused /\ uploadResult = Unused
signaturesInit ==
  IF part = "signatures" THEN Sigs!Init
  ELSE /\ config = Unused /\ tag = Unused /\ manifests = Unused /\ lookaside = Unused
       /\ attached = Unused /\ extension = Unused /\ manifestDigest = Unused
       /\ call = Unused /\ sigsPC = Unused /\ sigsIndex = Unused /\ fetched = Unused
       /\ other = Unused /\ overlapped = Unused
       /\ written = Unused /\ kept = Unused /\ calls = Unused
layoutInit ==
  IF part = "layout" THEN Layout!Init
  ELSE /\ blobs = Unused /\ index = Unused /\ shared = Unused /\ theirs = Unused
       /\ session = Unused /\ interrupted = Unused
       /\ workers = Unused /\ sessions = Unused /\ promised = Unused
boltInit ==
  IF part = "bolt" THEN Bolt!Init
  ELSE /\ pathLocks = Unused /\ refCount = Unused /\ owner = Unused /\ pc = Unused
       /\ mine = Unused /\ writes = Unused /\ file = Unused
       /\ uncompressedDigest = Unused /\ uncompressedDigestByTOC = Unused
       /\ digestByUncompressed = Unused /\ digestCompressor = Unused
       /\ digestSpecificVariantCompressor = Unused /\ knownLocations = Unused
       /\ clock = Unused
Init ==
  /\ part \in Parts
  /\ downloadInit /\ chunksInit /\ uploadInit /\ signaturesInit
  /\ layoutInit /\ boltInit

DownloadStep ==
  /\ part = "download" /\ Download!Next
  /\ UNCHANGED <<part, chunksVars, uploadVars, signaturesVars, layoutVars,
               boltVars>>
ChunksStep ==
  /\ part = "chunks" /\ Chunks!Next
  /\ UNCHANGED <<part, downloadVars, uploadVars, signaturesVars, layoutVars,
               boltVars>>
UploadStep ==
  /\ part = "upload" /\ Upload!Next
  /\ UNCHANGED <<part, downloadVars, chunksVars, signaturesVars, layoutVars,
               boltVars>>
SignaturesStep ==
  /\ part = "signatures" /\ Sigs!Next
  /\ UNCHANGED <<part, downloadVars, chunksVars, uploadVars, layoutVars,
               boltVars>>
LayoutStep ==
  /\ part = "layout" /\ Layout!Next
  /\ UNCHANGED <<part, downloadVars, chunksVars, uploadVars, signaturesVars,
               boltVars>>
BoltStep ==
  /\ part = "bolt" /\ Bolt!Next
  /\ UNCHANGED <<part, downloadVars, chunksVars, uploadVars, signaturesVars,
               layoutVars>>

(* The number of calls is bounded.                                         *)
MayStop == part \in {"signatures"} /\ UNCHANGED vars

Next == DownloadStep \/ ChunksStep \/ UploadStep \/ SignaturesStep
        \/ LayoutStep \/ BoltStep \/ MayStop

Spec == Init /\ [][Next]_vars

(* The workers of a layout are alike.                                      *)
Symmetry == Permutations(Workers)

-----------------------------------------------------------------------------
(* Properties.  Each is the property of the same name of a part's module.  *)

(* Resuming a download (bodyReader.Read) is invisible to the caller.       *)
DownloadIsExact == part = "download" => Download!DownloadIsExact

(* The heuristic of bodyReader cannot retry for ever.                      *)
RetriesAreBounded == part = "download" => Download!RetriesAreBounded

(* Unless the server coalesces several chunks, every stream of GetBlobAt   *)
(* holds the bytes of its chunk and a failure is reported.                 *)
ChunksAreExact == part = "chunks" => Chunks!ChunksAreExact

(* What goes wrong with the network or with closing the reader is reported *)
(* as an error value: the reading goroutine does not crash the process.    *)
ReaderNeverPanics == part = "chunks" => Chunks!ReaderNeverPanics

(* A push (PutBlobWithOptions) ends with a complete blob at the registry   *)
(* and the stream free.                                                    *)
UploadsAreSound == part = "upload" => Upload!UploadsAreSound

(* The signatures stored by PutSignaturesWithFormat are the ones read,     *)
(* unless another process attached some at the same time.                  *)
SignaturesAreExact == part = "signatures" => Sigs!SignaturesAreExact

(* However pushes and deletions fail and the process dies: blobs are       *)
(* whole; an image committed under a name and neither replaced nor deleted *)
(* keeps its files, and so do other layouts in a shared directory, but for *)
(* a manifest file whose rewriting was interrupted; while index.json is    *)
(* not torn it is found under its name.                                    *)
LayoutIsSound == part = "layout" => Layout!LayoutIsSound

(* The database is used by one goroutine at a time, under a lock that is   *)
(* always found again, and its buckets agree (lockPath, unlockPath).       *)
BoltIsSound == part = "bolt" => Bolt!BoltIsSound
=============================================================================
