# A TLA+ model of containers/image

This directory specifies the `containers/image` library: what `copy.Image` does
when it moves an image between two places, the caches that let it avoid moving
data, the storage, registry and OCI destinations it writes to, and the policies,
configuration files and credentials that decide what is moved and from where.
TLC checks each specification on small instances, and TLAPS proves the most
important safety properties for all instances. Source files are named
relative to the repository (`copy/single.go` ...).

## 1. Inventory of the system

| Part | State | Operations | Interaction | What makes it correct |
|---|---|---|---|---|
| `copy.Image` (`copy/copy.go`, `copy/single.go`) | the copier; a semaphore, private or shared by several calls; one goroutine per layer | acquire and release units, start and join goroutines, copy config, put manifest, retry in other formats, sign, commit | calls the transports, the pipeline and the blob info cache | units are balanced, the limits hold, no manifest without its layers, no use after close, every call returns |
| blob pipeline (`copy/blob.go`, `compression.go`, `encryption.go`, `digesting_reader.go`) | the stream and what is known of it | decrypt, detect, compress, encrypt, put, drain, record | reads a source, writes a destination, records in the cache | the stored blob is what was wanted, is described correctly, and only true facts are recorded |
| one image (`copy/single.go`, `copy/manifest.go`) | the conversion plan, the pending manifest updates | policy, plan, short-circuit, layers, manifest, signatures | uses `types.Image` and the destination | the stored manifest describes the stored layers, and a manifest that must not change does not |
| manifests (`manifest/`, `internal/image/`) | immutable manifests | `UpdatedImage`, conversions between schema1, schema2, OCI | called from one image's copy | media types follow the edits; what a format cannot say is refused |
| manifest lists (`copy/multiple.go`, `internal/manifest/`) | list of instances, edits | choose, copy each in turn, clone, edit, sort, convert, write, sign | calls the copy of one image | the list names what was copied, and old clients still find their instance |
| blob info cache (`internal/blobinfocache`, `pkg/blobinfocache/{memory,sqlite,boltdb,none}`) | pairs of (compressed, uncompressed) digests, TOC pairs, compressor names, locations | four `Record*` operations, three lookups | shared by all copies of a process, SQLite and BoltDB by all processes | substitutes have equal content; records come in any order |
| signature policy (`signature/`, `internal/image/unparsed.go`) | the policy; a `PolicyContext`; cached manifest and signatures | read a policy, evaluate requirements over signatures | called first by `copySingleImage` | an accepted policy can be used; an image is accepted only as the policy says, and is the one that was checked |
| storage transport (`storage/`) | files and staged layers, trusted identities, the commit queue | put, reuse, queue or commit, commit | c/storage; concurrent layer goroutines | layers are committed once and in order, and have the identity they are given |
| registry transport (`docker/`) | token cache, detected properties, a download's offset, upload streams, signature files | requests with retries, resumed and partial downloads, uploads, mounts, signatures, deletion | HTTP registry, lookaside files | no byte lost or repeated, retries are bounded, a blob is stored under its digest |
| OCI layout (`oci/layout`) | blobs, `index.json` | put, reuse, commit, delete | a directory, one process after another | the index names existing blobs, also after a crash |
| registries (`pkg/sysregistriesv2`, `pkg/shortnames`, `docker/docker_image_src.go`) | cached configuration, alias file | load, merge, invalidate, resolve, try mirrors | files that others edit | a cache returns what it would load; an image is read from where the configuration says |
| credentials (`pkg/docker/config`) | auth files, credential helpers | get, set, remove | other processes, docker | credentials go to the registry they were given for |
| other transports (`directory/`, `docker/archive`, `docker/daemon`, `openshift/`, `ostree/`, `sif/`, `tarball/`), `pkg/blobcache`, helpers | files, tar streams | put, get | file system, daemons | see section 5 |

What is hard here: several calls that share a semaphore, each with a goroutine
per layer, all of which can fail or be cancelled anywhere; layers that arrive at
a store in any order and are committed by whoever comes at the right moment;
records in shared caches, where one wrong record substitutes wrong content much
later; connections that break off or are answered early; files that other
processes rewrite or that a crash leaves torn; a dozen options that all bear on
whether one byte of a manifest may change. `PROJECT.json` lists the hazards, each
with its line and the properties that would catch it.

## 2. Modules

| Module | Models | State and actions |
|---|---|---|
| `Compression` | algorithms, base variants, `CandidateCompressionMatchesReuseConditions` | operators |
| `Prioritize` | `prioritize.go`: candidate templates, comparison, the two limits | operators |
| `BlobFacts` | the facts that are true of the blobs; only these are recorded | constants and assumptions |
| `BlobInfoCache` | the contract of `BlobInfoCache2`: the abstract specification | `uncompressedOf`, `tocOf`, `compressorOf`, and when a blob was `seen` at each location; one action for each `Record*` |
| `MemoryCache` | `memory.go` | its maps, with the reverse index `digestsByUncompressed`; each method holds the mutex and is one action |
| `SqliteCache` | `sqlite.go` | its tables, the shared handle and its reference count, each client's transaction; `transaction` fetches the handle in one step and uses it in another |
| `BoltCache` | `boltdb.go` | the global map of path locks with reference counts, the file with its buckets, each goroutine between `lockPath`, open, transaction and `unlockPath`; another process removes the file |
| `CopyImages` | `Image`, the skeleton of `copySingleImage`, the loop of `copyMultipleImages`, `copyLayers`, `copyConfig`, and `semaphore.Weighted` (external) | a program counter per call, a state per layer goroutine, count, queue and grants of each semaphore |
| `BlobPipeline` | `copyBlobFromStream` and its steps, the DiffID of `copyLayerFromStream`, `recordValidatedDigestData` | one blob as a sequence of what was done to a content |
| `ManifestConversion`, `ImageUpdate` | `determineManifestConversion`; `UpdatedImage`, `UpdateLayerInfos`, `updatedMIMEType`, the conversions | operators |
| `CopySingleImage` | `copySingleImage` and what it calls, sequentially | a job, the plan, the edits, the stored layers and manifest |
| `CopyMultiple` | `copyMultipleImages`: `prepareInstanceCopies`, instance edits of both list formats, sorting, conversion with retries, signing | the list, the edits collected so far, what was copied, the candidates left |
| `PolicyConfig` | the strict reader of `policy.json`, the constructors and their options, the preparation of trust roots | the members read so far, one action per member; what using the accepted requirement does |
| `PolicyEvaluation` | `PolicyContext.IsRunningImageAllowed` and `GetSignaturesWithAcceptedAuthor`, requirements, reference matches, `UnparsedImage` | the tag and signatures of a source that changes, the caches, the position in requirements and signatures |
| `StorageDestination` | `storage_dest.go`: `PutBlobWithOptions`, `PutBlobPartial`, `TryReusingBlobWithOptions`, `queueOrCommit`, `commitLayer`, `createNewLayer`, `trustedLayerIdentityData`, `CommitWithOptions`, `computeID` | the lock-protected maps, the queue and its index, the store's layers and images, a step per critical section |
| `DockerClient` | `makeRequest` and below: `detectProperties`, `setupRequestAuth`, tokens, scope retries, `429` | a program counter per request, the token cache, the detection's once-guard, a clock |
| `BodyReader` | `body_reader.go` | offset, connection, what the caller received, the clock of the heuristic |
| `BlobChunks` | `GetBlobAt`, `splitHTTP200ResponseToPartial`, `handle206Response`, `bufferedNetworkReader`, `signalCloseReader` | three goroutines, their channels and buffers; an answer of the whole blob, of one range (that of the chunk, or several chunks coalesced) or of parts; panics of the reader and of its user |
| `DockerUpload` | `TryReusingBlobWithOptions`, `PutBlobWithOptions`, `mountBlob`, `UploadReader` | the registry's repositories, the stream and who reads it under which lock |
| `DockerSignatures` | `PutManifest`, `PutSignaturesWithFormat`, `getSignatures*`, `deleteImage` | manifests, lookaside files, attachments, extension, and the position in a loop over files; another process that reads and replaces the attachments at any time |
| `OCILayout` | `oci_dest.go`, `oci_delete.go` | blobs (whole or torn, with those whose rewriting was interrupted), `index.json`, a shared blob directory with the files other layouts use, one session with its goroutines |
| `RegistriesConf` | `getConfig`, `tryUpdatingCache`, `loadConfigFile`, `postProcessRegistries`, `updateWithConfigurationFrom` | files on disk, the cache and its mutex, a call per goroutine that reads one file at a time |
| `ImagePull` | `shortnames.Resolve`, `Record`, the alias file, `findRegistryWithParsedConfig`, `rewriteReference`, `PullSourcesFromReference`, `newImageSource` | the alias file under its lock, also after a write that failed, processes between prompt, record and attempts, with the credentials each attempt is given |
| `DockerConfig` | `getCredentialsWithHomeDir`, `SetCredentials`, `RemoveAuthentication`, `RemoveAllAuthentication`, `findCredentialsInFile` | files of four kinds, with what they held at the beginning, helpers, processes between reading and replacing a file |
| `MC*` | values of the constants for TLC | |
| `MemoryCacheProofs` (with the contract `BlobInfoCache`), `SqliteCacheProofs`, `CopyImagesProofs`, `CopyingProofs`, `StorageDestinationProofs`, `DockerClientProofs`, `TransfersProofs`, `RegistryConfigProofs` | theorems (section 4) | |

How they fit together. `CopyImages`, `CopySingleImage`, `CopyMultiple` and
`BlobPipeline` are views of the same code: the first keeps the concurrency and
reduces a layer to "copied, failed or skipped"; the second keeps the decisions
about one image and copies its layers in one step; the third keeps the list and
copies an image in one step; the last keeps the data of one blob. `BlobPipeline`
shows what `BlobFacts` assumes, that only true facts are recorded; `MemoryCache`,
`SqliteCache` and `BoltCache` are compared with the contract `BlobInfoCache`.
`PolicyConfig` shows that an accepted requirement can be used, which
`PolicyEvaluation` takes for granted; `RegistriesConf` produces the merged
configurations that `ImagePull` takes as inputs.

Three modules compose parts for TLC. `MCCopying` has the sequential parts of a
copy, `MCRegistryConfig` what decides how a registry is accessed, `MCTransfers`
what is read and written outside the process. The parts of each share no mutable
state, so a behaviour is about one of them, chosen in `Init` by the variable
`part`; the variables of the others are `Unused`. A property `P` of a part is
there `part = "..." => Part!P`.

Abstractions worth knowing:

* A digest and a blob are the same thing; a digest is a number where the code
  orders digests as strings (`Prioritize`). Times are numbers up to a bound.
* `semaphore.Weighted` has units of one; a blocked `Acquire` is a waiter in a
  queue, a grant is a closed channel the waiter sees in a later step, and a
  cancelled waiter that finds itself granted gives the unit back, as the
  library does.
* The deferred calls of a layer goroutine run in the order of the code:
  `copyGroup.Done` first, the release of the unit after it, so that
  `copyLayers` can return in between.
* The media type and annotations in a source manifest may be wrong in
  `BlobPipeline`, and the source may serve data its digest does not match. In
  `CopySingleImage` the source manifest is right, except that
  containers-storage serves layers uncompressed and says so.
* The pipe between the compressing goroutine and its reader is not split into
  single reads; a destination that stops reading early is modelled.
* In `StorageDestination` a blob with a table of contents has two views, the tar
  stream and the files of the TOC, which may differ: that is what the trusted
  identity of a layer is about. A layer ID is the sequence of what is hashed.
* Cryptography compares who signed what. Hosts and paths are sequences of labels
  where the code matches prefixes (`ImagePull`, `DockerConfig`); in
  `RegistriesConf` names are opaque and the constant `Text` says what the code
  asks of each.
* The registry, the lookaside server, the token server and other processes may
  answer or act in every way the code distinguishes.

## 3. Runs

| Run | What it shows | Instance |
|---|---|---|
| `memory_cache` | candidates offered for a blob have its content, both ways (`SubstitutionIsSound`); what is said of their compression is true and the limits keep the best (`CandidatesAreTheBest`); the reverse index is exact and lookups agree with the contract (`MapsAgree`); every step is one of the contract (`ImplementsBlobInfoCache`) | 4 digests (two contents; one of them also in gzip and zstd:chunked), one TOC, 2 locations, 3 sightings (one more than the limit on candidates) |
| `sqlite_cache` | the tables implement the contract as well; a transaction between `Open` and `Close` of its own client never loses its handle, and a handle is open only while referenced (`HandlesAreSafe`) | the same with 1 location and 1 sighting, 2 clients |
| `copy_images` | units are balanced (`UnitsAreAccounted`); the limit holds over all calls, and a serial call copies one blob at a time (`ConcurrencyIsBounded`); manifests come after all layers; nothing is copied after close; every call returns and every unit comes back (`CallsEndWithoutLeaks`) | 2 calls, one of them serial, on one shared unit; 2 instances of 2 layers, 1 other format |
| `storage_destination` | one goroutine commits at a time; when nobody does, the layer whose turn it is has not been queued, or its goroutine came to a layer that it could not commit; the only internal error that is reachable is the one for an unannounced empty layer (`CommitQueueIsSound`); a layer has the content its ID and records claim (`LayersAreAuthentic`); every image is committed or given up | two images in turn, of a plain layer and one with a TOC, 26 environments (config known or not, or too short, verified digests, a view that differs, an empty layer), three stores |
| `docker_client` | a token is used only for its scope and if it was valid when looked up, credentials go to the registry only, a body is sent once, retries are bounded (`RequestsAreSound`); every request returns | 2 requests of 3 kinds, 1 further scope, 2 attempts |
| `copying` | the pipeline: `RecordsAreTrue`, `UploadIsWanted`, `ResultDescribesUpload`; one image: `StoredImageIsConsistent`, `OptionsAreHonoured`, `EveryFormatIsTried`; a list: `ListIsSound`; a policy file: `PolicyIsConsistent`; a decision: `DecisionIsSound` | source blobs of 2 contents; images of 1 and 2 layers in every format; lists with equal, cloned and zstd instances; 3 members of a requirement; 2 changes of the tag and 2 calls |
| `registry_config` | `ConfigIsCurrent`, `PullsAreSound`, `CredentialsAreSound` | 2 goroutines, 5 files, 1 edit; a puller and an editor of aliases, 7 names, 3 configurations, 2 edits; 2 processes, 3 keys, 2 operations over what docker left behind |
| `transfers` | `DownloadIsExact`, `RetriesAreBounded`; `ChunksAreExact`; `UploadsAreSound`; `SignaturesAreExact`; `LayoutIsSound`; `BoltIsSound` | blobs of 5 bytes, 6 lists of chunks, 2 buffers; streams of 3 chunks; 5 signatures, 3 calls and another writer; 2 sessions with 2 goroutines; 3 goroutines and 4 lock objects |
| `skipped_decryption` (violation) | the short-circuit for an existing destination is documented as skipping a no-op; it can skip a copy that decrypts | part `image` |
| `storage_image_id` (violation) | two images with different configs get one ID | as `storage_destination`, an empty store |
| `blob_chunks_panic` (violation) | closing a partial download may crash the process | part `chunks` |
| `mirror_credentials` (violation) | a bearer token goes to a mirror in another domain | part `pull` |

The properties of the combined runs, in words:

* `RecordsAreTrue`: pairs and compressor names recorded in the cache are true,
  and no pair involves encrypted data. `UploadIsWanted`: the stored blob has the
  wanted content and form, and keeps its digest when it must.
  `ResultDescribesUpload`: the edits and the DiffID returned describe it.
* `StoredImageIsConsistent`: manifest, layers and reported result agree, in an
  acceptable format. `OptionsAreHonoured`: what may not change is kept;
  encryption and decryption that were asked for happen, for every layer but the
  foreign ones that are skipped, which stay as they were.
* `ListIsSound`: every instance of the source is listed with its platform and
  the digest it was stored under, and the rest are clones, which come after what
  old clients choose; a list that may not change is kept, signatures are for the
  list that was stored, and a conversion does not change what clients choose.
* `PolicyIsConsistent`: a policy that was accepted never meets an error marked
  "Internal inconsistency" later. `DecisionIsSound`: the manifest the caller
  gets after the decision is the one the accepted signature names.
* `ConfigIsCurrent`: a configuration is never older than one returned before the
  call began, or than an invalidation; and it is the merge the manual describes.
  `PullsAreSound`: aliases are what successful edits made them, starting again
  from what a failed write left in the file (`EncodeFails`: nothing, a part that
  still parses, or something that does not); a reference is read with its tag or
  digest; mirrors are used as restricted and in order; `DockerAuthConfig`, and a
  token given beside it, stays in its domain, while a token given alone does not
  (`mirror_credentials`). `CredentialsAreSound`: they are found where they were
  put, for that registry only, and docker's file keeps the rest as it was at the
  beginning; `Shadowed` names the logins that a lookup does not find, because
  another entry or helper comes before: a namespace of a registry with a helper;
  in docker's file, Docker Hub if a helper or another entry has one of its names;
  and, when docker's file alone is written, a registry of which a helper that is
  configured before it has credentials.
* `DownloadIsExact`: the caller receives a prefix of the blob, all of it at
  success, if the server tells lengths. `ChunksAreExact`: each stream has the
  bytes of its chunk, and the end is reported, unless the server coalesces chunks. `UploadsAreSound`: what is
  reported or recorded as stored is there, whole, and the stream is not read
  after the call returned. `SignaturesAreExact`: after a successful write the
  source reads back the simple signatures that were written, in order and with
  nothing that was not written, if there are fewer than it is willing to read;
  attached signatures stay, whoever added them, unless two processes attached
  some to one manifest at the same time: the code reads the attachments and
  replaces them, and one of the two is lost. `LayoutIsSound`: images pushed and
  neither replaced nor deleted keep all their files through failures and crashes,
  and so do other layouts in a shared directory; blobs are whole, but a manifest
  may be torn if a later write of the same manifest, in place, was interrupted;
  and the index names the images while it is not torn itself. `BoltIsSound`: one goroutine has the file open, and the
  buckets agree with each other.

**Bounds.** Each is a `CONSTANT` named in a `.cfg`. Four digests give every
relation two digests can have: unrelated, same content compressed differently,
compressed and uncompressed. One shared unit is the instance where calls compete
hardest: a lost unit blocks at once, and a second blob in flight already breaks
the limit; the proofs of section 4 cover every capacity. Two layers give a
started and an unstarted one when the loop fails; two instances a second pass
over released state; one other format a retry. Two layers at a storage
destination give a parent and a child in both orders of arrival, two images one
that meets the layers of another. Two contents tell a wrong content from the
right one. Five bytes are more than the minimum progress plus a retry, with two
buffers fewer than the bytes of a request. Three goroutines and four lock objects
let a lock be dropped, created anew and waited for at the same time. One edit of
`registries.conf` is enough for a load that began before it and ended after it.

**Symmetry** is used only where no liveness is checked: locations
(`memory_cache`), goroutines (`registry_config`), layout workers and the
goroutines and locks of BoltDB (`transfers`). They are only compared.

**Fairness.** `CopyImages!FairSpec` has weak fairness on each call's goroutine
and each layer's goroutine, `StorageDestination!Spec` on each layer's goroutine
and on the caller that commits, `DockerClient!Spec` on each request: the Go
scheduler runs every runnable goroutine, and calls of the transports and of
servers are taken to end, with success or failure. Nobody has to cancel. A
goroutine that waits (for a unit, for another goroutine's detection) is not
enabled, so that fairness says nothing about its being woken: that is what these
runs show.

**Deadlock** is checked in every run but `docker_client`, where the clock may
reach its bound after all requests have returned. States where everything has
ended have an explicit stuttering step; in the combined runs `MayStop` is that
step for the parts that end with a bound on calls or changes.

**Findings.** Each of the four violations is a disagreement between what the
repository says and what the code does, recorded in `PROJECT.json` with both
lines.
1. `copy/copy.go:122` describes the short-circuit as making a no-op copy
   cheaper; `copy/single.go:220` does not look at `OciDecryptConfig`.
2. `storage/storage_dest.go:857`: with layers identified by TOCs the image ID is
   a digest of the TOCs only, and the config does not enter, against the comment
   at 818.
3. `docker/docker_image_src.go:775`: `Close` of the read-ahead reader closes the
   channel of empty buffers while the goroutine may be about to receive from it,
   gets nil and dereferences it.
4. `docker/docker_image_src.go:140`: the credentials are dropped for a mirror in
   another domain only if `DockerAuthConfig` is set, so that
   `DockerBearerRegistryToken` alone is sent there, against 139.

Other disagreements are modelled as the code behaves, and the passing properties
say what holds in spite of them:
* After a network error the next read of a partial download gets nil from the
  closed channel of full buffers and panics (`docker_image_src.go:803`);
  `signalCloseReader.Close` always makes that read. `ChunksAreExact` speaks of
  what was handed out before.
* The body of a `206` answer that is not multipart is one stream, however many
  chunks were asked for (`docker_image_src.go:318`), and a multipart answer that
  breaks off gives two error values (336), against "a single error value" at 383.
* With simple signatures in the same call, sigstore ones are written to the
  lookaside or the extension as well (`docker_image_dest.go:622`, against 602).
  `SignaturesAreExact` does not say whether they are read there.
* The second loop of `computeID` wants an identity for empty layers, which
  `commitLayer` does not need to commit them (`storage_dest.go:841`):
  `CommitQueueIsSound` has that nothing else leads to an internal error.
* Foreign layers are skipped before it is asked whether they are to be encrypted
  (`copy/single.go:473`, against `copy/copy.go:106`): `OptionsAreHonoured` has that
  these alone are not.
* A layer that is encrypted on its way gets a compressor name for the digest of
  the encrypted upload (`copy/compression.go:367`, against 323): `RecordsAreTrue`
  has that no pair of digests involves encrypted data.
* Others have no bearing on a property: a path member that is present and empty
  counts as absent in a sigstore requirement (`policy_config_sigstore.go:181`,
  against `docs/containers-policy.json.5.md:347`); whether an entry is blocked is
  looked up for the relocated name, not the one that matched
  (`docker_client.go:253`, against `docs/containers-registries.conf.5.md:68`);
  BoltDB stores the unknown compressor right after it deleted the record
  (`boltdb.go:339`, against 32); a logout leaves credentials that a later lookup
  finds (`config.go:404`, against 368), and removing all credentials empties
  `credHelpers` in memory only (`config.go:459`, 736).

## 4. Proofs

All theorems hold for every value of the constants under the named assumptions;
`PROJECT.json` lists them.

**`MemoryCacheProofs`** rests on `DigestsAssumption`, `TruthAssumption` and
`TimeAssumption` of `BlobFacts`. About the contract `BlobInfoCache`: `TypeOK` is
inductive, and the invariant behind the others is `PairsAreTrue`, that every pair
in the cache is a true one. It is needed because a lookup joins two pairs, and
equality of content only follows if both are true. From it `SubstitutionSound`
and, as an action property, `UncompressedDigestStable`. About the in-memory
cache: `IndexInvariant` (`PairsAreTrue` and `IndexAgrees`) is
inductive. `IndexAgrees` is not on its own: the code only adds to the index, so
a pair overwritten by a different one would leave its old entry there, and it is
the truth of all recorded pairs that excludes this. From it `IndexCorrect` and
`LookupsCorrect`, together `MapsCorrect`; `SubstitutionCorrect`, that the maps
offer only blobs of equal content and both ways; and `MemoryCacheRefines`:
initial states map to initial states and each method maps to the operation of
the same name in `BlobInfoCache`.

**`CopyImagesProofs`** rests on `CopiesAssumption`, `ThreadSafeAssumption`,
`CapacityAssumption` and `SizeAssumption`; the numbers of calls, instances,
layers and units are arbitrary.
* `ControlInv` relates a call's program counter to the states of its layer
  goroutines (`LayersInv`), to how far it has got (`ProgressInv`) and to the
  shared unit it holds (`OuterInv`). It needs no counting and gives
  `ManifestsAreComplete` and `ClosedMeansUnused`.
* `SemInv` relates each semaphore to the program counters: `QueueInv` (who
  waits, who has been granted, and that nobody waits while a unit is free) and
  `CountInv` (the count is the cardinality of the set of holders). The argument
  for every action is that the set of holders gains or loses one element
  exactly when the count changes by one, or that a holder is replaced by
  another. It gives `UnitsBalance`, `TypeCorrect` (the count stays between 0 and
  the size, which the type invariant alone does not imply; together
  `UnitsAccounted`) and `SerialCalls`.
* `InFlightLimit` follows from `UnitsBalance` on the shared semaphore by an
  injection: each blob in flight is sent to a unit, its own if the call is
  parallel, the call's outer unit if it is serial, and a serial call has at most
  one blob in flight by `SerialCalls`. Both together are `ConcurrencyBounded`.

**`SqliteCacheProofs`** rests on `ClientsAssumption` (finitely many clients) and
the assumptions of `BlobFacts`.
* `HandlesSafe`: `HandleInvariant` is type correctness and `HandlesAreSafe`
  itself. What makes it inductive is that `refCount` is the number of clients
  between `Open` and `Close`: so it never goes below zero, and a `Close` that
  reaches zero leaves nobody with a bracket who could use the handle.
* `SqliteCacheRefines`: each committed transaction is one operation of
  `BlobInfoCache`. It needs `SpecificNeedsBase`, that a row with a specific
  compression variant has a row with its base variant; otherwise a later record
  of the base alone would revive a variant no lookup had shown.
* `TablesCorrect`: the lookups with their joins are the abstract ones.

**`CopyingProofs`** is about four parts of `MCCopying`.
* `DecisionSound` (assumption `DecisionAssumption`: requirements and lists are
  well-formed values). `DecisionInvariant` says that the cached manifest is the
  one asked for, that every requirement passed so far allows the image, and that
  the signatures accepted so far are accepted by some requirement and refused by
  none that was looked at. The argument is that verdicts last: the manifest, once
  cached, and the signature are what a verdict depends on, while the source may
  change and time only grows (`Evolves`, `VerdictsLast`).
* `RecordsTrue`, `UploadWanted`, `ResultTrue` (assumption `ContentsAssumption`:
  contents are not names of transformations). None of the three is inductive:
  what is true at the end depends on all steps before. `BlobInvariant` adds what
  each step leaves to the next: `OriginalIsKnown` (the data seen by the pipeline
  is what was served, or that decrypted; a known digest means unchanged data),
  `DetectionIsRight` (up to the variant), `CompressionIsDescribed` (the step data
  is true of the stream) and `UploadIsKnown` (the upload is the stream of a
  source that served what was wanted, or the wanted blob was there).
* `PolicyConsistent` (`PolicyAssumption`: the members of nested objects have
  decoded values). `PolicyInvariant` says that between two requirements the one
  read last satisfies its constructor, with its nested objects
  (`NestedAreConstructed`), and which lists have been filled
  (`SectionsAreFilled`). The argument is that the counts of the constructors and
  of the evaluation are cardinalities of the same sets, although one counts
  members of the document and the other the sources prepared from them.
* `StoredImageConsistent`, `OptionsHonoured`, `FormatsTried`
  (`ImagesAssumption`: images have layers, and formats, options and algorithms
  are of the known ones). The properties only speak of the end of a copy;
  `ImageInvariant` says what the steps before leave to it. `BlobsFit`: each layer
  at the destination is what its edit makes of the source's layer (`Edited`), and
  without edits the layers are the source's own. `PlanFits`: the candidates are
  the supported formats, each at one place, and the pending conversion is to the
  candidate at the current place. `TriedFits`: what was tried are the candidates
  before it. `CryptoFits`: a layer that is not skipped is encrypted if that was
  asked for, and not otherwise if it was to be decrypted; a skipped one
  (`SkippedFits`) is the source's own. The main lemma, `UpdatedImageDescribes`, is about `UpdatedImage`:
  every conversion passes through layers schema2 can describe (`ThroughSchema2`),
  and the edits made before and after it add up to the edit of the copy
  (`EditsAddUp`). That a plan exists only for compressions layers can really have
  is a consequence (`PlanFacts`), and so is that the candidate list is not empty
  where the code marks that as an internal error.

**`StorageDestinationProofs`** rests on `ManifestAssumption`,
`ImagesAssumption`, `ConfigAssumption` and `StoresAssumption` (what the store
holds at the beginning came through this code).
* `CommitQueueSound`: `QueueInvariant` has at its centre that whoever commits is
  the goroutine of the layer at `currentIndex`, or the caller of
  `CommitWithOptions` after all of them (`Committer`, `CommittedInOrder`,
  `MainIsLast`); that if the layer at `currentIndex` waits and nobody commits, its
  goroutine has ended at a layer, this one or a later one, which is not committed
  although all before it are (`QueueStopped`: a loop that stops short of a layer
  it could commit breaks this); and that a layer is identified before it is
  queued, so that of the errors the code calls internal only that of an empty
  layer nobody announced is left (`InternalErrorsAreExplained`).
* `LayersAuthentic`: `ContentInvariant` says that what is known of a blob or of a
  layer by its index is true of the content (`BlobsAreTrue`, `LayerIsKnown`),
  that the trusted identity a goroutine took under the lock still is the
  layer's when it is used (`TrustedIsTrue`), and that committed layers are in the
  store with their parents.

**`DockerClientProofs`** rests on `KindsAssumption`, `BackoffAssumption` and
`LifetimesAssumption`. `RequestsSound` needs `Detecting` (one request at a time
is inside the once-guard, and its result stays), `RequestIsCounted` (how often
each request has been sent, by its program counter and the retries left),
`CacheFits` (a cached token has the scope it is filed under) and `RequestIsSafe`
(what a request carries fits it).

**`TransfersProofs`** is about the parts of `MCTransfers`; each has an assumption
that gives its constants their types.
* `DownloadsAreExact`: `ConnectionContinues` says that an open connection goes on
  exactly at the offset the caller has reached.
* `RetriesBounded`: `RetriesArePaidFor` charges every request to the progress or
  to the time since the last one; the lemmas are about integer division.
* `UploadsSound`: `BodyIsRead` relates the position of the stream to the
  transport, which may go on reading after the answer, and `CandidatesAreTried`
  says what has been tried.
* `SignaturesExact`: `FilesAreWritten` says how far the files of a list have been
  written and that, once the clearing loop has begun, the file after the list is
  the first it removes: wherever it stops, a source stops there. `SharedIsRead`
  covers the places that are read before they are replaced, by this destination
  and by another process: what was read still is all there is, unless the two
  overlapped.
* `ChunksExact`: the tokens that are buffered and what the network has yet to
  give follow each other in the body (`TokensInOrder`), so the place reached is
  that of the first token. `WholeIsSplit` relates it to `currentOffset` and to
  the bytes left of the stream, also after a stream that the consumer closed
  early; `PartsAreSplit` does so for the parts of a multipart answer, and
  `BodyIsHandedOut` for an answer of one range. The theorem is about servers that
  do not coalesce chunks; a crash of the process ends a behaviour and what was
  handed out before it is exact.
* `LayoutsAreSound`: `PushIsClosed` (what a push has put is there with all it
  uses) and `PushIsRight` (the entries it will write keep the other images) carry
  the promise through a push; for a deletion the argument is a count: a digest
  is at finitely many places of the index, `countBlobs` is the cardinality of
  that set, and if the places of the deleted image are as many as all places,
  no other entry has one, and nothing is removed from a shared directory that
  others use. `FilesAreKept` says that only files being rewritten, or whose
  rewriting was interrupted, are torn. Blobs are put before the primary manifest,
  the order that `PutManifest` of the interface asks for.
* `BoltSound`: `LockInvariant` counts the users of a path lock as the reference
  count does, so that a lock is dropped from the map exactly when nobody holds
  or waits for it; `BucketInvariant` relates the buckets to the true facts.

**`RegistryConfigProofs`** is about the parts of `MCRegistryConfig`.
* `ConfigsAreCurrent` (`ConfAssumption`: a drop-in has one place in the order,
  and the files a context may read are among the files). `ConfInvariant` says
  that what a goroutine has merged while it holds `configMutex` is the merge of
  the files read so far, and that no version it has read is older than one
  promised. Promises are only made with the mutex held, of versions that were on
  disk, so none is made between the reads of a load and its end.
  `SettingExtends` and its counterpart for tables say what one more file does to a
  merge, which replaces the induction over the list of drop-ins.
* `PullsSound` (`PullAssumption`: what `postProcessRegistries` guarantees of the
  mirrors). `PullInvariant`: the holder of the alias file's lock has computed its
  edit from the file as it is, a failed write included; the credentials of every
  attempt are those `newImageSourceAttempt` leaves; every candidate keeps the tag
  and digest of the input (`Kept`); of the mirrors in use for a reference, each was tried or is
  before the process, and those tried come first (`Divided`).
* `CredentialsSound` (`AuthAssumption`: users pass registries and namespaces, at
  least one helper is configured, and entries that were there before are for the
  registry they are under). `AuthInvariant`: every entry of a file or helper, and
  every edited content not written yet, has credentials of the registry it is
  under (`BelongsTo`), from which `Covers` follows for every way a lookup
  matches; an operation that met no error is at its first helper; and the
  credentials of the last login are where `Recorded` says, which is where a
  lookup looks first unless the login is `Shadowed`. No condition on other
  processes is needed, except that none is inside an operation: an operation that
  undoes a login also ends after it.

In the three combined modules a behaviour is about one part, so that `part = "..."
=> Invariant` is inductive if the part's own `Init` and `Next` say so.

**Only model-checked:**
* Liveness under fairness, which this prover does not do: `CallsEndWithoutLeaks`,
  `EveryImageIsDecided`, `EveryRequestReturns`.
* What rests on sorting lists, where a proof is an induction over data:
  `CandidatesAreTheBest` (the order of `Prioritize` and its limits) and
  `ListIsSound` (stable sorting of instances).

To run: `tlc -config CopyImages.cfg MCCopyImages`, and so on; `tlapm
CopyImagesProofs.tla`.

## 5. Not modelled

Every component and the reason is in `PROJECT.json`. In short: config blobs,
history and schema1 IDs in conversions (data that no property tells apart);
progress reporting; cryptography, JSON and TLS; sequential file and tar output
(directory, docker archive and daemon, OCI archive) and thin adapters over other
services (OpenShift, OSTree, SIF, tarball); the blob cache wrapper, which takes
its decisions from the transport it wraps; resolving references in c/storage;
`GetAllCredentials`. Schema creation of the SQLite database is reduced to its
outcome.

Hazards against which the code does not protect, and which no passing property
excludes:
* Concurrent writers of one `index.json` (no lock is taken and nothing is
  promised); the model has one session at a time.
* A crash while `index.json`, or a manifest that is there already, is written in
  place: the models have the torn files, and `LayoutIsSound` says only what is
  left then.
* Two processes that edit one auth file at once can lose an update: `DockerConfig`
  has the interleavings, and `LoginIsEffective` speaks of the operation that ended
  last.
* A write of the alias file that fails after the file was truncated loses aliases,
  silently if what is left parses: `ImagePull` has it, and `NoEditIsLost` starts
  again from what is left.
* Two processes that attach signatures to one manifest at once can lose one:
  `DockerSignatures` has the other writer, and `SharedSignaturesStay` exempts the
  manifests where they overlapped.
* What the findings and the disagreements of section 3 describe.

## 6. Plan

Done: the caches and their contract; the concurrency of `Image`; the pipeline of
a blob; the copy of an image and of a list; policies; the storage, registry and
OCI destinations; registries, short names and credentials; proofs about the
caches and their contract, `CopyImages`, the pipeline, the copy of an image,
reading a policy and deciding by it, the storage destination, the registry client
and its transfers, the OCI layout, registries, short names and credentials. What
is left, in this order:

1. Proofs about the copy of a list and about the order of the candidates, once
   sorting is stated without folds: what is chosen, rather than how a list is built.
2. An abstract image store that `StorageDestination` and `OCILayout` implement.
3. The tarfile writer and `pkg/blobcache`, if properties beyond their formats
   turn up.
