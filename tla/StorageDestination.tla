-------------------------- MODULE StorageDestination --------------------------
(***************************************************************************)
(* The containers-storage destination (storage/storage_dest.go): layers of *)
(* one image arrive from concurrent goroutines as files, staged partial    *)
(* pulls or reused layers; queueOrCommit applies them to the store in      *)
(* order while others still arrive; CommitWithOptions applies the rest and *)
(* creates the image.                                                      *)
(*                                                                         *)
(* Digests stand for what they are digests of: a layer's DiffID is its     *)
(* content.  A blob with a table of contents (TOC) has two views, the tar  *)
(* stream and the files the TOC lists; they may differ.  A layer ID is the *)
(* sequence of the components that layerID hashes.                         *)
(***************************************************************************)
EXTENDS Integers, Sequences, FiniteSets

CONSTANTS
  Blobs,            \* digests of compressed layers
  DiffIDs,          \* digests of uncompressed layers
  TOCs,             \* digests of tables of contents
  None,             \* "" and missing map entries
  N,                \* number of layers
  LayerBlob,        \* [Index -> Blobs]: the source manifest
  BlobDiffID,       \* [Blobs -> DiffIDs]: the tar view of a blob
  BlobTOC,          \* [Blobs -> TOCs \cup {None}]: its annotation
  Environments,     \* possible values of env
  InitialStores(_), \* possible contents of the store, given env
  Images            \* how many images are stored, one after another

Index == 0..(N - 1)
Main == N           \* the goroutine that calls CommitWithOptions
Workers == 0..N
Digests == Blobs \cup DiffIDs
Unknown == "unknown"
NotYet == "not yet available"
TooFew == "image config has too few DiffID values"

(* noted: NoteOriginalOCIConfig was called; config: RootFS.DiffIDs, <<>>   *)
(* if it has no values (schema1, or an image that does not list them);     *)
(* configID: the digest of the config; empty: the EmptyLayer entries of a  *)
(* schema1 manifest; als: TOCs the additional layer store has; verify:     *)
(* c/storage computes the digest of a partial pull; sizeKnown: the         *)
(* manifest has sizes; tocView: the content a TOC describes.               *)
EnvironmentType ==
  [noted : BOOLEAN, config : Seq(DiffIDs), configID : STRING,
   empty : SUBSET Index, als : SUBSET TOCs, verify : BOOLEAN,
   sizeKnown : BOOLEAN, tocView : [TOCs -> DiffIDs]]
LayerRecords == [id : Seq((DiffIDs \cup TOCs) \X BOOLEAN), diffID : DiffIDs \cup {None},
                 toc : TOCs \cup {None}, blob : Digests \cup {None}, content : DiffIDs]

ASSUME ManifestAssumption ==
  /\ N \in Nat
  /\ None \notin Blobs \cup DiffIDs \cup TOCs
  /\ LayerBlob \in [Index -> Blobs]
  /\ BlobDiffID \in [Blobs -> DiffIDs]
  /\ BlobTOC \in [Blobs -> TOCs \cup {None}]
  /\ \A b \in Blobs \cap DiffIDs : BlobDiffID[b] = b   \* an uncompressed blob
ASSUME ImagesAssumption == Images \in Nat \ {0}
ASSUME ConfigAssumption ==
  /\ DiffIDs \cap {Unknown, NotYet, TooFew} = {}
  /\ Environments \subseteq EnvironmentType

ContentOf(d) == IF d \in Blobs THEN BlobDiffID[d] ELSE d

(* What a layer record says is true of its content, given the content that *)
(* the TOCs describe.                                                      *)
LayerIsTrue(l, tocView) ==
  LET top == l.id[Len(l.id)] IN
  /\ l.diffID \in {None, l.content}
  /\ l.toc # None => tocView[l.toc] = l.content
  /\ l.blob # None => ContentOf(l.blob) = l.content
  /\ l.content = IF top[2] THEN tocView[top[1]] ELSE top[1]

(* Layers made from a full blob were extracted, which gives the DiffID.    *)
BlobLayersHaveDiffIDs(layers) == \A l \in layers : l.blob # None => l.diffID # None

(* A layer is identified by a TOC only where the files the TOC lists were  *)
(* never compared with a DiffID.                                           *)
TOCsAreUnverified(layers) ==
  \A l \in layers : l.id[Len(l.id)][2] =>
    \E k \in layers : k.toc = l.id[Len(l.id)][1] /\ k.diffID = None

ASSUME StoresAssumption ==   \* earlier images came through this code, too
  \A e \in Environments : \A layers \in InitialStores(e) :
    /\ layers \subseteq LayerRecords
    /\ BlobLayersHaveDiffIDs(layers) /\ TOCsAreUnverified(layers)
    /\ \A l \in layers : LayerIsTrue(l, e.tocView)

VARIABLES
  image,        \* which image this is
  env,          \* what does not change while it is stored: see EnvironmentType
  currentIndex, \* s.lockProtected.currentIndex
  queued,       \* s.lockProtected.indexToAddedLayerInfo: the digest
  diffID,       \* s.lockProtected.indexToDiffID
  toc,          \* s.lockProtected.indexToTOCDigest
  blobDiffIDs,  \* s.lockProtected.blobDiffIDs
  files,        \* s.lockProtected.filenames, fileSizes: the digests
  staged,       \* s.lockProtected.diffOutputs: the indexes
  additional,   \* s.lockProtected.indexToAdditionalLayer: the indexes
  cache,        \* options.Cache: blobs and TOCs whose DiffID is known
  storageID,    \* s.indexToStorageID, a function on the committed indexes
  store,        \* the layers of the store
  images,       \* the images of the store
  info,         \* the digest of layer i as the manifest will name it
  pc,           \* where each goroutine is
  work,         \* the index a goroutine commits or stopped at; N: none yet
  trusted       \* commitLayer's trusted

pending == <<queued, diffID, toc, blobDiffIDs, files, staged, additional, cache, info>>
vars == <<image, env, currentIndex, pending, storageID, store, images, pc, work, trusted>>

NoWork == [w \in Workers |-> IF w = Main THEN 0 ELSE N]
NoIdentity == [byTOC |-> FALSE, diffID |-> None, toc |-> None, blob |-> None]
Identities == [byTOC : BOOLEAN, diffID : DiffIDs \cup {None},
               toc : TOCs \cup {None}, blob : Digests \cup {None}]

TypeOK ==
  /\ image \in 1..Images
  /\ env \in EnvironmentType
  /\ currentIndex \in 0..N
  /\ queued \in [Index -> Digests \cup {None}]
  /\ diffID \in [Index -> DiffIDs \cup {None}]
  /\ toc \in [Index -> TOCs \cup {None}]
  /\ blobDiffIDs \in [Digests -> DiffIDs \cup {None}]
  /\ files \subseteq Digests
  /\ staged \subseteq Index /\ additional \subseteq Index
  /\ cache \subseteq Blobs \cup TOCs
  /\ DOMAIN storageID \subseteq Index
  /\ \A i \in DOMAIN storageID : storageID[i] \in Seq((DiffIDs \cup TOCs) \X BOOLEAN)
  /\ store \subseteq LayerRecords
  /\ info \in [Index -> Digests \cup {None}]
  /\ work \in [Workers -> 0..N]
  /\ trusted \in [Workers -> Identities]
  /\ pc \in [Workers -> {"start", "stream", "put", "queue", "begin", "lookup", "check",
                         "create", "loop", "name", "done", "failed", "internal error"}]

Init ==
  /\ image = 1
  /\ env \in Environments
  /\ cache \in SUBSET (Blobs \cup TOCs)
  /\ store \in InitialStores(env)
  /\ images = {}
  /\ currentIndex = 0
  /\ queued = [i \in Index |-> None]
  /\ diffID = [i \in Index |-> None]
  /\ toc = [i \in Index |-> None]
  /\ blobDiffIDs = [d \in Digests |-> None]
  /\ files = {}
  /\ staged = {}
  /\ additional = {}
  /\ storageID = <<>>
  /\ info = [i \in Index |-> None]
  /\ pc = [w \in Workers |-> "start"]
  /\ work = NoWork
  /\ trusted = [w \in Workers |-> NoIdentity]

Goto(w, where) == pc' = [pc EXCEPT ![w] = where]

(* store.LayersByUncompressedDigest, LayersByCompressedDigest, LayersByTOCDigest *)
WithDiffID(d) == {l \in store : d # None /\ l.diffID = d}
WithBlob(d) == {l \in store : d # None /\ l.blob = d}
WithTOC(t) == {l \in store : t # None /\ l.toc = t}

(* The DiffID the config claims for layer i.                               *)
untrustedLayerDiffID(i) ==
  CASE ~env.noted /\ pc[Main] = "start" -> NotYet
    [] env.config = <<>>                -> Unknown
    [] i >= Len(env.config)             -> TooFew
    [] OTHER                            -> env.config[i + 1]

(* A consistent identity for layer (i, b): what was set for the index      *)
(* decides, and the blob's digest counts only if nothing was, or if it     *)
(* agrees.                                                                 *)
trustedLayerIdentityDataLocked(i, b) ==
  LET other == IF b = None THEN None ELSE blobDiffIDs[b]
      byTOC == diffID[i] = None /\ toc[i] # None
      byBlob == diffID[i] = None /\ ~byTOC
  IN  [byTOC  |-> byTOC,
       diffID |-> IF byBlob THEN other ELSE diffID[i],
       toc    |-> toc[i],
       blob   |-> IF other # None /\ (byBlob \/ other = diffID[i]) THEN b ELSE None]

Found(id) == id.byTOC \/ id.diffID # None

Component(id) == IF id.byTOC THEN <<id.toc, TRUE>> ELSE <<id.diffID, FALSE>>
layerID(parent, id) == Append(parent, Component(id))

-----------------------------------------------------------------------------
(* Arrival of layer i, in its own goroutine                                *)

(* putBlobToPendingFile writes the file without the lock, then records it. *)
(* Reading may fail, or the size be wrong.                                 *)
PutBlob(i) ==
  /\ pc[i] = "put"
  /\ \/ LET b == LayerBlob[i] IN
        /\ blobDiffIDs' = [blobDiffIDs EXCEPT ![b] = BlobDiffID[b]]
        /\ files' = files \cup {b}
        /\ cache' = cache \cup {b}
        /\ info' = [info EXCEPT ![i] = b]
        /\ Goto(i, "queue")
     \/ /\ Goto(i, "failed")
        /\ UNCHANGED <<blobDiffIDs, files, cache, info>>
  /\ UNCHANGED <<image, env, currentIndex, queued, diffID, toc, staged, additional, storageID,
                 store, images, work, trusted>>

(* PutBlobPartial: a staged layer, or a fall back to an ordinary download. *)
(* It does not queue the layer.                                            *)
PutBlobPartial(i) ==
  /\ pc[i] = "stream"
  /\ env.noted          \* the callers of this private API note the config first
  /\ LET b == LayerBlob[i]
         t == BlobTOC[b]
         claimed == untrustedLayerDiffID(i)
         computed == IF t = None THEN BlobDiffID[b]
                     ELSE IF env.verify THEN env.tocView[t] ELSE None
         known == IF computed # None THEN computed
                  ELSE IF t \in cache THEN env.tocView[t] ELSE None
     IN
     \/ /\ claimed # TooFew /\ (claimed # Unknown \/ t = None)
        /\ computed = None \/ claimed \in {Unknown, computed}
        /\ diffID' = IF known = None THEN diffID ELSE [diffID EXCEPT ![i] = known]
        /\ toc' = IF t = None THEN toc ELSE [toc EXCEPT ![i] = t]
        /\ blobDiffIDs' = IF t = None THEN [blobDiffIDs EXCEPT ![b] = computed]
                          ELSE blobDiffIDs
        /\ cache' = cache \cup (IF t = None THEN {b} ELSE IF computed # None THEN {t} ELSE {})
        /\ staged' = staged \cup {i}
        /\ info' = [info EXCEPT ![i] = b]
        /\ Goto(i, "done")
        /\ UNCHANGED <<queued, files, additional>>
     \/ /\ claimed = TooFew \/ (claimed # Unknown /\ computed # None /\ computed # claimed)
        /\ Goto(i, "failed")
        /\ UNCHANGED pending
     \/ /\ claimed # TooFew      \* ErrFallbackToOrdinaryLayerDownload
        /\ Goto(i, "put")
        /\ UNCHANGED pending
  /\ UNCHANGED <<image, env, currentIndex, storageID, store, images, work, trusted>>

(* copy: no partial pull.                                                  *)
StreamLayer(i) ==
  /\ pc[i] = "stream"
  /\ Goto(i, "put")
  /\ UNCHANGED <<image, env, currentIndex, pending, storageID, store, images, work, trusted>>

(* The part of tryReusingBlobAsPending that needs no cache and no TOC: a   *)
(* pending file, or a layer of the store; the DiffID it finds, or None.    *)
LocalMatch(b) ==
  IF b \in files THEN blobDiffIDs[b]
  ELSE IF WithDiffID(b) # {} THEN b
  ELSE IF WithBlob(b) # {} THEN (CHOOSE l \in WithBlob(b) : TRUE).diffID
  ELSE None

(* A layer made from the blob has no DiffID: an internal error.            *)
NoDiffID(b) ==
  b \notin files /\ WithDiffID(b) = {} /\ \E l \in WithBlob(b) : l.diffID = None

(* TryReusingBlobWithOptions with CanSubstitute, all under the lock, in    *)
(* the order of the code.  A layer with a TOC that the config should list  *)
(* and does not is refused.                                                *)
TryReusingBlob(i) ==
  /\ pc[i] = "start"
  /\ LET b == LayerBlob[i]
         claimed == untrustedLayerDiffID(i)
         t == IF env.noted /\ claimed # Unknown THEN BlobTOC[b] ELSE None
         refused == t # None /\ claimed = TooFew
         fromALS == t \in env.als
         here == LocalMatch(b)
         viaCache == b \in cache /\ WithDiffID(BlobDiffID[b]) # {}
         tocKnown == t \in cache
         reused(byDiffID) == IF env.sizeKnown THEN b ELSE byDiffID
         usable(layers) == layers # {} /\ (env.sizeKnown \/ \E l \in layers : l.diffID # None)
         reuseAs(d) == info' = [info EXCEPT ![i] = d] /\ Goto(i, "queue")
     IN
     \/ /\ refused
        /\ Goto(i, "failed")
        /\ UNCHANGED <<diffID, toc, blobDiffIDs, additional, info>>
     \/ /\ ~refused
        /\ \/ /\ fromALS
              /\ toc' = [toc EXCEPT ![i] = t]
              /\ additional' = additional \cup {i}
              /\ reuseAs(b)
              /\ UNCHANGED <<diffID, blobDiffIDs>>
           \/ /\ ~fromALS /\ NoDiffID(b)
              /\ Goto(i, "internal error")
              /\ UNCHANGED <<diffID, toc, blobDiffIDs, additional, info>>
           \/ /\ ~fromALS /\ here # None
              /\ blobDiffIDs' = [blobDiffIDs EXCEPT ![b] = here]
              /\ reuseAs(b)
              /\ UNCHANGED <<diffID, toc, additional>>
           \/ /\ ~fromALS /\ here = None /\ viaCache
              /\ blobDiffIDs' = [blobDiffIDs EXCEPT ![reused(BlobDiffID[b])] = BlobDiffID[b]]
              /\ reuseAs(reused(BlobDiffID[b]))
              /\ UNCHANGED <<diffID, toc, additional>>
           \/ /\ ~fromALS /\ here = None /\ ~viaCache /\ tocKnown
              /\ WithDiffID(env.tocView[t]) # {}
              /\ diffID' = [diffID EXCEPT ![i] = env.tocView[t]]
              /\ reuseAs(reused(env.tocView[t]))
              /\ UNCHANGED <<toc, blobDiffIDs, additional>>
           \/ /\ ~fromALS /\ here = None /\ ~viaCache
              /\ tocKnown => WithDiffID(env.tocView[t]) = {}
              /\ usable(WithTOC(t))
              /\ \E l \in WithTOC(t) :
                   LET d == IF tocKnown THEN env.tocView[t] ELSE l.diffID IN
                   /\ env.sizeKnown \/ l.diffID # None
                   /\ diffID' = IF d = None THEN diffID ELSE [diffID EXCEPT ![i] = d]
                   /\ toc' = [toc EXCEPT ![i] = t]
                   /\ reuseAs(reused(l.diffID))
              /\ UNCHANGED <<blobDiffIDs, additional>>
           \/ /\ Goto(i, "stream")       \* no match, or the candidate is not acceptable
              /\ UNCHANGED <<diffID, toc, blobDiffIDs, additional, info>>
  /\ UNCHANGED <<image, env, currentIndex, queued, files, staged, cache, storageID, store, images,
                 work, trusted>>

(* A caller outside of copy lists a layer in its manifest without having   *)
(* called any of the above.                                                *)
Forget(i) ==
  /\ pc[i] = "start" /\ ~env.noted
  /\ info' = [info EXCEPT ![i] = LayerBlob[i]]
  /\ Goto(i, "done")
  /\ UNCHANGED <<image, env, currentIndex, queued, diffID, toc, blobDiffIDs, files, staged,
                 additional, cache, storageID, store, images, work, trusted>>

-----------------------------------------------------------------------------
(* The commit queue                                                        *)

(* queueOrCommit, stage 1: a layer waits unless it is the next one.        *)
Queue(i) ==
  /\ pc[i] = "queue"
  /\ queued' = [queued EXCEPT ![i] = info[i]]
  /\ \/ i = currentIndex /\ work' = [work EXCEPT ![i] = i] /\ Goto(i, "begin")
     \/ i # currentIndex /\ Goto(i, "done") /\ UNCHANGED work
  /\ UNCHANGED <<image, env, currentIndex, diffID, toc, blobDiffIDs, files, staged, additional, cache,
                 info, storageID, store, images, trusted>>

(* Mutation: the next layer is not looked for in the queue.                *)
LoopOnce(i) ==
  /\ i \in Index /\ pc[i] = "loop"
  /\ currentIndex' = work[i] + 1 /\ Goto(i, "done")
  /\ UNCHANGED <<image, env, pending, storageID, store, images, work, trusted>>

(* queueOrCommit, stage 2, after a successful commitLayer: the next layer  *)
(* if it is queued, else publish the index and leave, in one critical      *)
(* section.                                                                *)
Loop(i) ==
  /\ i \in Index /\ pc[i] = "loop"
  /\ IF work[i] + 1 < N /\ queued[work[i] + 1] # None
     THEN work' = [work EXCEPT ![i] = @ + 1] /\ Goto(i, "begin") /\ UNCHANGED currentIndex
     ELSE currentIndex' = work[i] + 1 /\ Goto(i, "done") /\ UNCHANGED work
  /\ UNCHANGED <<image, env, pending, storageID, store, images, trusted>>

(* Mutation: a layer that cannot be committed yet is tried again.          *)
StopRetrying(w) == UNCHANGED pc

(* commitLayer returned (true, nil): the queue stops where it is, and      *)
(* currentIndex keeps its old value; CommitWithOptions treats it as an     *)
(* internal error.                                                         *)
Stop(w) == Goto(w, IF w = Main THEN "internal error" ELSE "done")

Committed(i) == i \in DOMAIN storageID
SetStorageID(i, id) ==
  storageID' = [j \in DOMAIN storageID \cup {i} |-> IF j = i THEN id ELSE storageID[j]]
Parent(i) == IF i = 0 THEN <<>> ELSE storageID[i - 1]

(* commitLayer up to the collection of the trusted parameters              *)
CommitLayer(w) ==
  LET i == work[w] IN
  /\ pc[w] = "begin" /\ i < N
  /\ \/ /\ Committed(i)
        /\ Goto(w, "loop")
        /\ UNCHANGED <<storageID, trusted>>
     \/ /\ ~Committed(i) /\ i # 0 /\ ~Committed(i - 1)
        /\ Goto(w, "internal error")
        /\ UNCHANGED <<storageID, trusted>>
     \/ /\ ~Committed(i) /\ (i = 0 \/ Committed(i - 1))
        /\ IF i \in env.empty
           THEN SetStorageID(i, Parent(i))
                /\ Goto(w, "loop") /\ UNCHANGED trusted
           ELSE /\ trusted' = [trusted EXCEPT ![w] = trustedLayerIdentityDataLocked(i, info[i])]
                /\ Goto(w, IF Found(trusted'[w]) THEN "check" ELSE "lookup")
                /\ UNCHANGED storageID
  /\ UNCHANGED <<image, env, currentIndex, pending, store, images, work>>

(* The caller never said how to get the layer: look for it by its digest.  *)
Lookup(w) ==
  LET i == work[w]
      b == info[i]
      here == LocalMatch(b)
  IN
  /\ pc[w] = "lookup"
  /\ IF here = None
     THEN /\ Goto(w, IF NoDiffID(b) THEN "internal error" ELSE "failed")
          /\ UNCHANGED <<blobDiffIDs, trusted>>
     ELSE /\ blobDiffIDs' = [blobDiffIDs EXCEPT ![b] = here]
          /\ trusted' = [trusted EXCEPT
               ![w] = IF diffID[i] = None /\ toc[i] = None
                      THEN [NoIdentity EXCEPT !.diffID = here, !.blob = b]
                      ELSE trustedLayerIdentityDataLocked(i, b)]
          /\ Goto(w, "check")
  /\ UNCHANGED <<image, env, currentIndex, queued, diffID, toc, files, staged, additional, cache, info,
                 storageID, store, images, work>>

(* Mutation: the DiffID of the config is not looked at.                    *)
CheckNothing(w) ==
  LET i == work[w]
      id == layerID(Parent(i), trusted[w])
  IN
  /\ pc[w] = "check"
  /\ IF \E l \in store : l.id = id
     THEN SetStorageID(i, id) /\ Goto(w, "loop")
     ELSE Goto(w, "create") /\ UNCHANGED storageID
  /\ UNCHANGED <<image, env, currentIndex, pending, store, images, work, trusted>>

(* The comparison with the config's DiffID, and the reuse of a layer that  *)
(* is already in the store.                                                *)
Check(w) ==
  LET i == work[w]
      claimed == untrustedLayerDiffID(i)
      id == layerID(Parent(i), trusted[w])
      d == trusted[w].diffID
  IN
  /\ pc[w] = "check"
  /\ \/ /\ d # None /\ claimed = NotYet
        /\ Stop(w) /\ UNCHANGED storageID
     \/ /\ d # None /\ claimed = Unknown /\ trusted[w].byTOC
        /\ Goto(w, "internal error") /\ UNCHANGED storageID
     \/ /\ d # None /\ claimed \notin {NotYet, Unknown, d}
        /\ Goto(w, "failed") /\ UNCHANGED storageID
     \/ /\ d = None \/ claimed = d \/ (claimed = Unknown /\ ~trusted[w].byTOC)
        /\ IF \E l \in store : l.id = id
           THEN SetStorageID(i, id) /\ Goto(w, "loop")
           ELSE Goto(w, "create") /\ UNCHANGED storageID
  /\ UNCHANGED <<image, env, currentIndex, pending, store, images, work, trusted>>

(* The layer whose contents createNewLayer reads if it has no file         *)
SourceLayers(id) ==
  IF WithDiffID(id.diffID) # {} THEN WithDiffID(id.diffID)
  ELSE IF WithTOC(id.toc) # {} THEN WithTOC(id.toc)
  ELSE WithBlob(id.blob)

(* Add a layer and note it.                                                *)
Store(w, layer) ==
  /\ store' = store \cup {layer}
  /\ SetStorageID(work[w], layer.id)
  /\ Goto(w, "loop")

(* createNewLayer                                                          *)
CreateLayer(w) ==
  LET i == work[w]
      id == trusted[w]
      new(d, t, x, content) ==
        [id |-> layerID(Parent(i), id), diffID |-> d, toc |-> t, blob |-> x, content |-> content]
      b == LayerBlob[i]
  IN
  /\ pc[w] = "create"
  /\ \/ /\ i \in staged /\ id.diffID = None /\ untrustedLayerDiffID(i) = NotYet
        /\ Stop(w) /\ UNCHANGED <<storageID, store, blobDiffIDs, files>>
     \/ /\ i \in staged /\ id.diffID = None /\ untrustedLayerDiffID(i) = Unknown
        /\ Goto(w, "internal error") /\ UNCHANGED <<storageID, store, blobDiffIDs, files>>
     \/ /\ i \in staged
        /\ id.diffID # None \/ untrustedLayerDiffID(i) \notin {NotYet, Unknown, TooFew}
        /\ Store(w, IF BlobTOC[b] = None
                    THEN new(id.diffID, None, b, BlobDiffID[b])
                    ELSE new(id.diffID, BlobTOC[b], None, env.tocView[BlobTOC[b]]))
        /\ UNCHANGED <<blobDiffIDs, files>>
     \/ /\ i \notin staged /\ i \in additional
        /\ Store(w, new(None, id.toc, None, env.tocView[id.toc]))
        /\ UNCHANGED <<blobDiffIDs, files>>
     \/ /\ i \notin staged \cup additional /\ id.blob \in files
        /\ Store(w, new(id.diffID, None, id.blob, ContentOf(id.blob)))
        /\ UNCHANGED <<blobDiffIDs, files>>
     \/ /\ i \notin staged \cup additional /\ id.blob \notin files
        /\ \E l \in SourceLayers(id) :
             LET d == IF id.diffID # None THEN id.diffID ELSE l.diffID
                 computed == IF d # None THEN d ELSE l.content
                 original == IF id.blob # None /\ l.blob = id.blob THEN id.blob ELSE computed
             IN
             /\ Store(w, new(computed, None, original, l.content))
             /\ IF d = None THEN UNCHANGED <<blobDiffIDs, files>>
                ELSE /\ blobDiffIDs' = [blobDiffIDs EXCEPT ![d] = d]
                     /\ files' = files \cup {d}
     \/ /\ Goto(w, "failed")          \* not found, or an I/O error
        /\ UNCHANGED <<storageID, store, blobDiffIDs, files>>
  /\ UNCHANGED <<image, env, currentIndex, queued, diffID, toc, staged, additional, cache, info, images,
                 work, trusted>>

-----------------------------------------------------------------------------
(* The end, outside of the scope of concurrent PutBlob                     *)

Arrived == \A i \in Index : pc[i] \in {"done", "failed", "internal error"}

(* PutManifest, and the checks at the start of CommitWithOptions; or the   *)
(* copy failed and Close is all that follows.                              *)
PutManifest ==
  /\ pc[Main] = "start" /\ Arrived
  /\ \/ (\A i \in Index : pc[i] = "done") /\ Goto(Main, "begin")
     \/ Goto(Main, "failed")
  /\ UNCHANGED <<image, env, currentIndex, pending, storageID, store, images, work, trusted>>

(* CommitWithOptions: the loop over all layers                             *)
CommitNext ==
  /\ pc[Main] = "loop"
  /\ work' = [work EXCEPT ![Main] = @ + 1]
  /\ Goto(Main, "begin")
  /\ UNCHANGED <<image, env, currentIndex, pending, storageID, store, images, trusted>>

TOCInput == [i \in Index |->
  IF trustedLayerIdentityDataLocked(i, info[i]).byTOC THEN toc[i] ELSE None]

(* The image ID: the config's digest unless some layer is identified by    *)
(* its TOC, and then a digest of the TOCs.                                 *)
computeID ==
  IF \E i \in Index : TOCInput[i] # None THEN <<"@With TOC", TOCInput>>
  ELSE <<"config", env.configID>>

TopLayer == IF N = 0 THEN <<>> ELSE storageID[N - 1]

(* CreateImage, or the update of an image with the same ID and top layer.  *)
CreateImage ==
  LET same == {m \in images : m.id = computeID} IN
  /\ pc[Main] = "begin" /\ work[Main] = N
  /\ IF \E i \in Index : ~Found(trustedLayerIdentityDataLocked(i, info[i]))
     THEN Goto(Main, "internal error") /\ UNCHANGED images
     ELSE IF \E m \in same : m.top # TopLayer
     THEN Goto(Main, "failed") /\ UNCHANGED images
     ELSE /\ images' = (images \ same) \cup
                         {[id |-> computeID, top |-> TopLayer, config |-> env.configID, named |-> FALSE]}
          /\ Goto(Main, "name")
  /\ UNCHANGED <<image, env, currentIndex, pending, storageID, store, work, trusted>>

(* AddNames; if it fails the image is deleted again.                       *)
AddNames ==
  LET mine == {m \in images : m.id = computeID} IN
  /\ pc[Main] = "name"
  /\ \/ /\ images' = (images \ mine) \cup {[m EXCEPT !.named = TRUE] : m \in mine}
        /\ Goto(Main, "done")
     \/ /\ images' = images \ mine
        /\ Goto(Main, "failed")
  /\ UNCHANGED <<image, env, currentIndex, pending, storageID, store, work, trusted>>

Finished == pc[Main] \in {"done", "failed", "internal error"}
Terminated == Finished /\ image = Images /\ UNCHANGED vars

(* Close, and newImageDestination for another image in the same store      *)
NextImage ==
  /\ Finished /\ image < Images
  /\ image' = image + 1
  /\ env' \in {e \in Environments : e.tocView = env.tocView}
  /\ currentIndex' = 0
  /\ queued' = [i \in Index |-> None]
  /\ diffID' = [i \in Index |-> None]
  /\ toc' = [i \in Index |-> None]
  /\ blobDiffIDs' = [d \in Digests |-> None]
  /\ files' = {}
  /\ staged' = {}
  /\ additional' = {}
  /\ storageID' = <<>>
  /\ info' = [i \in Index |-> None]
  /\ pc' = [w \in Workers |-> "start"]
  /\ work' = NoWork
  /\ trusted' = [w \in Workers |-> NoIdentity]
  /\ UNCHANGED <<cache, store, images>>

Step(w) == CommitLayer(w) \/ Lookup(w) \/ Check(w) \/ CreateLayer(w)
Layer(i) == Forget(i) \/ TryReusingBlob(i) \/ StreamLayer(i) \/ PutBlobPartial(i) \/ PutBlob(i)
            \/ Queue(i) \/ Loop(i) \/ Step(i)
Commit == PutManifest \/ CommitNext \/ Step(Main) \/ CreateImage \/ AddNames

Next == (\E i \in Index : Layer(i)) \/ Commit \/ NextImage \/ Terminated

(* Goroutines are scheduled, and the calls they make return.               *)
Fairness == (\A i \in Index : WF_vars(Layer(i))) /\ WF_vars(Commit \/ NextImage)
Spec == Init /\ [][Next]_vars /\ Fairness

-----------------------------------------------------------------------------
(* commitLayer runs in one goroutine at a time, as its comment demands of  *)
(* queueOrCommit and CommitWithOptions.                                    *)
SingleCommitter ==
  \A v, w \in Workers :
    {pc[v], pc[w]} \subseteq {"begin", "lookup", "check", "create", "loop"} => v = w

(* queueOrCommit never forgets a layer: while nobody commits and layers    *)
(* still arrive, the one at currentIndex is not waiting in the queue,      *)
(* unless a goroutine went on from there and gave up: it committed the     *)
(* layers up to some other one, and stopped or failed with that.           *)
NoLayerLeftBehind ==
  \A i \in Index :
    /\ pc[Main] = "start" /\ currentIndex = i /\ queued[i] # None
    /\ \A w \in Workers : pc[w] \notin {"begin", "lookup", "check", "create", "loop"}
    => \E w \in Index :
         /\ pc[w] \in {"done", "failed"} /\ work[w] \in Index /\ work[w] >= i
         /\ ~Committed(work[w]) /\ \A j \in Index : j < work[w] => Committed(j)

(* The ID of a committed layer is still what its trusted identity gives:   *)
(* later additions to blobDiffIDs never change the view of a layer, so the *)
(* image ID computed at the end is that of the layers committed.           *)
IdentityIsStable ==
  \A i \in Index \ env.empty :
    Committed(i) =>
      storageID[i] = layerID(Parent(i), trustedLayerIdentityDataLocked(i, info[i]))

(* What the store says of a layer is true of its content, whichever way it *)
(* came and even if the two views of a blob differ: later images reuse     *)
(* layers by these facts.                                                  *)
LayerFactsAreTrue == \A l \in store : LayerIsTrue(l, env.tocView)

(* A committed image consists of the layers its config lists and of no     *)
(* others, except for the contents of layers identified by a TOC for which *)
(* the store holds a layer that was never verified (c/storage was told not *)
(* to, or the additional layer store vouches for it).                      *)
ContentsMatchConfig ==
  pc[Main] \in {"name", "done"} /\ env.config # <<>> =>
    \A i \in Index \ env.empty :
      i < Len(env.config) /\ \A l \in store : l.id = storageID[i] =>
        \/ l.content = env.config[i + 1]
        \/ /\ l.id[Len(l.id)][2]
           /\ \E k \in WithTOC(BlobTOC[LayerBlob[i]]) : k.diffID = None

(* Of the states the code reports as internal errors one is reachable:     *)
(* computeID takes for granted that each layer has an identity, but it has *)
(* none for an empty layer that the caller did not announce, as commitLayer*)
(* needs none to commit it.                                                *)
InternalErrorsAreExplained ==
  \A w \in Workers : pc[w] = "internal error" =>
    /\ w = Main /\ work[Main] = N
    /\ \E i \in env.empty : queued[i] = None

(* An image that exists keeps its config: another image does not get its   *)
(* ID.                                                                     *)
ImageIDIdentifiesConfig ==
  [][\A m \in images, n \in images' : m.id = n.id => m.config = n.config]_vars

(* Every image is committed or given up.                                   *)
EveryImageIsDecided == \A n \in 1..Images : image = n ~> image = n /\ Finished

(* The commit queue: one committer, no layer forgotten, and of the states  *)
(* the code calls internal errors only the one for an unannounced empty    *)
(* layer.                                                                  *)
CommitQueueIsSound ==
  TypeOK /\ SingleCommitter /\ NoLayerLeftBehind /\ InternalErrorsAreExplained

(* Layers are what their identities, the store and the config say.         *)
LayersAreAuthentic == IdentityIsStable /\ LayerFactsAreTrue /\ ContentsMatchConfig
===============================================================================
