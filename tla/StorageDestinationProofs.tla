----------------------- MODULE StorageDestinationProofs -----------------------
(***************************************************************************)
(* Proofs about the containers-storage destination, for any manifest, any  *)
(* store that earlier images left, and any number of images: the commit    *)
(* queue, and the identity and the contents of the layers.                 *)
(***************************************************************************)
EXTENDS StorageDestination, TLAPS

Arriving == {"start", "stream", "put"}
Committing == {"begin", "lookup", "check", "create", "loop"}
PCs == {"start", "stream", "put", "queue", "begin", "lookup", "check",
        "create", "loop", "name", "done", "failed", "internal error"}

Identity(i) == trustedLayerIdentityDataLocked(i, info[i])

-----------------------------------------------------------------------------
(* The inductive invariant of the commit queue                             *)

(* The goroutine that commits is the one of the layer at currentIndex, and *)
(* it commits queued layers; the goroutine of a queued or committed layer  *)
(* has passed queueOrCommit's first stage.                                 *)
Committer ==
  /\ \A w \in Index : pc[w] \in Committing =>
       /\ currentIndex = w /\ w <= work[w]
       /\ work[w] \in Index /\ queued[work[w]] # None /\ queued[w] # None
  /\ \A i \in Index : queued[i] # None \/ Committed(i) => pc[i] \notin Arriving \cup {"queue"}

(* Layers are committed in order.                                          *)
CommittedInOrder ==
  /\ \A j \in Index : j < currentIndex => Committed(j)
  /\ \A w \in Workers : pc[w] \in Committing =>
       \A j \in Index : j < work[w] => Committed(j)
  /\ \A w \in Workers : pc[w] \in {"lookup", "check", "create"} =>
       work[w] \in Index /\ ~Committed(work[w])
  /\ \A w \in Workers : pc[w] = "loop" => work[w] \in Index /\ Committed(work[w])

(* If the layer at currentIndex waits, its goroutine is committing, or it  *)
(* stopped at a layer that is not committed.                               *)
QueueStopped ==
  currentIndex \in Index /\ pc[Main] = "start" =>
    \/ queued[currentIndex] = None
    \/ pc[currentIndex] \in Committing
    \/ /\ pc[currentIndex] \in {"done", "failed"}
       /\ work[currentIndex] >= currentIndex
       /\ work[currentIndex] \in Index /\ ~Committed(work[currentIndex])
       /\ \A j \in Index : j < work[currentIndex] => Committed(j)

(* CommitWithOptions runs when all goroutines of layers have ended.        *)
MainIsLast ==
  /\ pc[Main] \notin {"stream", "put", "queue"}
  /\ pc[Main] = "start" => work[Main] = 0
  /\ pc[Main] # "start" => \A i \in Index : pc[i] \in {"done", "failed"}
  /\ pc[Main] \notin {"start", "failed"} => \A i \in Index : pc[i] = "done"

(* What is known of a layer is set by its goroutine before it queues, and  *)
(* only a layer nobody announced, or an empty one, has no identity.        *)
LayersAreIdentified ==
  /\ \A i \in Index : pc[i] \in Arriving =>
       /\ diffID[i] = None /\ toc[i] = None /\ info[i] = None
       /\ i \notin staged /\ i \notin additional
  /\ \A i \in Index :
       \/ queued[i] # None \/ pc[i] = "queue"
       \/ Committed(i) /\ i \notin env.empty
       => Found(Identity(i))
  /\ \A i \in Index : pc[i] = "queue" => info[i] # None

(* A partial pull was made with a known config, or its DiffID was          *)
(* computed; the additional layer store knows layers by their TOC; and     *)
(* TOCs are used only for layers that the config lists.                    *)
OriginIsKnown ==
  /\ \A i \in staged :
       /\ env.noted /\ (diffID[i] # None \/ untrustedLayerDiffID(i) # Unknown)
       /\ BlobTOC[LayerBlob[i]] = None => diffID[i] # None
  /\ \A i \in additional : toc[i] # None /\ diffID[i] = None
  /\ \A i \in Index : toc[i] # None => i < Len(env.config)

(* The identity a committer uses is that of its layer: the fields set for  *)
(* the index do not change any more.                                       *)
TrustedFor(w, i) ==
  /\ pc[w] = "lookup" => diffID[i] = None /\ toc[i] = None
  /\ pc[w] \in {"check", "create"} =>
       /\ Found(Identity(i))
       /\ trusted[w].byTOC <=> (diffID[i] = None /\ toc[i] # None)
       /\ trusted[w].toc = toc[i]
       /\ trusted[w].byTOC \/ diffID[i] # None => trusted[w].diffID = diffID[i]
       /\ ~trusted[w].byTOC \/ trusted[w].blob # None => trusted[w].diffID # None
TrustedIsCurrent == \A w \in Workers : TrustedFor(w, work[w])

QueueInvariant ==
  /\ Committer /\ CommittedInOrder /\ QueueStopped /\ MainIsLast
  /\ LayersAreIdentified /\ OriginIsKnown /\ TrustedIsCurrent
  /\ InternalErrorsAreExplained /\ BlobLayersHaveDiffIDs(store)

-----------------------------------------------------------------------------
(* Identities *)

(* A layer has an identity if something is known of its index or its blob. *)
LEMMA FoundMeans ==
  ASSUME NEW i \in Index
  PROVE  /\ Found(Identity(i)) <=>
              diffID[i] # None \/ toc[i] # None
              \/ (info[i] # None /\ blobDiffIDs[info[i]] # None)
         /\ Found(Identity(i))' <=>
              diffID'[i] # None \/ toc'[i] # None
              \/ (info'[i] # None /\ blobDiffIDs'[info'[i]] # None)
BY DEF Found, Identity, trustedLayerIdentityDataLocked

(* The identity found for a layer is typed, and identifies the layer by    *)
(* its TOC only if there is one and no DiffID was set for the index.       *)
LEMMA IdentityIsTyped ==
  ASSUME TypeOK, NEW i \in Index, NEW b \in Digests \cup {None}
  PROVE  LET id == trustedLayerIdentityDataLocked(i, b) IN
         /\ id \in Identities
         /\ id.byTOC <=> (diffID[i] = None /\ toc[i] # None)
         /\ id.toc = toc[i]
         /\ id.byTOC \/ diffID[i] # None => id.diffID = diffID[i]
         /\ (Found(id) /\ ~id.byTOC) \/ id.blob # None => id.diffID # None
<1> DEFINE other == IF b = None THEN None ELSE blobDiffIDs[b]
           byTOC == diffID[i] = None /\ toc[i] # None
           byBlob == diffID[i] = None /\ ~byTOC
<1>1. other \in DiffIDs \cup {None} /\ byTOC \in BOOLEAN
  BY DEF TypeOK
<1>2. (IF byBlob THEN other ELSE diffID[i]) \in DiffIDs \cup {None}
  BY <1>1 DEF TypeOK
<1>3. toc[i] \in TOCs \cup {None}
  BY DEF TypeOK
<1> QED
  BY <1>1, <1>2, <1>3 DEF trustedLayerIdentityDataLocked, Identities, Found

(* A TOC describes some content.                                           *)
LEMMA ViewIsTyped ==
  ASSUME TypeOK, NEW x \in TOCs
  PROVE  env.tocView[x] \in DiffIDs /\ env.tocView[x] # None
<1>1. env.tocView \in [TOCs -> DiffIDs]
  BY DEF TypeOK, EnvironmentType
<1>2. None \notin DiffIDs
  BY ManifestAssumption
<1> QED
  BY <1>1, <1>2

(* The DiffID a config claims is one, or the code says why it has none.    *)
LEMMA ClaimedIsTyped ==
  ASSUME TypeOK, NEW i \in Index
  PROVE  /\ ~(~env.noted /\ pc[Main] = "start") => untrustedLayerDiffID(i) # NotYet
         /\ untrustedLayerDiffID(i) \in DiffIDs \cup {NotYet, Unknown, TooFew}
         /\ env.config # <<>> => untrustedLayerDiffID(i) # Unknown
         /\ untrustedLayerDiffID(i) \notin {NotYet, Unknown, TooFew} =>
              /\ i < Len(env.config)
              /\ untrustedLayerDiffID(i) = env.config[i + 1]
              /\ untrustedLayerDiffID(i) \in DiffIDs
<1>1. env.config \in Seq(DiffIDs) /\ Len(env.config) \in Nat
  <2>1. env.config \in Seq(DiffIDs)
    BY DEF TypeOK, EnvironmentType
  <2> QED
    BY <2>1
<1>2. i \in Nat
  BY ManifestAssumption DEF Index
<1>3. i < Len(env.config) => env.config[i + 1] \in DiffIDs
  BY <1>1, <1>2
<1>4. /\ NotYet # Unknown /\ NotYet # TooFew /\ Unknown # TooFew
      /\ DiffIDs \cap {Unknown, NotYet, TooFew} = {}
  BY ConfigAssumption DEF NotYet, Unknown, TooFew
<1>5. ~(i >= Len(env.config)) <=> i < Len(env.config)
  BY <1>1, <1>2
<1> HIDE DEF NotYet, Unknown, TooFew
<1> QED
  BY <1>3, <1>4, <1>5 DEF untrustedLayerDiffID

(* No layer made from a blob lacks a DiffID.                               *)
LEMMA BlobsHaveDiffIDs ==
  ASSUME BlobLayersHaveDiffIDs(store), NEW b
  PROVE  ~NoDiffID(b)
BY DEF BlobLayersHaveDiffIDs, NoDiffID, WithBlob

(* A layer found by the digest of a blob has a DiffID.                     *)
LEMMA LocalMatchIsTyped ==
  ASSUME TypeOK, NEW b \in Digests \cup {None}
  PROVE  /\ LocalMatch(b) \in DiffIDs \cup {None}
         /\ b = None => LocalMatch(b) = None
<1>1. CASE b \in files
  BY <1>1, ManifestAssumption DEF LocalMatch, TypeOK, Digests
<1>2. CASE b \notin files /\ WithDiffID(b) # {}
  <2>1. PICK l \in store : b # None /\ l.diffID = b
    BY <1>2 DEF WithDiffID
  <2>2. l.diffID \in DiffIDs \cup {None}
    BY DEF TypeOK, LayerRecords
  <2> QED
    BY <1>2, <2>1, <2>2 DEF LocalMatch
<1>3. CASE b \notin files /\ WithDiffID(b) = {} /\ WithBlob(b) # {}
  <2>1. PICK l \in WithBlob(b) : l = (CHOOSE k \in WithBlob(b) : TRUE)
    BY <1>3
  <2>2. l \in store /\ b # None
    BY <2>1 DEF WithBlob
  <2>3. l.diffID \in DiffIDs \cup {None}
    BY <2>2 DEF TypeOK, LayerRecords
  <2>4. LocalMatch(b) = l.diffID
    BY <1>3, <2>1 DEF LocalMatch
  <2> QED
    BY <2>2, <2>3, <2>4
<1>4. CASE b \notin files /\ WithDiffID(b) = {} /\ WithBlob(b) = {}
  BY <1>4 DEF LocalMatch
<1> QED
  BY <1>1, <1>2, <1>3, <1>4
-----------------------------------------------------------------------------
(* What the steps do                                                       *)

(* The effect on the queue of a step of an arriving layer: only what is    *)
(* known of this layer and of blobs changes, and nothing known is lost.    *)
Arrives(i) ==
  /\ pc[i] \in Arriving
  /\ pc' = [pc EXCEPT ![i] = pc'[i]]
  /\ pc'[i] \in {"stream", "put", "queue", "done", "failed"}
  /\ UNCHANGED <<image, env, currentIndex, queued, storageID, store, images, work, trusted>>
  /\ \A j \in Index \ {i} :
       /\ diffID'[j] = diffID[j] /\ toc'[j] = toc[j] /\ info'[j] = info[j]
       /\ (j \in staged' <=> j \in staged) /\ (j \in additional' <=> j \in additional)
  /\ \A d \in Digests : blobDiffIDs[d] # None => blobDiffIDs'[d] # None
  /\ pc'[i] \in Arriving => UNCHANGED <<diffID, toc, info, staged, additional>>
  /\ pc'[i] = "queue" => Found(Identity(i))'
  /\ pc'[i] = "queue" => info'[i] # None
  /\ i \in staged' =>
       /\ env.noted /\ (diffID'[i] # None \/ untrustedLayerDiffID(i) # Unknown)
       /\ BlobTOC[LayerBlob[i]] = None => diffID'[i] # None
  /\ i \in additional' => toc'[i] # None /\ diffID'[i] = None
  /\ toc'[i] # None => i < Len(env.config)

ArrivalTypes ==
  /\ pc \in [Workers -> PCs]
  /\ diffID \in [Index -> DiffIDs \cup {None}]
  /\ toc \in [Index -> TOCs \cup {None}]
  /\ blobDiffIDs \in [Digests -> DiffIDs \cup {None}]
  /\ files \subseteq Digests
  /\ staged \subseteq Index /\ additional \subseteq Index
  /\ cache \subseteq Blobs \cup TOCs
  /\ info \in [Index -> Digests \cup {None}]

(* An arriving layer is an index, not the committer.                       *)
LEMMA IndexesAreWorkers ==
  /\ \A i \in Index : i \in Workers /\ i # Main /\ i \in Int /\ i < N
  /\ Main \in Workers /\ Main \notin Index
  /\ \A w \in Workers : w \in Index \/ w = Main
BY ManifestAssumption DEF Index, Workers, Main

(* A goroutine moves on.                                                   *)
LEMMA GotoIsTyped ==
  ASSUME TypeOK, NEW w \in Workers, NEW p \in PCs, Goto(w, p)
  PROVE  /\ pc' \in [Workers -> PCs] /\ pc'[w] = p
         /\ pc' = [pc EXCEPT ![w] = pc'[w]]
BY DEF TypeOK, Goto, PCs

(* putBlobToPendingFile *)
LEMMA PutBlobArrives ==
  ASSUME TypeOK, QueueInvariant, NEW i \in Index, PutBlob(i)
  PROVE  Arrives(i) /\ ArrivalTypes'
<1>1. i \in Workers /\ pc[i] \in Arriving
      /\ diffID[i] = None /\ toc[i] = None /\ i \notin staged /\ i \notin additional
  BY IndexesAreWorkers DEF PutBlob, Arriving, QueueInvariant, LayersAreIdentified
<1>2. LayerBlob[i] \in Blobs /\ LayerBlob[i] \in Digests /\ LayerBlob[i] # None
      /\ BlobDiffID[LayerBlob[i]] \in DiffIDs /\ BlobDiffID[LayerBlob[i]] # None
  BY ManifestAssumption DEF Digests
<1>3. UNCHANGED <<diffID, toc, staged, additional>>
  BY DEF PutBlob
<1>4. CASE /\ blobDiffIDs' = [blobDiffIDs EXCEPT ![LayerBlob[i]] = BlobDiffID[LayerBlob[i]]]
           /\ files' = files \cup {LayerBlob[i]} /\ cache' = cache \cup {LayerBlob[i]}
           /\ info' = [info EXCEPT ![i] = LayerBlob[i]]
           /\ Goto(i, "queue")
  <2>1. Found(Identity(i))'
    BY <1>2, <1>4, FoundMeans DEF TypeOK
  <2>2. pc' \in [Workers -> PCs] /\ pc'[i] = "queue" /\ pc' = [pc EXCEPT ![i] = pc'[i]]
    BY <1>1, <1>4, GotoIsTyped DEF PCs
  <2> QED
    BY <1>1, <1>2, <1>3, <1>4, <2>1, <2>2 DEF Arrives, ArrivalTypes, TypeOK, PutBlob, Arriving
<1>5. CASE Goto(i, "failed") /\ UNCHANGED <<blobDiffIDs, files, cache, info>>
  <2>1. pc' \in [Workers -> PCs] /\ pc'[i] = "failed" /\ pc' = [pc EXCEPT ![i] = pc'[i]]
    BY <1>1, <1>5, GotoIsTyped DEF PCs
  <2> QED
    BY <1>1, <1>3, <1>5, <2>1 DEF Arrives, ArrivalTypes, TypeOK, PutBlob, Arriving
<1> QED
  BY <1>4, <1>5 DEF PutBlob

(* copy streams the layer, or a caller forgets it.                         *)
LEMMA StreamOrForgetArrives ==
  ASSUME TypeOK, QueueInvariant, NEW i \in Index, StreamLayer(i) \/ Forget(i)
  PROVE  Arrives(i) /\ ArrivalTypes'
<1>1. i \in Workers /\ pc[i] \in Arriving
      /\ diffID[i] = None /\ toc[i] = None /\ i \notin staged /\ i \notin additional
  BY IndexesAreWorkers DEF StreamLayer, Forget, Arriving, QueueInvariant, LayersAreIdentified
<1>2. UNCHANGED <<image, env, currentIndex, queued, storageID, store, images, work, trusted,
                  diffID, toc, staged, additional, blobDiffIDs, files, cache>>
  BY DEF StreamLayer, Forget, pending
<1>3. CASE StreamLayer(i)
  <2>1. pc' \in [Workers -> PCs] /\ pc'[i] = "put" /\ pc' = [pc EXCEPT ![i] = pc'[i]]
    BY <1>1, <1>3, GotoIsTyped DEF PCs, StreamLayer
  <2>2. UNCHANGED info
    BY <1>3 DEF StreamLayer, pending
  <2> QED
    BY <1>1, <1>2, <2>1, <2>2 DEF Arrives, ArrivalTypes, TypeOK, Arriving
<1>4. CASE Forget(i)
  <2>1. pc' \in [Workers -> PCs] /\ pc'[i] = "done" /\ pc' = [pc EXCEPT ![i] = pc'[i]]
    BY <1>1, <1>4, GotoIsTyped DEF PCs, Forget
  <2>2. info' = [info EXCEPT ![i] = LayerBlob[i]] /\ LayerBlob[i] \in Digests
    BY <1>4, ManifestAssumption DEF Forget, Digests
  <2> QED
    BY <1>1, <1>2, <2>1, <2>2 DEF Arrives, ArrivalTypes, TypeOK, Arriving
<1> QED
  BY <1>3, <1>4

(* PutBlobPartial *)
LEMMA PutBlobPartialArrives ==
  ASSUME TypeOK, QueueInvariant, NEW i \in Index, PutBlobPartial(i)
  PROVE  Arrives(i) /\ ArrivalTypes'
<1> DEFINE b == LayerBlob[i]
           t == BlobTOC[b]
           claimed == untrustedLayerDiffID(i)
           computed == IF t = None THEN BlobDiffID[b]
                       ELSE IF env.verify THEN env.tocView[t] ELSE None
           known == IF computed # None THEN computed
                    ELSE IF t \in cache THEN env.tocView[t] ELSE None
<1>1. i \in Workers /\ pc[i] \in Arriving
      /\ diffID[i] = None /\ toc[i] = None /\ i \notin staged /\ i \notin additional
  BY IndexesAreWorkers DEF PutBlobPartial, Arriving, QueueInvariant, LayersAreIdentified
<1>2. b \in Blobs /\ b \in Digests /\ t \in TOCs \cup {None} /\ BlobDiffID[b] \in DiffIDs
  BY ManifestAssumption DEF Digests
<1>3. computed \in DiffIDs \cup {None} /\ (t = None => computed \in DiffIDs /\ computed # None)
  BY <1>2, ManifestAssumption DEF TypeOK, EnvironmentType
<1>4. known \in DiffIDs \cup {None} /\ (t = None => known # None)
  BY <1>2, <1>3 DEF TypeOK, EnvironmentType
<1>5. UNCHANGED <<image, env, currentIndex, storageID, store, images, work, trusted>> /\ env.noted
  BY DEF PutBlobPartial
<1>6. CASE /\ claimed # TooFew /\ (claimed # Unknown \/ t = None)
           /\ diffID' = IF known = None THEN diffID ELSE [diffID EXCEPT ![i] = known]
           /\ toc' = IF t = None THEN toc ELSE [toc EXCEPT ![i] = t]
           /\ blobDiffIDs' = IF t = None THEN [blobDiffIDs EXCEPT ![b] = computed]
                             ELSE blobDiffIDs
           /\ cache' = cache \cup (IF t = None THEN {b} ELSE IF computed # None THEN {t} ELSE {})
           /\ staged' = staged \cup {i}
           /\ info' = [info EXCEPT ![i] = b]
           /\ Goto(i, "done")
           /\ UNCHANGED <<queued, files, additional>>
  <2> HIDE DEF claimed, computed, known, t, b
  <2>1. pc' \in [Workers -> PCs] /\ pc'[i] = "done" /\ pc' = [pc EXCEPT ![i] = pc'[i]]
    BY <1>1, <1>6, GotoIsTyped DEF PCs
  <2>2. /\ diffID' \in [Index -> DiffIDs \cup {None}] /\ (t = None => diffID'[i] # None)
        /\ \A j \in Index \ {i} : diffID'[j] = diffID[j]
    BY <1>4, <1>6 DEF TypeOK
  <2>3. /\ toc' \in [Index -> TOCs \cup {None}] /\ (t # None => toc'[i] # None)
        /\ \A j \in Index \ {i} : toc'[j] = toc[j]
    BY <1>2, <1>6 DEF TypeOK
  <2>4. /\ blobDiffIDs' \in [Digests -> DiffIDs \cup {None}]
        /\ \A d \in Digests : blobDiffIDs[d] # None => blobDiffIDs'[d] # None
    BY <1>2, <1>3, <1>6 DEF TypeOK
  <2>5. cache' \subseteq Blobs \cup TOCs
    BY <1>2, <1>6 DEF TypeOK
  <2>6. info' \in [Index -> Digests \cup {None}] /\ \A j \in Index \ {i} : info'[j] = info[j]
    BY <1>2, <1>6 DEF TypeOK
  <2>7. Found(Identity(i))'
    BY <2>2, <2>3, FoundMeans
  <2>8. /\ diffID'[i] # None \/ untrustedLayerDiffID(i) # Unknown
        /\ BlobTOC[LayerBlob[i]] = None => diffID'[i] # None
    BY <1>6, <2>2 DEF claimed, t, b
  <2>9. ArrivalTypes'
    BY <1>6, <2>1, <2>2, <2>3, <2>4, <2>5, <2>6 DEF ArrivalTypes, TypeOK
  <2>10. toc'[i] # None => i < Len(env.config)
    <3>1. toc'[i] # None => t # None
      BY <1>1, <1>6
    <3> QED
      BY <1>5, <1>6, <3>1, ClaimedIsTyped DEF claimed
  <2> QED
    BY <1>1, <1>5, <1>6, <2>1, <2>2, <2>3, <2>4, <2>6, <2>7, <2>8, <2>9, <2>10 DEF Arrives, Arriving
<1>7. ASSUME NEW p \in {"failed", "put"}, Goto(i, p), UNCHANGED pending
      PROVE  Arrives(i) /\ ArrivalTypes'
  <2>1. pc' \in [Workers -> PCs] /\ pc'[i] = p /\ pc' = [pc EXCEPT ![i] = pc'[i]]
    BY <1>1, <1>7, GotoIsTyped DEF PCs
  <2> QED
    BY <1>1, <1>5, <1>7, <2>1 DEF Arrives, ArrivalTypes, TypeOK, Arriving, pending
<1> QED
  BY <1>6, <1>7 DEF PutBlobPartial

(* TryReusingBlobWithOptions *)
LEMMA TryReusingBlobArrives ==
  ASSUME TypeOK, QueueInvariant, NEW i \in Index, TryReusingBlob(i)
  PROVE  Arrives(i) /\ ArrivalTypes'
<1> DEFINE b == LayerBlob[i]
           claimed == untrustedLayerDiffID(i)
           t == IF env.noted /\ claimed # Unknown THEN BlobTOC[b] ELSE None
           refused == t # None /\ claimed = TooFew
           here == LocalMatch(b)
           reused(byDiffID) == IF env.sizeKnown THEN b ELSE byDiffID
           reuseAs(d) == info' = [info EXCEPT ![i] = d] /\ Goto(i, "queue")
<1>1. i \in Workers /\ pc[i] \in Arriving
      /\ diffID[i] = None /\ toc[i] = None /\ i \notin staged /\ i \notin additional
  BY IndexesAreWorkers DEF TryReusingBlob, Arriving, QueueInvariant, LayersAreIdentified
<1>2. b \in Blobs /\ b \in Digests /\ b # None /\ t \in TOCs \cup {None}
      /\ BlobDiffID[b] \in DiffIDs /\ BlobDiffID[b] # None
  BY ManifestAssumption DEF Digests
<1>3. here \in DiffIDs \cup {None}
  BY <1>2, LocalMatchIsTyped
<1>4. /\ UNCHANGED <<image, env, currentIndex, queued, files, staged, cache, storageID, store,
                     images, work, trusted>>
  BY DEF TryReusingBlob
<1>5. \A x \in TOCs : env.tocView[x] \in DiffIDs /\ env.tocView[x] # None
  BY ViewIsTyped
<1>6. \A d \in DiffIDs : d \in Digests /\ d # None /\ reused(d) \in Digests /\ reused(d) # None
  BY <1>2, ManifestAssumption DEF Digests
<1>15. ~refused /\ t # None => i < Len(env.config)
  BY ClaimedIsTyped
<1>16. ~NoDiffID(b)
  BY BlobsHaveDiffIDs DEF QueueInvariant
<1> HIDE DEF t, here, refused, claimed
<1>7. ASSUME NEW d \in Digests, d # None, reuseAs(d),
             diffID' \in [Index -> DiffIDs \cup {None}],
             \A j \in Index \ {i} : diffID'[j] = diffID[j],
             toc' \in [Index -> TOCs \cup {None}],
             \A j \in Index \ {i} : toc'[j] = toc[j],
             blobDiffIDs' \in [Digests -> DiffIDs \cup {None}],
             \A e \in Digests : blobDiffIDs[e] # None => blobDiffIDs'[e] # None,
             additional' \subseteq additional \cup {i},
             additional \subseteq additional',
             i \in additional' => toc'[i] # None /\ diffID'[i] = None,
             toc'[i] # None => i < Len(env.config),
             diffID'[i] # None \/ toc'[i] # None \/ blobDiffIDs'[d] # None
      PROVE  Arrives(i) /\ ArrivalTypes'
  <2>1. pc' \in [Workers -> PCs] /\ pc'[i] = "queue" /\ pc' = [pc EXCEPT ![i] = pc'[i]]
    BY <1>1, <1>7, GotoIsTyped DEF PCs
  <2>2. /\ info' \in [Index -> Digests \cup {None}] /\ info'[i] = d
        /\ \A j \in Index \ {i} : info'[j] = info[j]
    BY <1>7 DEF TypeOK
  <2>3. Found(Identity(i))'
    BY <1>7, <2>2, FoundMeans
  <2>4. ArrivalTypes'
    BY <1>4, <1>7, <2>1, <2>2 DEF ArrivalTypes, TypeOK
  <2> QED
    BY <1>1, <1>4, <1>7, <2>1, <2>2, <2>3, <2>4 DEF Arrives, Arriving
<1>8. CASE /\ ~refused /\ t \in env.als
           /\ toc' = [toc EXCEPT ![i] = t]
           /\ additional' = additional \cup {i}
           /\ reuseAs(b)
           /\ UNCHANGED <<diffID, blobDiffIDs>>
  <2>1. t \in TOCs /\ t # None
    BY <1>8, ManifestAssumption DEF TypeOK, EnvironmentType
  <2> QED
    BY <1>1, <1>2, <1>7, <1>8, <1>15, <2>1 DEF TypeOK
<1>9. CASE /\ here # None
           /\ blobDiffIDs' = [blobDiffIDs EXCEPT ![b] = here]
           /\ reuseAs(b)
           /\ UNCHANGED <<diffID, toc, additional>>
  BY <1>1, <1>2, <1>3, <1>7, <1>9 DEF TypeOK
<1>10. CASE /\ blobDiffIDs' = [blobDiffIDs EXCEPT ![reused(BlobDiffID[b])] = BlobDiffID[b]]
            /\ reuseAs(reused(BlobDiffID[b]))
            /\ UNCHANGED <<diffID, toc, additional>>
  <2> DEFINE d == reused(BlobDiffID[b])
  <2>1. d \in Digests /\ d # None /\ BlobDiffID[b] \in DiffIDs /\ BlobDiffID[b] # None
    BY <1>2, <1>6
  <2>2. blobDiffIDs' = [blobDiffIDs EXCEPT ![d] = BlobDiffID[b]] /\ reuseAs(d)
        /\ UNCHANGED <<diffID, toc, additional>>
    BY <1>10
  <2> HIDE DEF d
  <2> QED
    BY <1>1, <1>7, <2>1, <2>2 DEF TypeOK
<1>11. CASE /\ t \in cache
            /\ diffID' = [diffID EXCEPT ![i] = env.tocView[t]]
            /\ reuseAs(reused(env.tocView[t]))
            /\ UNCHANGED <<toc, blobDiffIDs, additional>>
  <2> DEFINE d == reused(env.tocView[t])
  <2>1. t \in TOCs
    BY <1>2, <1>11, ManifestAssumption DEF TypeOK
  <2>2. d \in Digests /\ d # None
    BY <1>5, <1>6, <2>1
  <2>3. reuseAs(d)
    BY <1>11
  <2> HIDE DEF d
  <2> QED
    BY <1>1, <1>5, <1>7, <1>11, <2>1, <2>2, <2>3 DEF TypeOK
<1>12. ASSUME NEW l \in WithTOC(t), ~refused, env.sizeKnown \/ l.diffID # None,
              NEW d \in DiffIDs \cup {None},
              diffID' = IF d = None THEN diffID ELSE [diffID EXCEPT ![i] = d],
              toc' = [toc EXCEPT ![i] = t],
              reuseAs(reused(l.diffID)),
              UNCHANGED <<blobDiffIDs, additional>>
       PROVE  Arrives(i) /\ ArrivalTypes'
  <2> DEFINE r == reused(l.diffID)
  <2>1. t # None /\ t \in TOCs /\ l \in store
    BY <1>2 DEF WithTOC
  <2>2. l.diffID \in DiffIDs \cup {None}
    BY <2>1 DEF TypeOK, LayerRecords
  <2>3. r \in Digests /\ r # None
    BY <1>2, <1>6, <1>12, <2>2
  <2>4. reuseAs(r)
    BY <1>12
  <2> HIDE DEF r
  <2> QED
    BY <1>1, <1>7, <1>12, <1>15, <2>1, <2>3, <2>4 DEF TypeOK
<1>13. ASSUME NEW p \in {"stream", "failed"}, Goto(i, p),
              UNCHANGED <<diffID, toc, blobDiffIDs, additional, info>>
       PROVE  Arrives(i) /\ ArrivalTypes'
  <2>1. pc' \in [Workers -> PCs] /\ pc'[i] = p /\ pc' = [pc EXCEPT ![i] = pc'[i]]
    BY <1>1, <1>13, GotoIsTyped DEF PCs
  <2> QED
    BY <1>1, <1>4, <1>13, <2>1 DEF Arrives, ArrivalTypes, TypeOK, Arriving
<1>14. CASE ~refused /\ \E l \in WithTOC(t) :
              LET d == IF t \in cache THEN env.tocView[t] ELSE l.diffID IN
              /\ env.sizeKnown \/ l.diffID # None
              /\ diffID' = IF d = None THEN diffID ELSE [diffID EXCEPT ![i] = d]
              /\ toc' = [toc EXCEPT ![i] = t]
              /\ reuseAs(reused(l.diffID))
              /\ UNCHANGED <<blobDiffIDs, additional>>
  <2>1. PICK l \in WithTOC(t) :
              LET d == IF t \in cache THEN env.tocView[t] ELSE l.diffID IN
              /\ env.sizeKnown \/ l.diffID # None
              /\ diffID' = IF d = None THEN diffID ELSE [diffID EXCEPT ![i] = d]
              /\ toc' = [toc EXCEPT ![i] = t]
              /\ reuseAs(reused(l.diffID))
              /\ UNCHANGED <<blobDiffIDs, additional>>
    BY <1>14
  <2> DEFINE d == IF t \in cache THEN env.tocView[t] ELSE l.diffID
  <2>2. t # None /\ t \in TOCs /\ l \in store
    BY <1>2 DEF WithTOC
  <2>3. l.diffID \in DiffIDs \cup {None}
    BY <2>2 DEF TypeOK, LayerRecords
  <2>4. d \in DiffIDs \cup {None}
    BY <1>5, <2>2, <2>3
  <2>5. diffID' = IF d = None THEN diffID ELSE [diffID EXCEPT ![i] = d]
    BY <2>1
  <2> HIDE DEF d
  <2> QED
    BY <1>12, <1>14, <2>1, <2>4, <2>5
<1> QED
  BY <1>8, <1>9, <1>10, <1>11, <1>13, <1>14, <1>16 DEF TryReusingBlob, t, here, refused, claimed

(* An arriving layer keeps the invariant of the queue.                     *)
LEMMA ArrivesKeepsQueue ==
  ASSUME TypeOK, QueueInvariant, NEW i \in Index, Arrives(i), ArrivalTypes'
  PROVE  QueueInvariant'
<1>1. /\ i \in Workers /\ i # Main /\ pc[i] \in Arriving
      /\ queued[i] = None /\ ~Committed(i) /\ pc[Main] = "start"
  BY IndexesAreWorkers DEF Arrives, Arriving, QueueInvariant, Committer, MainIsLast
<1>2. /\ UNCHANGED <<image, env, currentIndex, queued, storageID, store, images, work, trusted>>
      /\ pc'[i] \in {"stream", "put", "queue", "done", "failed"}
      /\ \A w \in Workers \ {i} : pc'[w] = pc[w]
      /\ pc'[Main] = pc[Main]
  BY <1>1, IndexesAreWorkers DEF Arrives, TypeOK
<1>3. \A w \in Workers : pc'[w] \in Committing => w # i /\ pc[w] = pc'[w]
  BY <1>2 DEF Committing
<1>4. Committer'
  BY <1>1, <1>2, <1>3, IndexesAreWorkers DEF QueueInvariant, Committer, Arriving, Committed
<1>5. CommittedInOrder'
  BY <1>2, <1>3 DEF QueueInvariant, CommittedInOrder, Committed, Committing
<1>6. QueueStopped'
  BY <1>1, <1>2, <1>3, IndexesAreWorkers DEF QueueInvariant, QueueStopped, Committed, Committing
<1>7. MainIsLast'
  BY <1>1, <1>2 DEF QueueInvariant, MainIsLast
<1>8. \A j \in Index \ {i} : Found(Identity(j)) => Found(Identity(j))'
  <2>1. \A j \in Index \ {i} : info'[j] \in Digests \cup {None}
    BY DEF Arrives, TypeOK
  <2> QED
    BY <2>1, FoundMeans DEF Arrives
<1>9. LayersAreIdentified'
  <2>1. ASSUME NEW j \in Index, pc'[j] \in Arriving
        PROVE  /\ diffID'[j] = None /\ toc'[j] = None /\ info'[j] = None
               /\ j \notin staged' /\ j \notin additional'
    BY <1>1, <1>2, <2>1, IndexesAreWorkers DEF Arrives, QueueInvariant, LayersAreIdentified
  <2>2. ASSUME NEW j \in Index,
               \/ queued'[j] # None \/ pc'[j] = "queue"
               \/ Committed(j)' /\ j \notin env'.empty
        PROVE  Found(Identity(j))'
    <3>1. CASE j # i
      BY <1>2, <1>8, <2>2, <3>1, IndexesAreWorkers DEF QueueInvariant, LayersAreIdentified, Committed
    <3>2. CASE j = i /\ pc'[i] = "queue"
      BY <3>2 DEF Arrives
    <3>3. CASE j = i /\ Committed(i) /\ i \notin env.empty
      BY <1>1, <3>3, FoundMeans
      DEF QueueInvariant, LayersAreIdentified
    <3> QED
      BY <1>1, <1>2, <2>2, <3>1, <3>2, <3>3 DEF Committed
  <2>3. ASSUME NEW j \in Index, pc'[j] = "queue" PROVE info'[j] # None
    BY <1>1, <1>2, <2>3, IndexesAreWorkers DEF Arrives, QueueInvariant, LayersAreIdentified
  <2> QED
    BY <2>1, <2>2, <2>3 DEF LayersAreIdentified
<1>10. OriginIsKnown'
  <2>1. \A j : untrustedLayerDiffID(j)' = untrustedLayerDiffID(j)
    BY <1>2 DEF untrustedLayerDiffID
  <2>2. staged' \subseteq Index /\ additional' \subseteq Index
    BY DEF ArrivalTypes
  <2> QED
    BY <1>2, <2>1, <2>2 DEF Arrives, QueueInvariant, OriginIsKnown
<1>11. TrustedIsCurrent'
  <2> SUFFICES ASSUME NEW w \in Workers, pc'[w] \in {"lookup", "check", "create"}
               PROVE  TrustedFor(w, work[w])'
    BY DEF TrustedIsCurrent, TrustedFor
  <2>1. w # i /\ pc[w] = pc'[w] /\ w # Main /\ w \in Index
    BY <1>1, <1>2, <1>3, IndexesAreWorkers DEF Committing
  <2>2. work[w] \in Index \ {i}
    BY <1>1, <2>1 DEF QueueInvariant, Committer, Committing
  <2> QED
    BY <1>8, <2>1, <2>2 DEF Arrives, QueueInvariant, TrustedIsCurrent, TrustedFor
<1>12. InternalErrorsAreExplained' /\ BlobLayersHaveDiffIDs(store)'
  BY <1>2 DEF QueueInvariant, InternalErrorsAreExplained, BlobLayersHaveDiffIDs
<1> QED
  BY <1>4, <1>5, <1>6, <1>7, <1>9, <1>10, <1>11, <1>12 DEF QueueInvariant

IDs == Seq((DiffIDs \cup TOCs) \X BOOLEAN)

(* The effect of a step of commitLayer in goroutine w.                     *)
Advances(w) ==
  /\ pc[w] \in {"begin", "lookup", "check", "create"} /\ work[w] \in Index
  /\ pc' = [pc EXCEPT ![w] = pc'[w]]
  /\ pc'[w] \in {"lookup", "check", "create", "loop", "done", "failed"}
  /\ UNCHANGED <<image, env, currentIndex, queued, diffID, toc, staged, additional, cache,
                 info, images, work>>
  /\ DOMAIN storageID' =
       IF pc'[w] = "loop" THEN DOMAIN storageID \cup {work[w]} ELSE DOMAIN storageID
  /\ \A d \in Digests : blobDiffIDs[d] # None => blobDiffIDs'[d] # None
  /\ \A v \in Workers \ {w} : trusted'[v] = trusted[v]
  /\ pc'[w] # "loop" => ~Committed(work[w])
  /\ pc'[w] = "loop" /\ work[w] \notin env.empty => Found(Identity(work[w]))'
  /\ pc'[w] = "done" => w # Main
  /\ BlobLayersHaveDiffIDs(store')
  /\ TrustedFor(w, work[w])'

CommitTypes ==
  /\ pc \in [Workers -> PCs]
  /\ blobDiffIDs \in [Digests -> DiffIDs \cup {None}]
  /\ files \subseteq Digests
  /\ DOMAIN storageID \subseteq Index
  /\ \A i \in DOMAIN storageID : storageID[i] \in IDs
  /\ store \subseteq LayerRecords
  /\ trusted \in [Workers -> Identities]

(* An identity is not lost when more becomes known of blobs.               *)
LEMMA FoundIsKept ==
  ASSUME TypeOK, NEW i \in Index, UNCHANGED <<diffID, toc, info>>,
         \A d \in Digests : blobDiffIDs[d] # None => blobDiffIDs'[d] # None,
         Found(Identity(i))
  PROVE  Found(Identity(i))'
<1>1. info[i] \in Digests \cup {None}
  BY DEF TypeOK
<1> QED
  BY <1>1, FoundMeans

(* A layer is noted as committed.                                          *)
LEMMA SetStorageIDIsTyped ==
  ASSUME TypeOK, NEW i \in Index, NEW id \in IDs, SetStorageID(i, id)
  PROVE  /\ DOMAIN storageID' = DOMAIN storageID \cup {i}
         /\ DOMAIN storageID' \subseteq Index
         /\ storageID'[i] = id
         /\ \A j \in DOMAIN storageID \ {i} : storageID'[j] = storageID[j]
         /\ \A j \in DOMAIN storageID' : storageID'[j] \in IDs
BY DEF TypeOK, SetStorageID, IDs

(* The parent of the next layer is committed.                              *)
LEMMA ParentIsTyped ==
  ASSUME TypeOK, QueueInvariant, NEW w \in Workers, pc[w] \in Committing, work[w] \in Index
  PROVE  Parent(work[w]) \in IDs
<1>1. CASE work[w] = 0
  BY <1>1 DEF Parent, IDs
<1>2. CASE work[w] # 0
  <2>1. work[w] - 1 \in Index /\ work[w] - 1 < work[w]
    BY <1>2, ManifestAssumption DEF Index
  <2>2. Committed(work[w] - 1)
    BY <2>1 DEF QueueInvariant, CommittedInOrder
  <2> QED
    BY <1>2, <2>2 DEF Parent, Committed, TypeOK, IDs
<1> QED
  BY <1>1, <1>2

(* The ID of the layer being committed                                     *)
LEMMA LayerIDIsTyped ==
  ASSUME TypeOK, QueueInvariant, NEW w \in Workers, pc[w] \in {"check", "create"}
  PROVE  /\ work[w] \in Index /\ ~Committed(work[w])
         /\ trusted[w] \in Identities
         /\ Component(trusted[w]) \in (DiffIDs \cup TOCs) \X BOOLEAN
         /\ Parent(work[w]) \in IDs
         /\ layerID(Parent(work[w]), trusted[w]) \in IDs
<1>1. work[w] \in Index /\ ~Committed(work[w]) /\ pc[w] \in Committing
  BY DEF QueueInvariant, CommittedInOrder, Committing
<1>2. trusted[w] \in Identities
  BY DEF TypeOK
<1>3. /\ trusted[w].byTOC \in BOOLEAN
      /\ trusted[w].byTOC => trusted[w].toc \in TOCs
      /\ ~trusted[w].byTOC => trusted[w].diffID \in DiffIDs
  BY <1>2 DEF QueueInvariant, TrustedIsCurrent, TrustedFor, Identities
<1>4. Component(trusted[w]) \in (DiffIDs \cup TOCs) \X BOOLEAN
  BY <1>3 DEF Component
<1>5. Parent(work[w]) \in IDs
  BY <1>1, ParentIsTyped
<1>6. layerID(Parent(work[w]), trusted[w]) \in IDs
  BY <1>4, <1>5 DEF layerID, IDs
<1> QED
  BY <1>1, <1>2, <1>4, <1>5, <1>6

(* commitLayer up to the collection of the trusted parameters              *)
LEMMA CommitLayerAdvances ==
  ASSUME TypeOK, QueueInvariant, NEW w \in Workers, CommitLayer(w)
  PROVE  Advances(w) /\ CommitTypes'
<1> DEFINE i == work[w]
<1>0. pc[w] = "begin" /\ work[w] \in 0..N /\ work[w] < N
  BY DEF CommitLayer, TypeOK
<1>1. pc[w] = "begin" /\ i \in Index /\ pc[w] \in Committing /\ i \in Int
  BY <1>0, ManifestAssumption DEF Index, Committing
<1>2. UNCHANGED <<image, env, currentIndex, queued, diffID, toc, blobDiffIDs, files, staged,
                  additional, cache, info, store, images, work>>
  BY DEF CommitLayer, pending
<1>3. /\ Found(Identity(i)) => Found(Identity(i))'
      /\ BlobLayersHaveDiffIDs(store')
  BY <1>1, <1>2, FoundIsKept DEF QueueInvariant
<1>4. CASE Committed(i) /\ Goto(w, "loop") /\ UNCHANGED <<storageID, trusted>>
  <2>1. pc' \in [Workers -> PCs] /\ pc'[w] = "loop" /\ pc' = [pc EXCEPT ![w] = pc'[w]]
    BY <1>4, GotoIsTyped DEF PCs
  <2>2. i \notin env.empty => Found(Identity(i))'
    BY <1>1, <1>3, <1>4 DEF QueueInvariant, LayersAreIdentified
  <2>3. DOMAIN storageID' = DOMAIN storageID \cup {i}
    BY <1>4 DEF Committed
  <2> QED
    BY <1>1, <1>2, <1>3, <1>4, <2>1, <2>2, <2>3 DEF Advances, CommitTypes, TypeOK, TrustedFor, IDs
<1>5. CASE i # 0 /\ ~Committed(i - 1)
  <2>1. i - 1 \in Index /\ i - 1 < i
    BY <1>1, <1>5, ManifestAssumption DEF Index
  <2> QED
    BY <1>1, <1>5, <2>1 DEF QueueInvariant, CommittedInOrder
<1>6. CASE ~Committed(i) /\ i \in env.empty /\ SetStorageID(i, Parent(i)) /\ Goto(w, "loop")
           /\ UNCHANGED trusted
  <2>1. pc' \in [Workers -> PCs] /\ pc'[w] = "loop" /\ pc' = [pc EXCEPT ![w] = pc'[w]]
    BY <1>6, GotoIsTyped DEF PCs
  <2>3. /\ DOMAIN storageID' = DOMAIN storageID \cup {i} /\ DOMAIN storageID' \subseteq Index
        /\ \A j \in DOMAIN storageID' : storageID'[j] \in IDs
    BY <1>1, <1>6, ParentIsTyped, SetStorageIDIsTyped
  <2> QED
    BY <1>1, <1>2, <1>3, <1>6, <2>1, <2>3 DEF Advances, CommitTypes, TypeOK, TrustedFor
<1>7. CASE /\ ~Committed(i) /\ UNCHANGED storageID
           /\ trusted' = [trusted EXCEPT ![w] = trustedLayerIdentityDataLocked(i, info[i])]
           /\ Goto(w, IF Found(trusted'[w]) THEN "check" ELSE "lookup")
  <2>1. trusted'[w] = Identity(i) /\ \A v \in Workers \ {w} : trusted'[v] = trusted[v]
    BY <1>7 DEF TypeOK, Identity
  <2>2. info[i] \in Digests \cup {None}
    BY <1>1 DEF TypeOK
  <2>3. /\ Identity(i) \in Identities
        /\ Identity(i).byTOC <=> (diffID[i] = None /\ toc[i] # None)
        /\ Identity(i).toc = toc[i]
        /\ Identity(i).byTOC \/ diffID[i] # None => Identity(i).diffID = diffID[i]
        /\ (Found(Identity(i)) /\ ~Identity(i).byTOC) \/ Identity(i).blob # None =>
             Identity(i).diffID # None
    BY <1>1, <2>2, IdentityIsTyped DEF Identity
  <2>4. trusted' \in [Workers -> Identities]
    BY <1>7, <2>3 DEF TypeOK, Identity
  <2>5. PICK p \in {"check", "lookup"} : Goto(w, p) /\ (p = "check" <=> Found(Identity(i)))
    BY <1>7, <2>1
  <2>6. pc' \in [Workers -> PCs] /\ pc'[w] = p /\ pc' = [pc EXCEPT ![w] = pc'[w]]
    BY <2>5, GotoIsTyped DEF PCs
  <2>7. Found(Identity(i)) <=> Found(Identity(i))'
    BY <1>1, <1>2, FoundMeans
  <2>8. ~Found(Identity(i)) => diffID[i] = None /\ toc[i] = None
    BY <1>1, FoundMeans
  <2>9. TrustedFor(w, i)'
    BY <1>2, <2>1, <2>3, <2>5, <2>6, <2>7, <2>8 DEF TrustedFor
  <2> QED
    BY <1>1, <1>2, <1>3, <1>7, <2>1, <2>4, <2>5, <2>6, <2>9 DEF Advances, CommitTypes, TypeOK, IDs
<1> QED
  BY <1>4, <1>5, <1>6, <1>7 DEF CommitLayer

(* The look for a layer nobody announced                                   *)
LEMMA LookupAdvances ==
  ASSUME TypeOK, QueueInvariant, NEW w \in Workers, Lookup(w)
  PROVE  Advances(w) /\ CommitTypes'
<1> DEFINE i == work[w]
           b == info[i]
           here == LocalMatch(b)
<1>1. /\ pc[w] = "lookup" /\ i \in Index /\ ~Committed(i)
      /\ diffID[i] = None /\ toc[i] = None
  BY DEF Lookup, QueueInvariant, CommittedInOrder, TrustedIsCurrent, TrustedFor
<1>2. UNCHANGED <<image, env, currentIndex, queued, diffID, toc, files, staged, additional,
                  cache, info, storageID, store, images, work>>
  BY DEF Lookup
<1>3. b \in Digests \cup {None}
  BY <1>1 DEF TypeOK
<1>4. here \in DiffIDs \cup {None} /\ (b = None => here = None)
  BY <1>3, LocalMatchIsTyped
<1>7. ~NoDiffID(b) /\ BlobLayersHaveDiffIDs(store')
  BY <1>2, BlobsHaveDiffIDs DEF QueueInvariant
<1> HIDE DEF here
<1>5. CASE Goto(w, "failed") /\ UNCHANGED <<blobDiffIDs, trusted>>
  <2>1. pc' \in [Workers -> PCs] /\ pc'[w] = "failed" /\ pc' = [pc EXCEPT ![w] = pc'[w]]
    BY <1>5, GotoIsTyped DEF PCs
  <2> QED
    BY <1>1, <1>2, <1>5, <1>7, <2>1 DEF Advances, CommitTypes, TypeOK, TrustedFor, IDs
<1>6. CASE /\ here # None
           /\ blobDiffIDs' = [blobDiffIDs EXCEPT ![b] = here]
           /\ trusted' = [trusted EXCEPT ![w] = [NoIdentity EXCEPT !.diffID = here, !.blob = b]]
           /\ Goto(w, "check")
  <2>1. pc' \in [Workers -> PCs] /\ pc'[w] = "check" /\ pc' = [pc EXCEPT ![w] = pc'[w]]
    BY <1>6, GotoIsTyped DEF PCs
  <2>2. b \in Digests /\ b # None /\ here \in DiffIDs
    BY <1>3, <1>4, <1>6, ManifestAssumption DEF Digests
  <2>3. /\ blobDiffIDs' \in [Digests -> DiffIDs \cup {None}] /\ blobDiffIDs'[b] = here
        /\ \A d \in Digests : blobDiffIDs[d] # None => blobDiffIDs'[d] # None
    BY <1>6, <2>2 DEF TypeOK
  <2>4. /\ trusted'[w] = [byTOC |-> FALSE, diffID |-> here, toc |-> None, blob |-> b]
        /\ \A v \in Workers \ {w} : trusted'[v] = trusted[v]
    BY <1>6 DEF TypeOK, NoIdentity
  <2>5. trusted' \in [Workers -> Identities]
    <3>1. [byTOC |-> FALSE, diffID |-> here, toc |-> None, blob |-> b] \in Identities
      BY <2>2 DEF Identities
    <3> QED
      BY <1>6, <3>1 DEF TypeOK, NoIdentity
  <2>6. Found(Identity(i))'
    BY <1>1, <1>2, <1>6, <2>2, <2>3, FoundMeans
  <2>7. TrustedFor(w, i)'
    <3>1. ~trusted'[w].byTOC /\ trusted'[w].toc = None /\ trusted'[w].diffID = here
      BY <2>4
    <3>2. diffID'[i] = None /\ toc'[i] = None /\ i' = i
      BY <1>1, <1>2
    <3> QED
      BY <1>6, <2>1, <2>6, <3>1, <3>2 DEF TrustedFor
  <2> QED
    BY <1>1, <1>2, <1>7, <2>1, <2>3, <2>4, <2>5, <2>7 DEF Advances, CommitTypes, TypeOK, IDs
<1> QED
  BY <1>1, <1>5, <1>6, <1>7 DEF Lookup, here

(* The comparison with the config, and the reuse of a layer                *)
LEMMA CheckAdvances ==
  ASSUME TypeOK, QueueInvariant, NEW w \in Workers, Check(w)
  PROVE  Advances(w) /\ CommitTypes'
<1> DEFINE i == work[w]
           id == layerID(Parent(i), trusted[w])
<1>1. /\ pc[w] = "check" /\ i \in Index /\ ~Committed(i) /\ id \in IDs
      /\ TrustedFor(w, i) /\ Found(Identity(i))
  BY LayerIDIsTyped DEF Check, QueueInvariant, TrustedIsCurrent, TrustedFor
<1>2. UNCHANGED <<image, env, currentIndex, queued, diffID, toc, blobDiffIDs, files, staged,
                  additional, cache, info, store, images, work, trusted>>
  BY DEF Check, pending
<1>3. Found(Identity(i))' /\ BlobLayersHaveDiffIDs(store')
  BY <1>1, <1>2, FoundIsKept DEF QueueInvariant
<1> HIDE DEF id
<1>4. ASSUME NEW p \in {"done", "failed", "create"}, Goto(w, p), p = "done" => w # Main,
             UNCHANGED storageID
      PROVE  Advances(w) /\ CommitTypes'
  <2>1. pc' \in [Workers -> PCs] /\ pc'[w] = p /\ pc' = [pc EXCEPT ![w] = pc'[w]]
    BY <1>4, GotoIsTyped DEF PCs
  <2>2. TrustedFor(w, i)'
    BY <1>1, <1>2, <1>3, <1>4, <2>1 DEF TrustedFor
  <2> QED
    BY <1>1, <1>2, <1>3, <1>4, <2>1, <2>2 DEF Advances, CommitTypes, TypeOK, IDs
<1>5. CASE SetStorageID(i, id) /\ Goto(w, "loop")
  <2>1. pc' \in [Workers -> PCs] /\ pc'[w] = "loop" /\ pc' = [pc EXCEPT ![w] = pc'[w]]
    BY <1>5, GotoIsTyped DEF PCs
  <2>2. /\ DOMAIN storageID' = DOMAIN storageID \cup {i} /\ DOMAIN storageID' \subseteq Index
        /\ \A j \in DOMAIN storageID' : storageID'[j] \in IDs
    BY <1>1, <1>5, SetStorageIDIsTyped
  <2> QED
    BY <1>1, <1>2, <1>3, <2>1, <2>2 DEF Advances, CommitTypes, TypeOK, TrustedFor
<1>6. CASE untrustedLayerDiffID(i) = NotYet /\ Stop(w) /\ UNCHANGED storageID
  <2>1. w # Main
    BY <1>1, <1>6, ClaimedIsTyped DEF QueueInvariant
  <2>2. Goto(w, "done")
    BY <1>6, <2>1 DEF Stop
  <2> QED
    BY <1>4, <1>6, <2>1, <2>2
<1>7. ~(trusted[w].diffID # None /\ trusted[w].byTOC)
  BY <1>1 DEF TrustedFor
<1> QED
  BY <1>4, <1>5, <1>6, <1>7 DEF Check, id

(* A new layer is stored.                                                  *)
LEMMA StoreAdvances ==
  ASSUME TypeOK, QueueInvariant, NEW w \in Workers, pc[w] = "create",
         NEW layer \in LayerRecords, Store(w, layer), layer.blob # None => layer.diffID # None,
         blobDiffIDs' \in [Digests -> DiffIDs \cup {None}], files' \subseteq Digests,
         \A d \in Digests : blobDiffIDs[d] # None => blobDiffIDs'[d] # None,
         UNCHANGED <<image, env, currentIndex, queued, diffID, toc, staged, additional, cache,
                     info, images, work, trusted>>
  PROVE  Advances(w) /\ CommitTypes'
<1>1. work[w] \in Index /\ ~Committed(work[w]) /\ Found(Identity(work[w]))
  BY LayerIDIsTyped DEF QueueInvariant, TrustedIsCurrent, TrustedFor
<1>2. Found(Identity(work[w]))'
  BY <1>1, FoundIsKept
<1>3. pc' \in [Workers -> PCs] /\ pc'[w] = "loop" /\ pc' = [pc EXCEPT ![w] = pc'[w]]
  BY GotoIsTyped DEF PCs, Store
<1>4. layer.id \in IDs
  BY DEF LayerRecords, IDs
<1>5. /\ DOMAIN storageID' = DOMAIN storageID \cup {work[w]} /\ DOMAIN storageID' \subseteq Index
      /\ \A j \in DOMAIN storageID' : storageID'[j] \in IDs
  BY <1>1, <1>4, SetStorageIDIsTyped DEF Store
<1>6. store' \subseteq LayerRecords /\ BlobLayersHaveDiffIDs(store')
  BY DEF Store, TypeOK, QueueInvariant, BlobLayersHaveDiffIDs
<1> QED
  BY <1>1, <1>2, <1>3, <1>5, <1>6 DEF Advances, CommitTypes, TypeOK, TrustedFor

(* createNewLayer *)
LEMMA CreateLayerAdvances ==
  ASSUME TypeOK, QueueInvariant, NEW w \in Workers, CreateLayer(w)
  PROVE  Advances(w) /\ CommitTypes'
<1> DEFINE i == work[w]
           id == trusted[w]
           lid == layerID(Parent(i), id)
           new(d, t, x, content) ==
             [id |-> lid, diffID |-> d, toc |-> t, blob |-> x, content |-> content]
           b == LayerBlob[i]
<1>1. /\ pc[w] = "create" /\ i \in Index /\ ~Committed(i) /\ lid \in IDs
      /\ TrustedFor(w, i) /\ Found(Identity(i)) /\ id \in Identities
  BY LayerIDIsTyped DEF CreateLayer, QueueInvariant, TrustedIsCurrent, TrustedFor
<1>2. UNCHANGED <<image, env, currentIndex, queued, diffID, toc, staged, additional, cache,
                  info, images, work, trusted>>
  BY DEF CreateLayer
<1>3. /\ id.diffID \in DiffIDs \cup {None} /\ id.toc \in TOCs \cup {None}
      /\ id.blob \in Digests \cup {None} /\ id.byTOC \in BOOLEAN
  BY <1>1 DEF Identities
<1>4. b \in Blobs /\ b \in Digests /\ BlobDiffID[b] \in DiffIDs /\ BlobTOC[b] \in TOCs \cup {None}
  BY <1>1, ManifestAssumption DEF Digests
<1> HIDE DEF lid, b
<1>5. ASSUME NEW p \in {"done", "failed"}, Goto(w, p), p = "done" => w # Main,
             UNCHANGED <<storageID, store, blobDiffIDs, files>>
      PROVE  Advances(w) /\ CommitTypes'
  <2>1. pc' \in [Workers -> PCs] /\ pc'[w] = p /\ pc' = [pc EXCEPT ![w] = pc'[w]]
    BY <1>5, GotoIsTyped DEF PCs
  <2>2. BlobLayersHaveDiffIDs(store')
    BY <1>5 DEF QueueInvariant
  <2> QED
    BY <1>1, <1>2, <1>5, <2>1, <2>2 DEF Advances, CommitTypes, TypeOK, IDs, TrustedFor
<1>6. \A d \in DiffIDs \cup {None}, t \in TOCs \cup {None}, x \in Digests \cup {None}, c \in DiffIDs :
        /\ new(d, t, x, c) \in LayerRecords
        /\ new(d, t, x, c).blob = x /\ new(d, t, x, c).diffID = d
  BY <1>1 DEF LayerRecords, IDs
<1>7. ASSUME i \in staged, id.diffID = None
      PROVE  untrustedLayerDiffID(i) \notin {NotYet, Unknown}
  <2>1. diffID[i] = None
    BY <1>1, <1>7 DEF TrustedFor
  <2> QED
    BY <1>1, <1>7, <2>1, ClaimedIsTyped DEF QueueInvariant, OriginIsKnown
<1> HIDE DEF new
<1>8. ASSUME NEW layer \in LayerRecords, Store(w, layer),
             layer.blob # None => layer.diffID # None, UNCHANGED <<blobDiffIDs, files>>
      PROVE  Advances(w) /\ CommitTypes'
  <2>1. /\ blobDiffIDs' \in [Digests -> DiffIDs \cup {None}] /\ files' \subseteq Digests
        /\ \A d \in Digests : blobDiffIDs[d] # None => blobDiffIDs'[d] # None
    BY <1>8 DEF TypeOK
  <2> QED
    BY <1>1, <1>2, <1>8, <2>1, StoreAdvances
<1>9. /\ new(id.diffID, None, b, BlobDiffID[b]) \in LayerRecords
      /\ BlobTOC[b] # None =>
           new(id.diffID, BlobTOC[b], None, env.tocView[BlobTOC[b]]) \in LayerRecords
      /\ i \in additional => new(None, id.toc, None, env.tocView[id.toc]) \in LayerRecords
      /\ id.blob \in files => new(id.diffID, None, id.blob, ContentOf(id.blob)) \in LayerRecords
  <2>1. BlobTOC[b] # None => BlobTOC[b] \in TOCs /\ env.tocView[BlobTOC[b]] \in DiffIDs
    BY <1>4, ViewIsTyped
  <2>2. i \in additional => id.toc \in TOCs /\ env.tocView[id.toc] \in DiffIDs
    <3>1. i \in additional => id.toc \in TOCs
      BY <1>1, <1>3 DEF QueueInvariant, OriginIsKnown, TrustedFor
    <3> QED
      BY <3>1, ViewIsTyped
  <2>3. id.blob \in files => id.blob \in Digests /\ ContentOf(id.blob) \in DiffIDs
    BY ManifestAssumption DEF TypeOK, Digests, ContentOf
  <2> QED
    BY <1>3, <1>4, <1>6, <2>1, <2>2, <2>3
<1>11. /\ i \in staged /\ BlobTOC[b] = None => id.diffID # None
       /\ id.blob # None => id.diffID # None
  BY <1>1 DEF QueueInvariant, OriginIsKnown, TrustedFor, b
<1>12. ASSUME i \in staged,
              id.diffID # None \/ untrustedLayerDiffID(i) \notin {NotYet, Unknown, TooFew},
              Store(w, IF BlobTOC[b] = None
                       THEN new(id.diffID, None, b, BlobDiffID[b])
                       ELSE new(id.diffID, BlobTOC[b], None, env.tocView[BlobTOC[b]])),
              UNCHANGED <<blobDiffIDs, files>>
       PROVE  Advances(w) /\ CommitTypes'
  <2>1. CASE BlobTOC[b] = None
    <3>1. new(id.diffID, None, b, BlobDiffID[b]).diffID # None
      BY <1>11, <1>12, <2>1 DEF new
    <3> QED
      BY <1>8, <1>9, <1>12, <2>1, <3>1
  <2>2. CASE BlobTOC[b] # None
    <3>1. new(id.diffID, BlobTOC[b], None, env.tocView[BlobTOC[b]]).blob = None
      BY DEF new
    <3> QED
      BY <1>8, <1>9, <1>12, <2>2, <3>1
  <2> QED
    BY <2>1, <2>2
<1>13. ASSUME i \in additional, Store(w, new(None, id.toc, None, env.tocView[id.toc])),
              UNCHANGED <<blobDiffIDs, files>>
       PROVE  Advances(w) /\ CommitTypes'
  <2>1. new(None, id.toc, None, env.tocView[id.toc]).blob = None
    BY DEF new
  <2> QED
    BY <1>8, <1>9, <1>13, <2>1
<1>14. ASSUME id.blob \in files, Store(w, new(id.diffID, None, id.blob, ContentOf(id.blob))),
              UNCHANGED <<blobDiffIDs, files>>
       PROVE  Advances(w) /\ CommitTypes'
  <2>1. id.blob \in Digests /\ ContentOf(id.blob) \in DiffIDs /\ id.blob # None
    BY <1>14, ManifestAssumption DEF TypeOK, Digests, ContentOf
  <2>2. new(id.diffID, None, id.blob, ContentOf(id.blob)).diffID # None
    BY <1>3, <1>6, <1>11, <2>1
  <2> QED
    BY <1>8, <1>9, <1>14, <2>2
<1>10. ASSUME NEW l \in SourceLayers(id),
              NEW d, d = IF id.diffID # None THEN id.diffID ELSE l.diffID,
              NEW computed, computed = IF d # None THEN d ELSE l.content,
              NEW x, x = IF id.blob # None /\ l.blob = id.blob THEN id.blob ELSE computed,
              Store(w, new(computed, None, x, l.content)),
              IF d = None THEN UNCHANGED <<blobDiffIDs, files>>
              ELSE /\ blobDiffIDs' = [blobDiffIDs EXCEPT ![d] = d]
                   /\ files' = files \cup {d}
       PROVE  Advances(w) /\ CommitTypes'
  <2>1. l \in store /\ l \in LayerRecords
    BY DEF SourceLayers, WithDiffID, WithTOC, WithBlob, TypeOK
  <2>2. l.diffID \in DiffIDs \cup {None} /\ l.content \in DiffIDs
    BY <2>1 DEF LayerRecords
  <2>3. d \in DiffIDs \cup {None}
    BY <1>3, <1>10, <2>2
  <2>4. computed \in DiffIDs \cup {None} /\ x \in Digests \cup {None}
    BY <1>3, <1>10, <2>2, <2>3 DEF Digests
  <2>5. /\ new(computed, None, x, l.content) \in LayerRecords
        /\ new(computed, None, x, l.content).diffID # None
    BY <1>6, <1>10, <2>2, <2>4, ManifestAssumption
  <2>6. /\ blobDiffIDs' \in [Digests -> DiffIDs \cup {None}] /\ files' \subseteq Digests
        /\ \A y \in Digests : blobDiffIDs[y] # None => blobDiffIDs'[y] # None
    BY <1>10, <2>3 DEF TypeOK, Digests
  <2> QED
    BY <1>1, <1>2, <1>10, <2>5, <2>6, StoreAdvances
<1> QED
  BY <1>5, <1>7, <1>10, <1>12, <1>13, <1>14 DEF CreateLayer, lid, b, new

(* commitLayer runs in one goroutine at a time.                            *)
LEMMA OneCommitter ==
  ASSUME TypeOK, QueueInvariant, NEW v \in Workers, NEW w \in Workers,
         pc[v] \in Committing, pc[w] \in Committing
  PROVE  v = w
<1>1. v \in Index /\ w \in Index => v = w
  BY DEF QueueInvariant, Committer
<1>2. v = Main => w \notin Index
  BY DEF QueueInvariant, MainIsLast, Committing
<1>3. w = Main => v \notin Index
  BY DEF QueueInvariant, MainIsLast, Committing
<1> QED
  BY <1>1, <1>2, <1>3, IndexesAreWorkers

(* A step of commitLayer keeps the invariant of the queue.                 *)
LEMMA AdvancesKeepsQueue ==
  ASSUME TypeOK, QueueInvariant, NEW w \in Workers, Advances(w), CommitTypes'
  PROVE  QueueInvariant'
<1>1. /\ UNCHANGED <<image, env, currentIndex, queued, diffID, toc, staged, additional, cache,
                     info, images, work>>
      /\ pc[w] \in {"begin", "lookup", "check", "create"} /\ pc[w] \in Committing
      /\ pc'[w] \in {"lookup", "check", "create", "loop", "done", "failed"}
      /\ work[w] \in Index
  BY DEF Advances, Committing
<1>2. \A v \in Workers \ {w} : pc'[v] = pc[v] /\ pc[v] \notin Committing
  BY <1>1, OneCommitter DEF Advances, TypeOK
<1>3. /\ \A j \in Index : Committed(j) => Committed(j)'
      /\ \A j \in Index \ {work[w]} : Committed(j)' => Committed(j)
      /\ pc'[w] # "loop" => (Committed(work[w])' <=> Committed(work[w])) /\ ~Committed(work[w])
      /\ pc'[w] = "loop" =>
           Committed(work[w])' /\ (work[w] \notin env.empty => Found(Identity(work[w]))')
  BY <1>1 DEF Advances, Committed
<1>4. Committer'
  <2>1. \A v \in Index : pc'[v] \in Committing =>
          /\ currentIndex = v /\ v <= work[v]
          /\ work[v] \in Index /\ queued[work[v]] # None /\ queued[v] # None
    BY <1>1, <1>2, IndexesAreWorkers DEF QueueInvariant, Committer
  <2>2. pc[work[w]] \notin Arriving \cup {"queue"}
    <3>1. CASE w \in Index
      BY <1>1, <3>1 DEF QueueInvariant, Committer
    <3>2. CASE w = Main
      BY <1>1, <3>2 DEF QueueInvariant, MainIsLast, Arriving
    <3> QED
      BY <3>1, <3>2, IndexesAreWorkers
  <2>3. ASSUME NEW j \in Index, queued[j] # None \/ Committed(j)'
        PROVE  pc'[j] \notin Arriving \cup {"queue"}
    <3>1. pc[j] \notin Arriving \cup {"queue"}
      BY <1>3, <2>2, <2>3 DEF QueueInvariant, Committer
    <3> QED
      BY <1>1, <1>2, <3>1, IndexesAreWorkers DEF Arriving
  <2> QED
    BY <1>1, <2>1, <2>3 DEF Committer
<1>5. CommittedInOrder'
  <2>1. \A j \in Index : j < currentIndex => Committed(j)'
    BY <1>3 DEF QueueInvariant, CommittedInOrder
  <2>2. \A v \in Workers : pc'[v] \in Committing => \A j \in Index : j < work[v] => Committed(j)'
    BY <1>1, <1>2, <1>3 DEF QueueInvariant, CommittedInOrder
  <2>3. \A v \in Workers : pc'[v] \in {"lookup", "check", "create"} =>
          v = w /\ work[v] \in Index /\ ~Committed(work[v])'
    BY <1>1, <1>2, <1>3 DEF Committing
  <2>4. \A v \in Workers : pc'[v] = "loop" => v = w /\ work[v] \in Index /\ Committed(work[v])'
    BY <1>1, <1>2, <1>3 DEF Committing
  <2> QED
    BY <1>1, <2>1, <2>2, <2>3, <2>4 DEF CommittedInOrder
<1>6. QueueStopped'
  <2> SUFFICES ASSUME currentIndex \in Index, pc'[Main] = "start", queued[currentIndex] # None,
                      pc'[currentIndex] \notin Committing
               PROVE  /\ pc'[currentIndex] \in {"done", "failed"}
                      /\ work[currentIndex] >= currentIndex
                      /\ work[currentIndex] \in Index /\ ~Committed(work[currentIndex])'
                      /\ \A j \in Index : j < work[currentIndex] => Committed(j)'
    BY <1>1 DEF QueueStopped
  <2>1. w \in Index /\ w = currentIndex
    BY <1>1, IndexesAreWorkers DEF QueueInvariant, Committer
  <2>2. pc'[w] # "loop"
    BY <2>1 DEF Committing
  <2>3. work[w] >= w
    BY <1>1, <2>1, ManifestAssumption DEF QueueInvariant, Committer, Index
  <2>4. pc'[w] \in {"done", "failed"}
    BY <1>1, <2>1 DEF Committing
  <2>5. \A j \in Index : j < work[w] => Committed(j)'
    BY <1>1, <1>3, <2>1 DEF QueueInvariant, CommittedInOrder
  <2> QED
    BY <1>1, <1>3, <2>1, <2>2, <2>3, <2>4, <2>5
<1>7. MainIsLast'
  <2>1. CASE w = Main
    <3>1. \A i \in Index : pc'[i] = "done"
      BY <1>1, <1>2, <2>1, IndexesAreWorkers DEF QueueInvariant, MainIsLast
    <3> QED
      BY <1>1, <2>1, <3>1 DEF MainIsLast
  <2>2. CASE w \in Index
    <3>1. pc[Main] = "start" /\ pc'[Main] = "start"
      BY <1>1, <1>2, <2>2, IndexesAreWorkers DEF QueueInvariant, MainIsLast
    <3> QED
      BY <1>1, <3>1 DEF QueueInvariant, MainIsLast
  <2> QED
    BY <2>1, <2>2, IndexesAreWorkers
<1>8. \A j \in Index : Found(Identity(j)) => Found(Identity(j))'
  BY <1>1, FoundIsKept DEF Advances
<1>9. LayersAreIdentified'
  <2>1. ASSUME NEW j \in Index, pc'[j] \in Arriving \cup {"queue"}
        PROVE  j # w /\ pc'[j] = pc[j]
    BY <1>1, <1>2, <2>1, IndexesAreWorkers DEF Arriving
  <2>2. ASSUME NEW j \in Index,
               \/ queued[j] # None \/ pc'[j] = "queue"
               \/ Committed(j)' /\ j \notin env.empty
        PROVE  Found(Identity(j))'
    <3>1. CASE queued[j] # None \/ pc'[j] = "queue" \/ (Committed(j) /\ j \notin env.empty)
      BY <1>8, <2>1, <3>1 DEF QueueInvariant, LayersAreIdentified
    <3>2. CASE Committed(j)' /\ ~Committed(j) /\ j \notin env.empty
      <4>1. j = work[w] /\ j = work'[w] /\ pc'[w] = "loop"
        BY <1>1, <1>3, <3>2
      <4>2. Found(Identity(work[w]))'
        BY <1>3, <3>2, <4>1
      <4> QED
        BY <4>1, <4>2, FoundMeans
    <3> QED
      BY <2>2, <3>1, <3>2
  <2> QED
    BY <1>1, <2>1, <2>2 DEF QueueInvariant, LayersAreIdentified
<1>10. OriginIsKnown'
  <2>1. \A j : env.noted => untrustedLayerDiffID(j)' = untrustedLayerDiffID(j)
    BY <1>1 DEF untrustedLayerDiffID
  <2> QED
    BY <1>1, <2>1 DEF QueueInvariant, OriginIsKnown
<1>11. TrustedIsCurrent'
  <2> SUFFICES ASSUME NEW v \in Workers \ {w} PROVE TrustedFor(v, work[v])'
    BY DEF TrustedIsCurrent, Advances
  <2> QED
    BY <1>2 DEF TrustedFor, Committing
<1>12. InternalErrorsAreExplained' /\ BlobLayersHaveDiffIDs(store)'
  BY <1>1, <1>2 DEF QueueInvariant, InternalErrorsAreExplained, BlobLayersHaveDiffIDs, Advances
<1> QED
  BY <1>4, <1>5, <1>6, <1>7, <1>9, <1>10, <1>11, <1>12 DEF QueueInvariant

(* A step that moves goroutine w and leaves what is known of the layers    *)
(* alone keeps the identities.                                             *)
LEMMA IdentitiesAreKept ==
  ASSUME TypeOK, QueueInvariant,
         UNCHANGED <<env, diffID, toc, blobDiffIDs, staged, additional, info, storageID, trusted>>,
         \A w \in Workers : pc'[w] \in {"lookup", "check", "create"} =>
           pc'[w] = pc[w] /\ work'[w] = work[w],
         \A i \in Index : pc'[i] \in Arriving \cup {"queue"} => pc'[i] = pc[i],
         \A i \in Index : queued'[i] # None => queued[i] # None \/ pc[i] = "queue"
  PROVE  LayersAreIdentified' /\ OriginIsKnown' /\ TrustedIsCurrent'
<1>1. \A j \in Index : Found(Identity(j)) => Found(Identity(j))'
  BY FoundMeans
<1>2. LayersAreIdentified'
  BY <1>1 DEF QueueInvariant, LayersAreIdentified, Committed
<1>3. OriginIsKnown'
  <2>1. \A j : env.noted => untrustedLayerDiffID(j)' = untrustedLayerDiffID(j)
    BY DEF untrustedLayerDiffID
  <2> QED
    BY <2>1 DEF QueueInvariant, OriginIsKnown
<1>4. ASSUME NEW w \in Workers PROVE TrustedFor(w, work[w])'
  <2>1. CASE pc'[w] \in {"lookup", "check", "create"}
    <3>1. work[w] \in Index /\ pc'[w] = pc[w] /\ work'[w] = work[w] /\ work'[w] \in Index
      BY <2>1 DEF QueueInvariant, CommittedInOrder
    <3>2. Found(Identity(work[w])) => Found(Identity(work[w]))'
      BY <3>1, FoundMeans
    <3> QED
      BY <3>1, <3>2 DEF QueueInvariant, TrustedIsCurrent, TrustedFor
  <2>2. CASE pc'[w] \notin {"lookup", "check", "create"}
    BY <2>2 DEF TrustedFor
  <2> QED
    BY <2>1, <2>2
<1> QED
  BY <1>2, <1>3, <1>4 DEF TrustedIsCurrent

(* queueOrCommit, stage 1: who queues the layer at currentIndex commits.   *)
LEMMA QueueKeepsQueue ==
  ASSUME TypeOK, QueueInvariant, NEW i \in Index, Queue(i)
  PROVE  QueueInvariant' /\ TypeOK'
<1>1. /\ pc[i] = "queue" /\ i \in Workers /\ i # Main /\ i \in Int /\ pc[Main] = "start"
      /\ queued[i] = None /\ info[i] # None /\ info[i] \in Digests
  BY IndexesAreWorkers
  DEF Queue, QueueInvariant, MainIsLast, Committer, LayersAreIdentified, TypeOK
<1>2. UNCHANGED <<image, env, currentIndex, diffID, toc, blobDiffIDs, files, staged, additional,
                  cache, info, storageID, store, images, trusted>>
  BY DEF Queue
<1>3. /\ queued'[i] # None /\ \A j \in Index \ {i} : queued'[j] = queued[j]
      /\ queued' \in [Index -> Digests \cup {None}]
      /\ (i = currentIndex => work'[i] = i) /\ \A v \in Workers \ {i} : work'[v] = work[v]
  BY <1>1 DEF Queue, TypeOK
<1>4. PICK p \in {"begin", "done"} : Goto(i, p) /\ (p = "begin" <=> i = currentIndex)
  BY DEF Queue
<1>5. /\ pc' \in [Workers -> PCs] /\ pc'[i] = p
      /\ \A v \in Workers \ {i} : pc'[v] = pc[v]
  BY <1>1, <1>4, GotoIsTyped DEF PCs, TypeOK
<1>6. work' \in [Workers -> 0..N]
  <2>1. i \in 0..N
    BY ManifestAssumption DEF Index
  <2> QED
    BY <2>1 DEF Queue, TypeOK
<1>7. TypeOK'
  BY <1>2, <1>3, <1>5, <1>6 DEF TypeOK, PCs
<1>8. Committer'
  <2>1. ASSUME NEW w \in Index, pc'[w] \in Committing
        PROVE  /\ currentIndex' = w /\ w <= work'[w]
               /\ work'[w] \in Index /\ queued'[work'[w]] # None /\ queued'[w] # None
    <3>1. CASE w = i
      BY <1>1, <1>2, <1>3, <1>4, <1>5, <2>1, <3>1 DEF Committing
    <3>2. CASE w # i
      BY <1>1, <1>2, <1>3, <1>5, <2>1, <3>2, IndexesAreWorkers DEF QueueInvariant, Committer
    <3> QED
      BY <3>1, <3>2
  <2>2. ASSUME NEW j \in Index, queued'[j] # None \/ Committed(j)'
        PROVE  pc'[j] \notin Arriving \cup {"queue"}
    BY <1>2, <1>3, <1>5, <2>2, IndexesAreWorkers DEF QueueInvariant, Committer, Arriving, Committed
  <2> QED
    BY <2>1, <2>2 DEF Committer
<1>9. CommittedInOrder'
  BY <1>1, <1>2, <1>3, <1>4, <1>5 DEF QueueInvariant, CommittedInOrder, Committed, Committing
<1>10. QueueStopped'
  <2>1. CASE currentIndex = i
    BY <1>2, <1>4, <1>5, <2>1 DEF QueueStopped, Committing
  <2>2. CASE currentIndex # i
    BY <1>1, <1>2, <1>3, <1>5, <2>2, IndexesAreWorkers DEF QueueInvariant, QueueStopped, Committed
  <2> QED
    BY <2>1, <2>2
<1>11. MainIsLast'
  BY <1>1, <1>3, <1>5, IndexesAreWorkers DEF QueueInvariant, MainIsLast
<1>12. InternalErrorsAreExplained' /\ BlobLayersHaveDiffIDs(store)'
  <2>1. \A w \in Workers : pc[w] # "internal error"
    BY <1>1 DEF QueueInvariant, InternalErrorsAreExplained
  <2> QED
    BY <1>2, <1>5, <2>1 DEF QueueInvariant, InternalErrorsAreExplained, BlobLayersHaveDiffIDs
<1>13. LayersAreIdentified' /\ OriginIsKnown' /\ TrustedIsCurrent'
  BY <1>1, <1>2, <1>3, <1>5, IdentitiesAreKept, IndexesAreWorkers DEF Arriving
<1> QED
  BY <1>7, <1>8, <1>9, <1>10, <1>11, <1>12, <1>13 DEF QueueInvariant

(* queueOrCommit, stage 2: the next queued layer, or the end of this       *)
(* committer.                                                              *)
LEMMA LoopKeepsQueue ==
  ASSUME TypeOK, QueueInvariant, NEW i \in Index, Loop(i)
  PROVE  QueueInvariant' /\ TypeOK'
<1>1. /\ pc[i] = "loop" /\ i \in Workers /\ i # Main /\ i \in Int /\ pc[Main] = "start"
      /\ currentIndex = i /\ i <= work[i] /\ work[i] \in Index /\ work[i] \in Int
      /\ Committed(work[i]) /\ queued[i] # None
  BY IndexesAreWorkers
  DEF Loop, QueueInvariant, MainIsLast, Committer, CommittedInOrder, Committing
<1>2. UNCHANGED <<image, env, queued, diffID, toc, blobDiffIDs, files, staged, additional,
                  cache, info, storageID, store, images, trusted>>
  BY DEF Loop, pending
<1>3. \A j \in Index : j < work[i] + 1 => Committed(j)
  BY <1>1, ManifestAssumption DEF QueueInvariant, CommittedInOrder, Committing, Index
<1>4. \A v \in Workers \ {i} : pc[v] \notin Committing
  BY <1>1, OneCommitter DEF Committing
<1>5. CASE /\ work[i] + 1 < N /\ queued[work[i] + 1] # None
           /\ work' = [work EXCEPT ![i] = @ + 1] /\ Goto(i, "begin") /\ UNCHANGED currentIndex
  <2>0. work[i] + 1 \in Index /\ i <= work[i] + 1 /\ work[i] + 1 \in 0..N
    BY <1>1, <1>5, ManifestAssumption DEF Index
  <2>1. /\ work'[i] = work[i] + 1 /\ work'[i] \in Index /\ i <= work'[i]
        /\ \A v \in Workers \ {i} : work'[v] = work[v]
    BY <1>1, <1>5, <2>0 DEF TypeOK
  <2>2. /\ pc' \in [Workers -> PCs] /\ pc'[i] = "begin"
        /\ \A v \in Workers \ {i} : pc'[v] = pc[v]
    BY <1>1, <1>5, GotoIsTyped DEF PCs, TypeOK
  <2>3. work' \in [Workers -> 0..N]
    BY <1>1, <1>5, <2>0 DEF TypeOK
  <2>4. TypeOK'
    BY <1>2, <1>5, <2>2, <2>3 DEF TypeOK, PCs
  <2>5. Committer'
    BY <1>1, <1>2, <1>4, <1>5, <2>1, <2>2, IndexesAreWorkers
    DEF QueueInvariant, Committer, Arriving, Committed
  <2>6. CommittedInOrder'
    BY <1>2, <1>3, <1>4, <1>5, <2>1, <2>2
    DEF QueueInvariant, CommittedInOrder, Committed, Committing
  <2>7. QueueStopped'
    BY <1>1, <1>5, <2>2 DEF QueueStopped, Committing
  <2>8. MainIsLast'
    BY <1>1, <2>1, <2>2, IndexesAreWorkers DEF QueueInvariant, MainIsLast
  <2>9. InternalErrorsAreExplained' /\ BlobLayersHaveDiffIDs(store)'
    <3>1. \A w \in Workers : pc[w] # "internal error"
      BY <1>1 DEF QueueInvariant, InternalErrorsAreExplained
    <3> QED
      BY <1>2, <2>2, <3>1 DEF QueueInvariant, InternalErrorsAreExplained, BlobLayersHaveDiffIDs
  <2>10. LayersAreIdentified' /\ OriginIsKnown' /\ TrustedIsCurrent'
    BY <1>2, <2>1, <2>2, IdentitiesAreKept, IndexesAreWorkers DEF Arriving
  <2> QED
    BY <2>4, <2>5, <2>6, <2>7, <2>8, <2>9, <2>10 DEF QueueInvariant
<1>6. CASE /\ ~(work[i] + 1 < N /\ queued[work[i] + 1] # None)
           /\ currentIndex' = work[i] + 1 /\ Goto(i, "done") /\ UNCHANGED work
  <2>1. /\ pc' \in [Workers -> PCs] /\ pc'[i] = "done"
        /\ \A v \in Workers \ {i} : pc'[v] = pc[v]
    BY <1>1, <1>6, GotoIsTyped DEF PCs, TypeOK
  <2>2. currentIndex' \in 0..N /\ (currentIndex' \in Index => queued[currentIndex'] = None)
    BY <1>1, <1>6, ManifestAssumption DEF Index
  <2>3. TypeOK'
    BY <1>2, <1>6, <2>1, <2>2 DEF TypeOK, PCs
  <2>4. Committer'
    BY <1>2, <1>4, <2>1, IndexesAreWorkers
    DEF QueueInvariant, Committer, Arriving, Committing, Committed
  <2>5. CommittedInOrder'
    BY <1>2, <1>3, <1>4, <1>6, <2>1 DEF CommittedInOrder, Committed, Committing
  <2>6. QueueStopped'
    BY <1>2, <2>2 DEF QueueStopped
  <2>7. MainIsLast'
    BY <1>1, <1>6, <2>1, IndexesAreWorkers DEF QueueInvariant, MainIsLast
  <2>8. InternalErrorsAreExplained' /\ BlobLayersHaveDiffIDs(store)'
    <3>1. \A w \in Workers : pc[w] # "internal error"
      BY <1>1 DEF QueueInvariant, InternalErrorsAreExplained
    <3> QED
      BY <1>2, <2>1, <3>1 DEF QueueInvariant, InternalErrorsAreExplained, BlobLayersHaveDiffIDs
  <2>9. LayersAreIdentified' /\ OriginIsKnown' /\ TrustedIsCurrent'
    BY <1>1, <1>2, <1>6, <2>1, IdentitiesAreKept, IndexesAreWorkers DEF Arriving
  <2> QED
    BY <2>3, <2>4, <2>5, <2>6, <2>7, <2>8, <2>9 DEF QueueInvariant
<1> QED
  BY <1>5, <1>6 DEF Loop

(* PutManifest, and the steps of CommitWithOptions outside of commitLayer, *)
(* except for the end of its loop                                          *)
LEMMA MainKeepsQueue ==
  ASSUME TypeOK, QueueInvariant, PutManifest \/ CommitNext \/ CreateImage \/ AddNames
  PROVE  QueueInvariant' /\ TypeOK'
<1>1. UNCHANGED <<image, env, currentIndex, queued, diffID, toc, blobDiffIDs, files, staged,
                  additional, cache, info, storageID, store, trusted>>
  BY DEF PutManifest, CommitNext, CreateImage, AddNames, pending
<1>2. Main \in Workers /\ Main \notin Index /\ \A i \in Index : i \in Workers /\ i # Main
  BY IndexesAreWorkers
<1>3. ASSUME NEW p \in {"begin", "failed", "name", "done", "internal error"}, Goto(Main, p),
             p = "internal error" => work'[Main] = N /\ \E i \in env.empty : queued[i] = None,
             work' \in [Workers -> 0..N], \A w \in Index : work'[w] = work[w],
             \A i \in Index : pc[i] \in {"done", "failed"},
             p # "failed" => \A i \in Index : pc[i] = "done",
             p = "begin" => \A j \in Index : j < work'[Main] => Committed(j)
      PROVE  QueueInvariant' /\ TypeOK'
  <2>1. /\ pc' \in [Workers -> PCs] /\ pc'[Main] = p
        /\ \A i \in Index : pc'[i] = pc[i] /\ pc[i] \in {"done", "failed"}
    <3>1. p \in PCs
      BY <1>3 DEF PCs
    <3>2. pc' \in [Workers -> PCs] /\ pc'[Main] = p
      BY <1>2, <1>3, <3>1, GotoIsTyped
    <3>3. \A i \in Index : pc'[i] = pc[i]
      BY <1>2, <1>3 DEF Goto, TypeOK
    <3> QED
      BY <1>3, <3>2, <3>3
  <2>2. TypeOK'
    BY <1>1, <1>3, <2>1 DEF TypeOK, PCs
  <2>3. Committer'
    BY <1>1, <2>1 DEF Committer, Arriving, Committing
  <2>4. CommittedInOrder'
    BY <1>1, <1>2, <1>3, <2>1, IndexesAreWorkers
    DEF QueueInvariant, CommittedInOrder, Committed, Committing
  <2>5. QueueStopped' /\ MainIsLast'
    BY <1>3, <2>1 DEF QueueStopped, MainIsLast
  <2>6. InternalErrorsAreExplained' /\ BlobLayersHaveDiffIDs(store)'
    BY <1>1, <1>3, <2>1, IndexesAreWorkers
    DEF QueueInvariant, InternalErrorsAreExplained, BlobLayersHaveDiffIDs
  <2>7. LayersAreIdentified' /\ OriginIsKnown' /\ TrustedIsCurrent'
    <3>1. \A w \in Workers : pc'[w] \notin {"lookup", "check", "create"}
      BY <2>1, IndexesAreWorkers
    <3>2. \A i \in Index : pc'[i] \in Arriving \cup {"queue"} => pc'[i] = pc[i]
      BY <2>1
    <3> QED
      BY <1>1, <3>1, <3>2, IdentitiesAreKept
  <2> QED
    BY <2>2, <2>3, <2>4, <2>5, <2>6, <2>7 DEF QueueInvariant
<1>4. CASE PutManifest
  <2>1. \A i \in Index : pc[i] \in {"done", "failed"}
    BY <1>2, <1>4 DEF PutManifest, Arrived, QueueInvariant, InternalErrorsAreExplained
  <2>2. work' = work /\ work[Main] = 0 /\ work \in [Workers -> 0..N]
    BY <1>4 DEF PutManifest, QueueInvariant, MainIsLast, TypeOK
  <2>3. \A j \in Index : ~(j < work'[Main])
    BY <2>2, ManifestAssumption DEF Index
  <2>4. CASE (\A i \in Index : pc[i] = "done") /\ Goto(Main, "begin")
    BY <1>3, <2>1, <2>2, <2>3, <2>4
  <2>5. CASE Goto(Main, "failed")
    BY <1>3, <2>1, <2>2, <2>5
  <2> QED
    BY <1>4, <2>4, <2>5 DEF PutManifest
<1>5. CASE CommitNext
  <2>1. /\ pc[Main] = "loop" /\ work[Main] \in Index /\ Committed(work[Main])
        /\ \A i \in Index : pc[i] = "done"
    BY <1>2, <1>5 DEF CommitNext, QueueInvariant, CommittedInOrder, MainIsLast
  <2>2. work[Main] + 1 \in 0..N
    BY <2>1, ManifestAssumption DEF Index
  <2>3. /\ work' \in [Workers -> 0..N] /\ work'[Main] = work[Main] + 1
        /\ \A w \in Index : work'[w] = work[w]
    BY <1>2, <1>5, <2>2 DEF CommitNext, TypeOK
  <2>4. \A j \in Index : j < work[Main] => Committed(j)
    BY <1>2, <2>1 DEF QueueInvariant, CommittedInOrder, Committing
  <2>5. \A j \in Index : j < work[Main] + 1 => Committed(j)
    BY <2>1, <2>4, ManifestAssumption DEF Index
  <2>6. Goto(Main, "begin")
    BY <1>5 DEF CommitNext
  <2> QED
    BY <1>3, <2>1, <2>3, <2>5, <2>6
<1>6. CASE CreateImage
  <2>1. /\ pc[Main] = "begin" /\ work[Main] = N /\ UNCHANGED work
        /\ \A i \in Index : pc[i] = "done"
    BY <1>6 DEF CreateImage, QueueInvariant, MainIsLast
  <2>2. \A i \in Index : Committed(i)
    BY <1>2, <2>1, ManifestAssumption DEF QueueInvariant, CommittedInOrder, Committing, Index
  <2>3. \A i \in Index : ~Found(trustedLayerIdentityDataLocked(i, info[i])) =>
          i \in env.empty /\ queued[i] = None
    BY <2>2 DEF QueueInvariant, LayersAreIdentified, Identity
  <2>4. \/ Goto(Main, "failed") \/ Goto(Main, "name")
        \/ Goto(Main, "internal error") /\ \E i \in env.empty : queued[i] = None
    BY <1>6, <2>3 DEF CreateImage
  <2>5. work' \in [Workers -> 0..N] /\ \A w \in Index : work'[w] = work[w]
    BY <2>1 DEF TypeOK
  <2> QED
    BY <1>3, <2>1, <2>4, <2>5
<1>7. CASE AddNames
  <2>1. /\ pc[Main] = "name" /\ UNCHANGED work /\ \A i \in Index : pc[i] = "done"
    BY <1>7 DEF AddNames, QueueInvariant, MainIsLast
  <2>2. Goto(Main, "failed") \/ Goto(Main, "done")
    BY <1>7 DEF AddNames
  <2>3. work' \in [Workers -> 0..N] /\ \A w \in Index : work'[w] = work[w]
    BY <2>1 DEF TypeOK
  <2> QED
    BY <1>3, <2>1, <2>2, <2>3
<1> QED
  BY <1>4, <1>5, <1>6, <1>7

(* A new destination for an empty or a used store                          *)
Fresh ==
  /\ env \in EnvironmentType /\ currentIndex = 0 /\ BlobLayersHaveDiffIDs(store)
  /\ queued = [i \in Index |-> None] /\ diffID = [i \in Index |-> None]
  /\ toc = [i \in Index |-> None] /\ blobDiffIDs = [d \in Digests |-> None]
  /\ files = {} /\ staged = {} /\ additional = {} /\ storageID = <<>>
  /\ info = [i \in Index |-> None] /\ pc = [w \in Workers |-> "start"]
  /\ work = NoWork /\ trusted = [w \in Workers |-> NoIdentity]
  /\ image \in 1..Images /\ cache \subseteq Blobs \cup TOCs /\ store \subseteq LayerRecords

(* It is typed, and nothing is queued or committed.                        *)
LEMMA FreshQueue == Fresh => TypeOK /\ QueueInvariant
<1> SUFFICES ASSUME Fresh PROVE TypeOK /\ QueueInvariant
  OBVIOUS
<1> USE DEF Fresh
<1>1. DOMAIN storageID = {}
  OBVIOUS
<1>2. 0 \in 0..N /\ N \in 0..N /\ Main \in Workers /\ \A i \in Index : i \in Workers /\ i >= 0
  BY ManifestAssumption DEF Main, Workers, Index
<1>3. NoIdentity \in Identities
  BY DEF NoIdentity, Identities
<1>4. TypeOK
  BY <1>1, <1>2, <1>3 DEF TypeOK, NoWork
<1>5. Committer /\ MainIsLast /\ InternalErrorsAreExplained
  BY <1>1, <1>2 DEF Committer, MainIsLast, InternalErrorsAreExplained, Committing, Committed, NoWork
<1>6. CommittedInOrder /\ QueueStopped
  BY <1>2, ManifestAssumption
  DEF CommittedInOrder, QueueStopped, Committing, Index
<1>7. OriginIsKnown /\ TrustedIsCurrent
  BY <1>2 DEF OriginIsKnown, TrustedIsCurrent, TrustedFor
<1>8. LayersAreIdentified
  BY <1>1, <1>2 DEF LayersAreIdentified, Committed
<1> QED
  BY <1>4, <1>5, <1>6, <1>7, <1>8 DEF QueueInvariant

(* Every step keeps the types and the invariant of the queue.              *)
LEMMA QueueNext == TypeOK /\ QueueInvariant /\ [Next]_vars => TypeOK' /\ QueueInvariant'
<1> SUFFICES ASSUME TypeOK, QueueInvariant, [Next]_vars PROVE TypeOK' /\ QueueInvariant'
  OBVIOUS
<1>1. ASSUME NEW i \in Index, Arrives(i), ArrivalTypes' PROVE TypeOK' /\ QueueInvariant'
  <2>1. TypeOK'
    BY <1>1 DEF Arrives, ArrivalTypes, TypeOK, PCs
  <2> QED
    BY <1>1, <2>1, ArrivesKeepsQueue
<1>2. ASSUME NEW w \in Workers, Step(w) PROVE TypeOK' /\ QueueInvariant'
  <2>1. Advances(w) /\ CommitTypes'
    BY <1>2, CommitLayerAdvances, LookupAdvances, CheckAdvances, CreateLayerAdvances DEF Step
  <2>2. TypeOK'
    BY <2>1 DEF Advances, CommitTypes, TypeOK, PCs, IDs
  <2> QED
    BY <2>1, <2>2, AdvancesKeepsQueue
<1>3. ASSUME NEW i \in Index, Layer(i) PROVE TypeOK' /\ QueueInvariant'
  <2>1. i \in Workers
    BY IndexesAreWorkers
  <2> QED
    BY <1>1, <1>2, <1>3, <2>1, StreamOrForgetArrives, PutBlobArrives, PutBlobPartialArrives,
       TryReusingBlobArrives, QueueKeepsQueue, LoopKeepsQueue DEF Layer
<1>4. CASE Commit
  BY <1>2, <1>4, MainKeepsQueue, IndexesAreWorkers DEF Commit
<1>5. CASE NextImage
  <2>1. env' \in EnvironmentType /\ BlobLayersHaveDiffIDs(store)'
    BY <1>5, ConfigAssumption DEF NextImage, QueueInvariant, BlobLayersHaveDiffIDs
  <2>2. image' \in 1..Images
    <3>1. image \in 1..Images
      BY DEF TypeOK
    <3>2. image < Images /\ image' = image + 1
      BY <1>5 DEF NextImage
    <3>3. Images \in Int
      BY ImagesAssumption
    <3> QED
      BY <3>1, <3>2, <3>3
  <2>3. Fresh'
    BY <1>5, <2>1, <2>2 DEF NextImage, TypeOK, Fresh
  <2>4. Fresh' => (TypeOK /\ QueueInvariant)'
    BY FreshQueue, PTL
  <2> QED
    BY <2>3, <2>4
<1>6. CASE UNCHANGED vars
  <2>1. TypeOK'
    BY <1>6 DEF vars, pending, TypeOK
  <2>2. Committer' /\ CommittedInOrder' /\ QueueStopped' /\ MainIsLast'
        /\ InternalErrorsAreExplained' /\ BlobLayersHaveDiffIDs(store)'
    BY <1>6 DEF vars, pending, QueueInvariant, Committer, CommittedInOrder, QueueStopped,
                MainIsLast, InternalErrorsAreExplained, BlobLayersHaveDiffIDs, Committed
  <2>3. LayersAreIdentified' /\ OriginIsKnown' /\ TrustedIsCurrent'
    BY <1>6, IdentitiesAreKept DEF vars, pending
  <2> QED
    BY <2>1, <2>2, <2>3 DEF QueueInvariant
<1> QED
  BY <1>3, <1>4, <1>5, <1>6 DEF Next, Terminated

(* The invariants of the queue give what CommitQueueIsSound says.          *)
LEMMA QueueIsSound == TypeOK /\ QueueInvariant => CommitQueueIsSound
<1> SUFFICES ASSUME TypeOK, QueueInvariant PROVE CommitQueueIsSound
  OBVIOUS
<1>1. SingleCommitter
  BY OneCommitter DEF SingleCommitter, Committing
<1>2. NoLayerLeftBehind
  <2> SUFFICES ASSUME NEW i \in Index, pc[Main] = "start", currentIndex = i, queued[i] # None,
                      \A w \in Workers : pc[w] \notin Committing
               PROVE  \E w \in Index :
                        /\ pc[w] \in {"done", "failed"} /\ work[w] \in Index /\ work[w] >= i
                        /\ ~Committed(work[w]) /\ \A j \in Index : j < work[w] => Committed(j)
    BY DEF NoLayerLeftBehind, Committing
  <2>1. /\ pc[i] \in {"done", "failed"} /\ work[i] \in Index /\ work[i] >= i
        /\ ~Committed(work[i]) /\ \A j \in Index : j < work[i] => Committed(j)
    BY IndexesAreWorkers DEF QueueInvariant, QueueStopped
  <2> QED
    BY <2>1
<1> QED
  BY <1>1, <1>2 DEF CommitQueueIsSound, QueueInvariant

(* The first state is that of a new destination.                           *)
LEMMA QueueInit == Init => TypeOK /\ QueueInvariant
<1> SUFFICES ASSUME Init PROVE TypeOK /\ QueueInvariant
  OBVIOUS
<1>1. /\ env \in EnvironmentType /\ store \subseteq LayerRecords
      /\ BlobLayersHaveDiffIDs(store)
  BY ConfigAssumption, StoresAssumption DEF Init
<1>2. image \in 1..Images /\ cache \subseteq Blobs \cup TOCs
  BY ImagesAssumption DEF Init
<1> QED
  BY <1>1, <1>2, FreshQueue DEF Init, Fresh

(* The commit queue of queueOrCommit and CommitWithOptions: commitLayer    *)
(* runs in one goroutine at a time, no queued layer is forgotten, and of   *)
(* the conditions the code reports as internal errors only one can occur   *)
(* (an empty layer the caller never announced), however the layers arrive  *)
(* and whatever the store already holds.                                   *)
THEOREM CommitQueueSound == Spec => []CommitQueueIsSound
<1>1. Init => TypeOK /\ QueueInvariant
  BY QueueInit
<1>2. TypeOK /\ QueueInvariant /\ [Next]_vars => (TypeOK /\ QueueInvariant)'
  BY QueueNext
<1>3. TypeOK /\ QueueInvariant => CommitQueueIsSound
  BY QueueIsSound
<1> QED
  BY <1>1, <1>2, <1>3, PTL DEF Spec

-----------------------------------------------------------------------------
(* The inductive invariant of the layers' contents                         *)

(* What is known of blobs is true.                                         *)
BlobsAreTrue == \A d \in Digests : blobDiffIDs[d] \in {None, ContentOf(d)}

(* What is known of the layer with index i is true, and a layer known only *)
(* by its TOC was pulled without a check, or another one in the store was. *)
LayerIsKnown(i) ==
  LET b == LayerBlob[i]
      t == BlobTOC[b]
  IN
  /\ toc[i] \in {None, t}
  /\ toc[i] # None /\ diffID[i] # None => diffID[i] = env.tocView[toc[i]]
  /\ i \in staged => IF t = None THEN diffID[i] = BlobDiffID[b] ELSE toc[i] = t
  /\ toc[i] # None /\ diffID[i] = None /\ i \notin staged /\ i \notin additional =>
       \E k \in store : k.toc = toc[i] /\ k.diffID = None

(* The identity a committer uses is the one found again at the end, and    *)
(* before it creates the layer it has compared it with the config.         *)
Listed(i, d) == i < Len(env.config) /\ d = env.config[i + 1]
TrustedIsTrue(w, i) ==
  /\ pc[w] \in {"check", "create"} =>
       /\ ~trusted[w].byTOC => trusted[w].diffID = Identity(i).diffID
       /\ trusted[w].blob # None =>
            ~trusted[w].byTOC /\ ContentOf(trusted[w].blob) = trusted[w].diffID
  /\ pc[w] = "create" /\ trusted[w].diffID # None /\ env.config # <<>> =>
       Listed(i, trusted[w].diffID)

(* A committed layer was compared with the config, or is known by its TOC. *)
LayersAreListed ==
  \A i \in Index \ env.empty : Committed(i) /\ env.config # <<>> =>
    Identity(i).byTOC \/ Listed(i, Identity(i).diffID)

(* Parents are committed first, and an image has all its layers.           *)
ParentsAreCommitted ==
  /\ \A i \in Index : Committed(i) => \A j \in Index : j < i => Committed(j)
  /\ pc[Main] \in {"name", "done"} => \A i \in Index : Committed(i)

ContentInvariant ==
  /\ BlobsAreTrue /\ (\A i \in Index : LayerIsKnown(i))
  /\ (\A w \in Workers : TrustedIsTrue(w, work[w]))
  /\ LayersAreListed /\ ParentsAreCommitted /\ IdentityIsStable
  /\ LayerFactsAreTrue /\ TOCsAreUnverified(store)

(* The digest of an uncompressed layer is the digest of its content.       *)
LEMMA ContentOfDiffID ==
  ASSUME NEW d \in DiffIDs
  PROVE  ContentOf(d) = d /\ d \in Digests /\ d # None
BY ManifestAssumption DEF ContentOf, Digests

(* What the store and the pending files say of a blob is true.             *)
LEMMA LocalMatchIsTrue ==
  ASSUME TypeOK, BlobsAreTrue, LayerFactsAreTrue, NEW b \in Digests
  PROVE  LocalMatch(b) \in {None, ContentOf(b)}
<1>1. CASE b \in files
  BY <1>1 DEF LocalMatch, BlobsAreTrue
<1>2. CASE b \notin files /\ WithDiffID(b) # {}
  <2>1. PICK l \in store : b # None /\ l.diffID = b
    BY <1>2 DEF WithDiffID
  <2>2. l.diffID \in DiffIDs \cup {None}
    BY DEF TypeOK, LayerRecords
  <2>3. ContentOf(b) = b
    BY <2>1, <2>2, ContentOfDiffID
  <2> QED
    BY <1>2, <2>3 DEF LocalMatch
<1>3. CASE b \notin files /\ WithDiffID(b) = {} /\ WithBlob(b) # {}
  <2>1. PICK l \in WithBlob(b) : l = (CHOOSE k \in WithBlob(b) : TRUE)
    BY <1>3
  <2>2. l \in store /\ l.blob = b /\ b # None
    BY <2>1 DEF WithBlob
  <2>3. l.diffID \in {None, ContentOf(b)}
    BY <2>2 DEF LayerFactsAreTrue, LayerIsTrue
  <2>4. LocalMatch(b) = l.diffID
    BY <1>3, <2>1 DEF LocalMatch
  <2> QED
    BY <2>3, <2>4
<1>4. CASE b \notin files /\ WithDiffID(b) = {} /\ WithBlob(b) = {}
  BY <1>4 DEF LocalMatch
<1> QED
  BY <1>1, <1>2, <1>3, <1>4

(* The fields of a layer's identity                                        *)
LEMMA IdentityFields ==
  ASSUME NEW i \in Index
  PROVE  /\ Identity(i).byTOC = (diffID[i] = None /\ toc[i] # None)
         /\ Identity(i).toc = toc[i]
         /\ Identity(i).diffID = IF diffID[i] = None /\ toc[i] = None
                                 THEN IF info[i] = None THEN None ELSE blobDiffIDs[info[i]]
                                 ELSE diffID[i]
         /\ Identity(i)'.byTOC = (diffID'[i] = None /\ toc'[i] # None)
         /\ Identity(i)'.toc = toc'[i]
         /\ Identity(i)'.diffID = IF diffID'[i] = None /\ toc'[i] = None
                                  THEN IF info'[i] = None THEN None ELSE blobDiffIDs'[info'[i]]
                                  ELSE diffID'[i]
BY DEF Identity, trustedLayerIdentityDataLocked

(* The identity of a layer does not change when more becomes known of      *)
(* blobs.                                                                  *)
LEMMA IdentityIsKept ==
  ASSUME TypeOK, BlobsAreTrue, BlobsAreTrue', NEW i \in Index,
         diffID'[i] = diffID[i], toc'[i] = toc[i], info'[i] = info[i],
         \A d \in Digests : blobDiffIDs[d] # None => blobDiffIDs'[d] # None,
         Found(Identity(i))
  PROVE  /\ Identity(i)'.byTOC = Identity(i).byTOC
         /\ Identity(i)'.diffID = Identity(i).diffID
         /\ Component(Identity(i))' = Component(Identity(i))
<1>1. info[i] \in Digests \cup {None}
  BY DEF TypeOK
<1>2. ASSUME NEW d \in Digests, blobDiffIDs[d] # None PROVE blobDiffIDs'[d] = blobDiffIDs[d]
  <2>1. ContentOf(d)' = ContentOf(d)
    BY DEF ContentOf
  <2> QED
    BY <1>2, <2>1 DEF BlobsAreTrue
<1>3. Identity(i)'.byTOC = Identity(i).byTOC /\ Identity(i)'.toc = Identity(i).toc
  BY IdentityFields
<1>4. Identity(i)'.diffID = Identity(i).diffID
  BY <1>1, <1>2, IdentityFields, FoundMeans
<1>5. Component(Identity(i))' = Component(Identity(i))
  BY <1>3, <1>4 DEF Component
<1> QED
  BY <1>3, <1>4, <1>5

(* An arriving layer keeps the contents of the others.                     *)
LEMMA ArrivesKeepsContents ==
  ASSUME TypeOK, QueueInvariant, ContentInvariant, NEW i \in Index, Arrives(i),
         BlobsAreTrue', LayerIsKnown(i)'
  PROVE  ContentInvariant'
<1>1. /\ UNCHANGED <<image, env, currentIndex, queued, storageID, store, images, work, trusted>>
      /\ pc'[i] \in {"stream", "put", "queue", "done", "failed"}
      /\ \A w \in Workers \ {i} : pc'[w] = pc[w]
      /\ i \in Workers /\ i # Main /\ pc'[Main] = pc[Main]
  BY IndexesAreWorkers DEF Arrives, TypeOK
<1>2. pc[i] \in Arriving /\ queued[i] = None /\ ~Committed(i) /\ pc[Main] = "start"
  <2>1. pc[i] \in Arriving /\ queued[i] = None /\ ~Committed(i)
    BY DEF Arrives, QueueInvariant, Committer
  <2> QED
    BY <2>1 DEF Arriving, QueueInvariant, MainIsLast
<1>3. \A j \in Index \ {i} : Found(Identity(j)) =>
        /\ Identity(j)'.byTOC = Identity(j).byTOC
        /\ Identity(j)'.diffID = Identity(j).diffID
        /\ Component(Identity(j))' = Component(Identity(j))
  BY IdentityIsKept DEF Arrives, ContentInvariant
<1>4. ASSUME NEW j \in Index PROVE LayerIsKnown(j)'
  <2>1. CASE j # i
    BY <1>1, <2>1 DEF ContentInvariant, LayerIsKnown, Arrives
  <2> QED
    BY <2>1
<1>5. ASSUME NEW w \in Workers PROVE TrustedIsTrue(w, work[w])'
  <2>1. CASE pc'[w] \in {"check", "create"}
    <3>1. w # i /\ pc[w] = pc'[w] /\ w # Main /\ w \in Index
      BY <1>1, <1>2, <2>1, IndexesAreWorkers
    <3>2. work[w] \in Index \ {i} /\ work'[w] = work[w]
      BY <1>1, <1>2, <2>1, <3>1 DEF QueueInvariant, Committer, Committing
    <3>3. Found(Identity(work[w]))
      BY <2>1, <3>1 DEF QueueInvariant, TrustedIsCurrent, TrustedFor
    <3>4. Identity(work[w])'.diffID = Identity(work[w]).diffID
      BY <1>3, <3>2, <3>3, IdentityFields
    <3>5. TrustedIsTrue(w, work[w])
      BY DEF ContentInvariant
    <3> QED
      BY <1>1, <3>1, <3>2, <3>4, <3>5 DEF TrustedIsTrue, ContentOf, Listed
  <2>2. CASE pc'[w] \notin {"check", "create"}
    BY <2>2 DEF TrustedIsTrue, Listed
  <2> QED
    BY <2>1, <2>2
<1>6. \A j \in Index :
        /\ Committed(j)' <=> Committed(j)
        /\ Committed(j) => j # i /\ (j \notin env.empty => Found(Identity(j)))
  BY <1>1, <1>2 DEF Committed, QueueInvariant, LayersAreIdentified
<1>7. LayersAreListed'
  BY <1>1, <1>3, <1>6 DEF ContentInvariant, LayersAreListed, Listed
<1>8. ParentsAreCommitted'
  BY <1>1, <1>6 DEF ContentInvariant, ParentsAreCommitted
<1>9. IdentityIsStable'
  <2> SUFFICES ASSUME NEW j \in Index \ env'.empty, Committed(j)'
               PROVE  storageID'[j] = layerID(Parent(j), Identity(j))'
    BY DEF IdentityIsStable, Identity
  <2>1. storageID[j] = Append(Parent(j), Component(Identity(j)))
    BY <1>1, <1>6 DEF ContentInvariant, IdentityIsStable, layerID, Identity
  <2>2. Parent(j)' = Parent(j)
    BY <1>1 DEF Parent
  <2> QED
    BY <1>1, <1>3, <1>6, <2>1, <2>2 DEF layerID
<1>10. LayerFactsAreTrue'
  BY <1>1 DEF ContentInvariant, LayerFactsAreTrue, LayerIsTrue, ContentOf
<1>11. TOCsAreUnverified(store)'
  BY <1>1 DEF ContentInvariant, TOCsAreUnverified
<1> QED
  BY <1>4, <1>5, <1>7, <1>8, <1>9, <1>10, <1>11 DEF ContentInvariant

(* What an arriving layer learns is true.                                  *)
LEMMA ArrivalIsTrue ==
  ASSUME TypeOK, QueueInvariant, ContentInvariant, NEW i \in Index,
         PutBlob(i) \/ StreamLayer(i) \/ Forget(i)
  PROVE  BlobsAreTrue' /\ LayerIsKnown(i)'
<1>1. /\ pc[i] \in Arriving /\ diffID[i] = None /\ toc[i] = None
      /\ i \notin staged /\ i \notin additional
  BY DEF PutBlob, StreamLayer, Forget, Arriving, QueueInvariant, LayersAreIdentified
<1>2. UNCHANGED <<env, diffID, toc, staged, additional, store>>
  BY DEF PutBlob, StreamLayer, Forget, pending
<1>3. LayerIsKnown(i)'
  BY <1>1, <1>2 DEF LayerIsKnown
<1>4. LayerBlob[i] \in Blobs /\ LayerBlob[i] \in Digests
      /\ ContentOf(LayerBlob[i]) = BlobDiffID[LayerBlob[i]]
  BY ManifestAssumption DEF Digests, ContentOf
<1>5. \/ UNCHANGED blobDiffIDs
      \/ blobDiffIDs' = [blobDiffIDs EXCEPT ![LayerBlob[i]] = BlobDiffID[LayerBlob[i]]]
  BY DEF PutBlob, StreamLayer, Forget, pending
<1>6. \A d \in Digests : blobDiffIDs'[d] \in {None, ContentOf(d)}
  BY <1>4, <1>5 DEF ContentInvariant, BlobsAreTrue, TypeOK
<1> QED
  BY <1>3, <1>6 DEF BlobsAreTrue, ContentOf

(* What a partial pull learns is true: c/storage computes the digest of    *)
(* the tar stream, or of the files the TOC lists.                          *)
LEMMA PartialIsTrue ==
  ASSUME TypeOK, QueueInvariant, ContentInvariant, NEW i \in Index, PutBlobPartial(i)
  PROVE  BlobsAreTrue' /\ LayerIsKnown(i)'
<1> DEFINE b == LayerBlob[i]
           t == BlobTOC[b]
           claimed == untrustedLayerDiffID(i)
           computed == IF t = None THEN BlobDiffID[b]
                       ELSE IF env.verify THEN env.tocView[t] ELSE None
           known == IF computed # None THEN computed
                    ELSE IF t \in cache THEN env.tocView[t] ELSE None
<1>1. /\ pc[i] \in Arriving /\ diffID[i] = None /\ toc[i] = None
      /\ i \notin staged /\ i \notin additional
  BY DEF PutBlobPartial, Arriving, QueueInvariant, LayersAreIdentified
<1>2. UNCHANGED <<env, store>>
  BY DEF PutBlobPartial
<1>3. b \in Blobs /\ b \in Digests /\ t \in TOCs \cup {None} /\ ContentOf(b) = BlobDiffID[b]
      /\ BlobDiffID[b] # None
  BY ManifestAssumption DEF Digests, ContentOf
<1>4. /\ t = None => computed = BlobDiffID[b] /\ known = BlobDiffID[b]
      /\ t # None => known \in {None, env.tocView[t]}
  BY <1>3
<1>5. CASE /\ diffID' = IF known = None THEN diffID ELSE [diffID EXCEPT ![i] = known]
           /\ toc' = IF t = None THEN toc ELSE [toc EXCEPT ![i] = t]
           /\ blobDiffIDs' = IF t = None THEN [blobDiffIDs EXCEPT ![b] = computed]
                             ELSE blobDiffIDs
           /\ staged' = staged \cup {i}
           /\ UNCHANGED additional
  <2> HIDE DEF computed, known
  <2>1. \A d \in Digests : blobDiffIDs'[d] \in {None, ContentOf(d)}
    BY <1>3, <1>4, <1>5 DEF ContentInvariant, BlobsAreTrue, TypeOK
  <2>2. /\ t = None => toc'[i] = None /\ diffID'[i] = BlobDiffID[b]
        /\ t # None => toc'[i] = t /\ diffID'[i] \in {None, env.tocView[t]}
    BY <1>1, <1>3, <1>4, <1>5 DEF TypeOK
  <2>3. LayerIsKnown(i)'
    BY <1>2, <1>5, <2>2 DEF LayerIsKnown
  <2> QED
    BY <2>1, <2>3 DEF BlobsAreTrue, ContentOf
<1>6. CASE UNCHANGED pending
  BY <1>1, <1>2, <1>6 DEF ContentInvariant, LayerIsKnown, BlobsAreTrue, ContentOf, pending
<1> QED
  BY <1>5, <1>6 DEF PutBlobPartial

(* What is found of a layer that can be reused is true.                    *)
LEMMA ReuseIsTrue ==
  ASSUME TypeOK, QueueInvariant, ContentInvariant, NEW i \in Index, TryReusingBlob(i)
  PROVE  BlobsAreTrue' /\ LayerIsKnown(i)'
<1> DEFINE b == LayerBlob[i]
           t == IF env.noted /\ untrustedLayerDiffID(i) # Unknown THEN BlobTOC[b] ELSE None
           here == LocalMatch(b)
           reused(byDiffID) == IF env.sizeKnown THEN b ELSE byDiffID
           reuseAs(d) == info' = [info EXCEPT ![i] = d] /\ Goto(i, "queue")
<1>1. /\ pc[i] \in Arriving /\ diffID[i] = None /\ toc[i] = None
      /\ i \notin staged /\ i \notin additional
  BY DEF TryReusingBlob, Arriving, QueueInvariant, LayersAreIdentified
<1>2. UNCHANGED <<env, store, staged>>
  BY DEF TryReusingBlob
<1>3. b \in Blobs /\ b \in Digests /\ ContentOf(b) = BlobDiffID[b] /\ BlobDiffID[b] \in DiffIDs
  BY ManifestAssumption DEF Digests, ContentOf
<1>4. t \in {None, BlobTOC[b]} /\ t \in TOCs \cup {None}
  BY <1>3, ManifestAssumption
<1>5. here \in {None, ContentOf(b)}
  BY <1>3, LocalMatchIsTrue DEF ContentInvariant
<1> HIDE DEF t, here
<1>6. ASSUME UNCHANGED <<diffID, toc, additional>> PROVE LayerIsKnown(i)'
  BY <1>1, <1>2, <1>6 DEF LayerIsKnown
<1>7. ASSUME UNCHANGED blobDiffIDs PROVE BlobsAreTrue'
  BY <1>7 DEF ContentInvariant, BlobsAreTrue, ContentOf
<1>8. ASSUME NEW d \in Digests, blobDiffIDs' = [blobDiffIDs EXCEPT ![d] = ContentOf(d)]
      PROVE  BlobsAreTrue'
  <2>1. \A e \in Digests : blobDiffIDs'[e] \in {None, ContentOf(e)}
    BY <1>8 DEF ContentInvariant, BlobsAreTrue, TypeOK
  <2> QED
    BY <2>1 DEF BlobsAreTrue, ContentOf
<1>9. CASE /\ t \in env.als
           /\ toc' = [toc EXCEPT ![i] = t]
           /\ additional' = additional \cup {i}
           /\ UNCHANGED <<diffID, blobDiffIDs>>
  <2>1. LayerIsKnown(i)'
    BY <1>1, <1>2, <1>4, <1>9 DEF LayerIsKnown, TypeOK
  <2> QED
    BY <1>7, <1>9, <2>1
<1>10. CASE /\ here # None
            /\ blobDiffIDs' = [blobDiffIDs EXCEPT ![b] = here]
            /\ UNCHANGED <<diffID, toc, additional>>
  BY <1>3, <1>5, <1>6, <1>8, <1>10
<1>11. CASE /\ blobDiffIDs' = [blobDiffIDs EXCEPT ![reused(BlobDiffID[b])] = BlobDiffID[b]]
            /\ UNCHANGED <<diffID, toc, additional>>
  <2>1. reused(BlobDiffID[b]) \in Digests /\ ContentOf(reused(BlobDiffID[b])) = BlobDiffID[b]
    BY <1>3, ContentOfDiffID
  <2> QED
    BY <1>6, <1>8, <1>11, <2>1
<1>12. CASE /\ diffID' = [diffID EXCEPT ![i] = env.tocView[t]]
            /\ UNCHANGED <<toc, blobDiffIDs, additional>>
  <2>1. LayerIsKnown(i)'
    BY <1>1, <1>2, <1>12 DEF LayerIsKnown
  <2> QED
    BY <1>7, <1>12, <2>1
<1>13. ASSUME NEW l \in WithTOC(t), NEW d, d = IF t \in cache THEN env.tocView[t] ELSE l.diffID,
              diffID' = IF d = None THEN diffID ELSE [diffID EXCEPT ![i] = d],
              toc' = [toc EXCEPT ![i] = t],
              UNCHANGED <<blobDiffIDs, additional>>
       PROVE  BlobsAreTrue' /\ LayerIsKnown(i)'
  <2>1. t # None /\ l \in store /\ l.toc = t /\ t \in TOCs
    BY <1>4 DEF WithTOC
  <2>2. l.diffID \in {None, env.tocView[t]}
    BY <2>1 DEF ContentInvariant, LayerFactsAreTrue, LayerIsTrue
  <2>3. env.tocView[t] # None
    BY <2>1, ViewIsTyped
  <2>4. diffID'[i] = d /\ toc'[i] = t
    BY <1>1, <1>13 DEF TypeOK
  <2>5. d \in {None, env.tocView[t]} /\ (d = None => l.diffID = None)
    BY <1>13, <2>2, <2>3
  <2>6. LayerIsKnown(i)'
    BY <1>1, <1>2, <1>4, <2>1, <2>4, <2>5 DEF LayerIsKnown
  <2> QED
    BY <1>7, <1>13, <2>6
<1>14. CASE UNCHANGED <<diffID, toc, blobDiffIDs, additional>>
  BY <1>6, <1>7, <1>14
<1> QED
  BY <1>9, <1>10, <1>11, <1>12, <1>13, <1>14 DEF TryReusingBlob, t, here

(* A step of commitLayer keeps the contents of all layers if what it adds  *)
(* to the store is true and the layer it notes is the one it compared.     *)
LEMMA AdvancesKeepsContents ==
  ASSUME TypeOK, QueueInvariant, ContentInvariant, NEW w \in Workers, Advances(w), CommitTypes',
         BlobsAreTrue', LayerFactsAreTrue', TOCsAreUnverified(store)', store \subseteq store',
         TrustedIsTrue(w, work[w])',
         \A j \in DOMAIN storageID : storageID'[j] = storageID[j],
         pc'[w] = "loop" /\ ~Committed(work[w]) /\ work[w] \notin env.empty =>
           /\ pc[w] \in {"check", "create"}
           /\ storageID'[work[w]] = layerID(Parent(work[w]), trusted[w])
           /\ trusted[w].diffID # None /\ env.config # <<>> =>
                Listed(work[w], trusted[w].diffID)
  PROVE  ContentInvariant'
<1> DEFINE i == work[w]
<1>1. /\ UNCHANGED <<image, env, currentIndex, queued, diffID, toc, staged, additional, cache,
                     info, images, work>>
      /\ pc[w] \in Committing /\ i \in Index
      /\ pc'[w] \in {"lookup", "check", "create", "loop", "done", "failed"}
      /\ pc'[w] = "done" => w # Main
  BY DEF Advances, Committing
<1>2. \A v \in Workers \ {w} : pc'[v] = pc[v] /\ pc[v] \notin Committing
  BY <1>1, OneCommitter DEF Advances, TypeOK
<1>3. /\ \A j \in Index : Committed(j) => Committed(j)'
      /\ \A j \in Index : Committed(j)' /\ ~Committed(j) => j = i /\ pc'[w] = "loop"
      /\ \A j \in Index : j < i => Committed(j)
  BY <1>1 DEF Advances, Committed, QueueInvariant, CommittedInOrder
<1>4. \A j \in Index : Found(Identity(j)) =>
        /\ Identity(j)'.byTOC = Identity(j).byTOC
        /\ Identity(j)'.diffID = Identity(j).diffID
        /\ Component(Identity(j))' = Component(Identity(j))
  BY <1>1, IdentityIsKept DEF Advances, ContentInvariant
<1>5. \A j \in Index : LayerIsKnown(j)'
  BY <1>1 DEF ContentInvariant, LayerIsKnown
<1>6. \A v \in Workers : TrustedIsTrue(v, work[v])'
  BY <1>2 DEF TrustedIsTrue, Committing, Listed
<1>7. \A j \in Index \ env.empty : Committed(j) => Found(Identity(j))
  BY DEF QueueInvariant, LayersAreIdentified
<1>8. ASSUME pc'[w] = "loop", ~Committed(i), i \notin env.empty
      PROVE  /\ Found(Identity(i))
             /\ Component(trusted[w]) = Component(Identity(i))
             /\ storageID'[i] = Append(Parent(i), Component(Identity(i)))
             /\ env.config # <<>> => Identity(i).byTOC \/ Listed(i, Identity(i).diffID)
  <2>1. pc[w] \in {"check", "create"} /\ Found(Identity(i))
    BY <1>8 DEF QueueInvariant, TrustedIsCurrent, TrustedFor
  <2>2. TrustedFor(w, i) /\ TrustedIsTrue(w, i)
    BY DEF QueueInvariant, TrustedIsCurrent, ContentInvariant
  <2>3. /\ Identity(i).byTOC <=> trusted[w].byTOC
        /\ Identity(i).toc = trusted[w].toc
        /\ ~trusted[w].byTOC => Identity(i).diffID = trusted[w].diffID /\ trusted[w].diffID # None
    BY <1>1, <2>1, <2>2, IdentityFields DEF TrustedFor, TrustedIsTrue, Listed
  <2>4. Component(trusted[w]) = Component(Identity(i))
    BY <2>3 DEF Component
  <2> QED
    BY <1>8, <2>1, <2>3, <2>4 DEF layerID
<1>9. LayersAreListed'
  <2> SUFFICES ASSUME NEW j \in Index \ env.empty, Committed(j)', env.config # <<>>
               PROVE  Identity(j)'.byTOC \/ Listed(j, Identity(j)'.diffID)
    BY <1>1 DEF LayersAreListed, Listed
  <2>1. CASE Committed(j)
    BY <1>4, <1>7, <2>1 DEF ContentInvariant, LayersAreListed, Listed
  <2>2. CASE ~Committed(j)
    BY <1>3, <1>4, <1>8, <2>2
  <2> QED
    BY <2>1, <2>2
<1>10. ParentsAreCommitted'
  <2>1. \A j \in Index : Committed(j)' => \A k \in Index : k < j => Committed(k)'
    BY <1>3 DEF ContentInvariant, ParentsAreCommitted
  <2>2. pc'[Main] \in {"name", "done"} => \A j \in Index : Committed(j)'
    BY <1>1, <1>2, <1>3, IndexesAreWorkers DEF ContentInvariant, ParentsAreCommitted
  <2> QED
    BY <2>1, <2>2 DEF ParentsAreCommitted
<1>11. IdentityIsStable'
  <2> SUFFICES ASSUME NEW j \in Index \ env.empty, Committed(j)'
               PROVE  storageID'[j] = Append(Parent(j)', Component(Identity(j))')
    BY <1>1 DEF IdentityIsStable, Identity, layerID
  <2>1. Parent(j)' = Parent(j)
    <3>1. CASE j = 0
      BY <3>1 DEF Parent
    <3>2. CASE j # 0
      <4>1. j - 1 \in Index /\ j - 1 < j
        BY <3>2, ManifestAssumption DEF Index
      <4>2. Committed(j - 1)
        BY <1>3, <4>1 DEF ContentInvariant, ParentsAreCommitted
      <4> QED
        BY <3>2, <4>2 DEF Parent, Committed
    <3> QED
      BY <3>1, <3>2
  <2>2. CASE Committed(j)
    <3>1. storageID[j] = Append(Parent(j), Component(Identity(j)))
      BY <2>2 DEF ContentInvariant, IdentityIsStable, layerID, Identity
    <3>2. storageID'[j] = storageID[j]
      BY <2>2 DEF Committed
    <3> QED
      BY <1>4, <1>7, <2>1, <2>2, <3>1, <3>2
  <2>3. CASE ~Committed(j)
    BY <1>3, <1>4, <1>8, <2>1, <2>3
  <2> QED
    BY <2>2, <2>3
<1> QED
  BY <1>5, <1>6, <1>9, <1>10, <1>11 DEF ContentInvariant

(* The store is not changed by a step.                                     *)
LEMMA StoreIsKept ==
  ASSUME ContentInvariant, UNCHANGED store, env'.tocView = env.tocView
  PROVE  LayerFactsAreTrue' /\ TOCsAreUnverified(store)'
BY DEF ContentInvariant, LayerFactsAreTrue, LayerIsTrue, ContentOf, TOCsAreUnverified

(* commitLayer collects a true identity, or finds one.                     *)
LEMMA CollectKeepsContents ==
  ASSUME TypeOK, QueueInvariant, ContentInvariant, NEW w \in Workers, CommitLayer(w) \/ Lookup(w)
  PROVE  ContentInvariant'
<1> DEFINE i == work[w]
           b == info[i]
           here == LocalMatch(b)
<1>1. Advances(w) /\ CommitTypes' /\ i \in Index
  BY CommitLayerAdvances, LookupAdvances DEF Advances
<1>2. UNCHANGED <<env, store, diffID, toc, info, work>>
  BY DEF CommitLayer, Lookup, pending
<1>3. LayerFactsAreTrue' /\ TOCsAreUnverified(store)' /\ store \subseteq store'
  BY <1>2, StoreIsKept
<1>4. info[i] \in Digests \cup {None}
  BY <1>1 DEF TypeOK
<1>5. CASE CommitLayer(w)
  <2>1. UNCHANGED blobDiffIDs /\ pc[w] = "begin"
    BY <1>5 DEF CommitLayer, pending
  <2>2. BlobsAreTrue'
    BY <2>1 DEF ContentInvariant, BlobsAreTrue, ContentOf
  <2>3. \A j \in DOMAIN storageID : storageID'[j] = storageID[j]
    <3>1. CASE UNCHANGED storageID
      BY <3>1
    <3>2. CASE ~Committed(i) /\ SetStorageID(i, Parent(i))
      BY <3>2 DEF SetStorageID, Committed
    <3> QED
      BY <1>5, <3>1, <3>2 DEF CommitLayer
  <2>4. pc'[w] = "loop" => Committed(i) \/ i \in env.empty
    BY <1>5 DEF CommitLayer, Goto, TypeOK
  <2>5. pc'[w] = "check" => trusted'[w] = Identity(i)
    BY <1>5 DEF CommitLayer, Goto, TypeOK, Identity
  <2>6. pc'[w] # "create"
    BY <1>5 DEF CommitLayer, Goto, TypeOK
  <2>7. Identity(i)'.diffID = Identity(i).diffID
    BY <1>1, <1>2, <2>1, IdentityFields
  <2>8. Identity(i).blob # None =>
          ~Identity(i).byTOC /\ ContentOf(Identity(i).blob) = Identity(i).diffID
    BY <1>1, <1>4 DEF Identity, trustedLayerIdentityDataLocked, ContentInvariant, BlobsAreTrue
  <2>9. TrustedIsTrue(w, i)'
    BY <1>2, <2>5, <2>6, <2>7, <2>8 DEF TrustedIsTrue, ContentOf, Listed
  <2> QED
    BY <1>1, <1>3, <2>2, <2>3, <2>4, <2>9, AdvancesKeepsContents
<1>6. CASE Lookup(w)
  <2>1. pc[w] = "lookup" /\ diffID[i] = None /\ toc[i] = None /\ UNCHANGED storageID
    BY <1>6 DEF Lookup, QueueInvariant, TrustedIsCurrent, TrustedFor
  <2>0. ~NoDiffID(b)
    BY BlobsHaveDiffIDs DEF QueueInvariant
  <2>2. pc'[w] \in {"failed", "check"}
    BY <1>6, <2>0 DEF Lookup, Goto, TypeOK
  <2>3. CASE here = None
    <3>1. UNCHANGED blobDiffIDs /\ pc'[w] = "failed"
      BY <1>6, <2>0, <2>3 DEF Lookup, Goto, TypeOK
    <3>2. BlobsAreTrue' /\ TrustedIsTrue(w, i)'
      BY <3>1 DEF ContentInvariant, BlobsAreTrue, ContentOf, TrustedIsTrue, Listed
    <3> QED
      BY <1>1, <1>3, <2>1, <2>2, <3>2, AdvancesKeepsContents
  <2>4. CASE here # None
    <3>1. b \in Digests /\ b # None
      BY <1>4, <2>4, LocalMatchIsTyped, ManifestAssumption DEF Digests
    <3>2. here = ContentOf(b)
      BY <2>4, <3>1, LocalMatchIsTrue DEF ContentInvariant
    <3>3. /\ blobDiffIDs' = [blobDiffIDs EXCEPT ![b] = here] /\ pc'[w] = "check"
          /\ trusted'[w] = [byTOC |-> FALSE, diffID |-> here, toc |-> None, blob |-> b]
      BY <1>6, <2>1, <2>4 DEF Lookup, Goto, TypeOK, NoIdentity
    <3> HIDE DEF here
    <3>4. \A d \in Digests : blobDiffIDs'[d] \in {None, ContentOf(d)}
      BY <3>1, <3>2, <3>3 DEF ContentInvariant, BlobsAreTrue, TypeOK
    <3>5. BlobsAreTrue'
      BY <3>4 DEF BlobsAreTrue, ContentOf
    <3>6. Identity(i)'.diffID = here
      BY <1>1, <1>2, <2>1, <3>1, <3>3, IdentityFields DEF TypeOK
    <3>7. ~trusted'[w].byTOC /\ trusted'[w].diffID = here /\ trusted'[w].blob = b
      BY <3>3
    <3>8. TrustedIsTrue(w, i)'
      BY <1>2, <3>2, <3>3, <3>6, <3>7 DEF TrustedIsTrue, ContentOf, Listed
    <3> QED
      BY <1>1, <1>3, <2>1, <2>2, <3>5, <3>8, AdvancesKeepsContents
  <2> QED
    BY <2>3, <2>4
<1> QED
  BY <1>5, <1>6

(* A layer is reused or created only after the comparison with the config. *)
LEMMA CheckKeepsContents ==
  ASSUME TypeOK, QueueInvariant, ContentInvariant, NEW w \in Workers, Check(w)
  PROVE  ContentInvariant'
<1> DEFINE i == work[w]
           id == layerID(Parent(i), trusted[w])
           d == trusted[w].diffID
<1>1. Advances(w) /\ CommitTypes' /\ i \in Index /\ pc[w] = "check" /\ ~Committed(i)
  BY CheckAdvances DEF Advances, Check, QueueInvariant, CommittedInOrder
<1>2. UNCHANGED <<env, store, diffID, toc, info, work, blobDiffIDs, trusted>>
  BY DEF Check, pending
<1>3. /\ LayerFactsAreTrue' /\ TOCsAreUnverified(store)' /\ store \subseteq store'
      /\ BlobsAreTrue'
  BY <1>2, StoreIsKept DEF ContentInvariant, BlobsAreTrue, ContentOf
<1>4. ASSUME pc'[w] \in {"loop", "create"}, d # None, env.config # <<>>
      PROVE  Listed(i, d)
  <2>1. d \in DiffIDs
    BY <1>4 DEF TypeOK, Identities
  <2>2. d = None \/ untrustedLayerDiffID(i) = d
        \/ (untrustedLayerDiffID(i) = Unknown /\ ~trusted[w].byTOC)
    BY <1>4 DEF Check, Stop, Goto, TypeOK
  <2> QED
    BY <1>1, <1>4, <2>1, <2>2, ClaimedIsTyped, ConfigAssumption DEF Listed
<1>5. /\ \A j \in DOMAIN storageID : storageID'[j] = storageID[j]
      /\ pc'[w] = "loop" => storageID'[i] = id
  <2> HIDE DEF id
  <2>1. CASE SetStorageID(i, id)
    BY <1>1, <2>1 DEF SetStorageID, Committed
  <2>2. CASE UNCHANGED storageID /\ pc'[w] # "loop"
    BY <2>2
  <2> QED
    BY <2>1, <2>2 DEF Check, Stop, Goto, TypeOK, id
<1>6. Identity(i)'.diffID = Identity(i).diffID
  BY <1>1, <1>2, IdentityFields
<1>7. TrustedIsTrue(w, i)
  BY DEF ContentInvariant
<1>8. TrustedIsTrue(w, i)'
  BY <1>1, <1>2, <1>4, <1>6, <1>7 DEF TrustedIsTrue, ContentOf, Listed
<1> QED
  BY <1>1, <1>3, <1>4, <1>5, <1>8, AdvancesKeepsContents

(* The last component of a layer's ID                                      *)
LEMMA TopIsComponent ==
  ASSUME NEW s \in IDs, NEW c \in (DiffIDs \cup TOCs) \X BOOLEAN
  PROVE  Append(s, c)[Len(Append(s, c))] = c
<1>1. Len(Append(s, c)) = Len(s) + 1 /\ Append(s, c)[Len(s) + 1] = c
  BY DEF IDs
<1> QED
  BY <1>1

(* What a component says                                                   *)
LEMMA ComponentFields ==
  ASSUME NEW id, NEW c, c = Component(id)
  PROVE  /\ id.byTOC => c[1] = id.toc /\ c[2] = TRUE
         /\ ~id.byTOC => c[1] = id.diffID /\ c[2] = FALSE
<1>1. \A x, y : <<x, y>>[1] = x /\ <<x, y>>[2] = y
  OBVIOUS
<1>2. ASSUME NEW x, NEW y, c = <<x, y>> PROVE c[1] = x /\ c[2] = y
  BY <1>1, <1>2, Zenon
<1>3. CASE id.byTOC
  <2>1. c = <<id.toc, TRUE>>
    BY <1>3 DEF Component
  <2>2. c[1] = id.toc /\ c[2] = TRUE
    BY <1>2, <2>1, Zenon
  <2> QED
    BY <1>3, <2>2
<1>4. CASE ~id.byTOC
  <2>1. c = <<id.diffID, FALSE>>
    BY <1>4 DEF Component
  <2>2. c[1] = id.diffID /\ c[2] = FALSE
    BY <1>2, <2>1, Zenon
  <2> QED
    BY <1>4, <2>2
<1> QED
  BY <1>3, <1>4

(* A new layer with true facts keeps the contents of the store.            *)
LEMMA StoreKeepsContents ==
  ASSUME TypeOK, QueueInvariant, ContentInvariant, NEW w \in Workers, CreateLayer(w),
         NEW layer \in LayerRecords, Store(w, layer), BlobsAreTrue',
         layer.id = layerID(Parent(work[w]), trusted[w]),
         layer.diffID \in {None, layer.content},
         layer.toc # None => env.tocView[layer.toc] = layer.content,
         layer.blob # None => ContentOf(layer.blob) = layer.content,
         layer.content = IF trusted[w].byTOC THEN env.tocView[trusted[w].toc]
                         ELSE trusted[w].diffID,
         trusted[w].byTOC =>
           \E k \in store \cup {layer} : k.toc = trusted[w].toc /\ k.diffID = None
  PROVE  ContentInvariant'
<1> DEFINE i == work[w]
<1>1. Advances(w) /\ CommitTypes' /\ i \in Index /\ pc[w] = "create" /\ ~Committed(i)
  BY CreateLayerAdvances DEF Advances, CreateLayer, QueueInvariant, CommittedInOrder
<1>2. UNCHANGED <<env, work, trusted>> /\ store' = store \cup {layer} /\ pc'[w] = "loop"
      /\ SetStorageID(i, layer.id)
  BY DEF CreateLayer, Store, Goto, TypeOK
<1>3. /\ \A j \in DOMAIN storageID : storageID'[j] = storageID[j]
      /\ storageID'[i] = layer.id
  BY <1>1, <1>2 DEF SetStorageID, Committed
<1>4. layer.id[Len(layer.id)] = Component(trusted[w])
  BY <1>1, LayerIDIsTyped, TopIsComponent DEF layerID
<1>5. /\ trusted[w].byTOC =>
           layer.id[Len(layer.id)][1] = trusted[w].toc /\ layer.id[Len(layer.id)][2] = TRUE
      /\ ~trusted[w].byTOC =>
           layer.id[Len(layer.id)][1] = trusted[w].diffID /\ layer.id[Len(layer.id)][2] = FALSE
  BY <1>4, ComponentFields
<1>6. LayerIsTrue(layer, env.tocView)
  BY <1>5 DEF LayerIsTrue
<1>7. LayerFactsAreTrue'
  <2>1. \A l \in store' : LayerIsTrue(l, env.tocView)
    BY <1>2, <1>6 DEF ContentInvariant, LayerFactsAreTrue
  <2> QED
    BY <1>2, <2>1 DEF LayerFactsAreTrue, LayerIsTrue, ContentOf
<1>8. TOCsAreUnverified(store)'
  <2> SUFFICES ASSUME NEW l \in store', l.id[Len(l.id)][2]
               PROVE  \E k \in store' : k.toc = l.id[Len(l.id)][1] /\ k.diffID = None
    BY DEF TOCsAreUnverified
  <2>1. CASE l \in store
    BY <1>2, <2>1 DEF ContentInvariant, TOCsAreUnverified
  <2>2. CASE l = layer
    BY <1>2, <1>5, <2>2
  <2> QED
    BY <1>2, <2>1, <2>2
<1>9. /\ pc[w] \in {"check", "create"} /\ store \subseteq store'
      /\ trusted[w].diffID # None /\ env.config # <<>> =>
           Listed(i, trusted[w].diffID)
  BY <1>1, <1>2 DEF ContentInvariant, TrustedIsTrue, Listed
<1>10. TrustedIsTrue(w, i)'
  BY <1>2 DEF TrustedIsTrue, Listed
<1> QED
  BY <1>1, <1>3, <1>7, <1>8, <1>9, <1>10, AdvancesKeepsContents

(* createNewLayer: whichever way the layer came, what the store is told of *)
(* it is true.                                                             *)
LEMMA CreateLayerKeepsContents ==
  ASSUME TypeOK, QueueInvariant, ContentInvariant, NEW w \in Workers, CreateLayer(w)
  PROVE  ContentInvariant'
<1> DEFINE i == work[w]
           id == trusted[w]
           lid == layerID(Parent(i), id)
           new(d, t, x, content) ==
             [id |-> lid, diffID |-> d, toc |-> t, blob |-> x, content |-> content]
           b == LayerBlob[i]
           T == BlobTOC[b]
           content == IF id.byTOC THEN env.tocView[id.toc] ELSE id.diffID
<1>1. /\ Advances(w) /\ CommitTypes' /\ i \in Index /\ pc[w] = "create" /\ ~Committed(i)
      /\ lid \in IDs /\ id \in Identities
  BY CreateLayerAdvances, LayerIDIsTyped
  DEF Advances, CreateLayer, QueueInvariant, CommittedInOrder
<1>2. /\ id.byTOC <=> (diffID[i] = None /\ toc[i] # None)
      /\ id.toc = toc[i]
      /\ id.byTOC \/ diffID[i] # None => id.diffID = diffID[i]
      /\ ~id.byTOC => id.diffID # None
      /\ id.blob # None => ~id.byTOC /\ ContentOf(id.blob) = id.diffID
  BY <1>1 DEF QueueInvariant, TrustedIsCurrent, TrustedFor, ContentInvariant, TrustedIsTrue, Listed
<1>3. LayerIsKnown(i)
  BY <1>1 DEF ContentInvariant
<1>4. /\ id.diffID \in DiffIDs \cup {None} /\ id.toc \in TOCs \cup {None}
      /\ id.blob \in Digests \cup {None} /\ None \notin Digests
      /\ b \in Blobs /\ b \in Digests /\ BlobDiffID[b] \in DiffIDs /\ BlobDiffID[b] # None
      /\ T \in TOCs \cup {None} /\ ContentOf(b) = BlobDiffID[b]
  BY <1>1, ManifestAssumption DEF Identities, Digests, ContentOf
<1>5. content \in DiffIDs /\ (id.toc # None => content = env.tocView[id.toc])
      /\ id.diffID \in {None, content}
  <2>1. id.byTOC => id.toc \in TOCs /\ env.tocView[id.toc] \in DiffIDs
    BY <1>2, <1>4, ViewIsTyped
  <2>2. ~id.byTOC /\ id.toc # None => id.diffID = env.tocView[id.toc]
    BY <1>2, <1>3 DEF LayerIsKnown
  <2> QED
    BY <1>2, <1>4, <2>1, <2>2
<1> HIDE DEF content, lid, b, T
<1>6. ASSUME NEW d, NEW t, NEW x, Store(w, new(d, t, x, content)), BlobsAreTrue',
             d \in {None, content}, t \in TOCs \cup {None}, x \in Digests \cup {None},
             t # None => env.tocView[t] = content,
             x # None => ContentOf(x) = content,
             id.byTOC => \/ t = id.toc /\ d = None
                         \/ \E k \in store : k.toc = id.toc /\ k.diffID = None
      PROVE  ContentInvariant'
  <2> DEFINE layer == new(d, t, x, content)
  <2>1. layer \in LayerRecords
    BY <1>1, <1>5, <1>6 DEF LayerRecords, IDs
  <2>2. /\ layer.id = lid /\ layer.diffID = d /\ layer.toc = t /\ layer.blob = x
        /\ layer.content = content
    OBVIOUS
  <2>3. id.byTOC => \E k \in store \cup {layer} : k.toc = id.toc /\ k.diffID = None
    BY <1>6, <2>2
  <2>4. Store(w, layer)
    BY <1>6
  <2> HIDE DEF layer
  <2> QED
    BY <1>6, <2>1, <2>2, <2>3, <2>4, StoreKeepsContents DEF lid, content
<1>7. ASSUME UNCHANGED blobDiffIDs PROVE BlobsAreTrue'
  BY <1>7 DEF ContentInvariant, BlobsAreTrue, ContentOf
<1>8. ASSUME i \in staged, UNCHANGED blobDiffIDs,
             Store(w, IF T = None THEN new(id.diffID, None, b, BlobDiffID[b])
                      ELSE new(id.diffID, T, None, env.tocView[T]))
      PROVE  ContentInvariant'
  <2>1. IF T = None THEN diffID[i] = BlobDiffID[b] ELSE toc[i] = T
    BY <1>3, <1>8 DEF LayerIsKnown, b, T
  <2>2. CASE T = None
    <3>1. content = BlobDiffID[b] /\ ~id.byTOC
      BY <1>2, <1>4, <2>1, <2>2 DEF content
    <3> QED
      BY <1>4, <1>5, <1>6, <1>7, <1>8, <2>2, <3>1
  <2>3. CASE T # None
    <3>1. content = env.tocView[T] /\ id.toc = T
      BY <1>2, <1>5, <2>1, <2>3
    <3>2. id.byTOC => id.diffID = None
      BY <1>2
    <3> QED
      BY <1>4, <1>5, <1>6, <1>7, <1>8, <2>3, <3>1, <3>2
  <2> QED
    BY <2>2, <2>3
<1>9. ASSUME i \in additional, UNCHANGED blobDiffIDs,
             Store(w, new(None, id.toc, None, env.tocView[id.toc]))
      PROVE  ContentInvariant'
  <2>1. id.toc # None /\ content = env.tocView[id.toc]
    BY <1>2, <1>5, <1>9 DEF QueueInvariant, OriginIsKnown
  <2> QED
    BY <1>4, <1>6, <1>7, <1>9, <2>1
<1>10. ASSUME id.blob \in files, UNCHANGED blobDiffIDs,
              Store(w, new(id.diffID, None, id.blob, ContentOf(id.blob)))
       PROVE  ContentInvariant'
  <2>1. id.blob # None /\ ~id.byTOC /\ content = ContentOf(id.blob)
    BY <1>2, <1>4, <1>10 DEF TypeOK, content
  <2> QED
    BY <1>4, <1>5, <1>6, <1>7, <1>10, <2>1
<1>11. ASSUME i \notin staged, i \notin additional, NEW l \in SourceLayers(id),
              NEW d, d = IF id.diffID # None THEN id.diffID ELSE l.diffID,
              NEW computed, computed = IF d # None THEN d ELSE l.content,
              NEW x, x = IF id.blob # None /\ l.blob = id.blob THEN id.blob ELSE computed,
              Store(w, new(computed, None, x, l.content)),
              IF d = None THEN UNCHANGED <<blobDiffIDs, files>>
              ELSE /\ blobDiffIDs' = [blobDiffIDs EXCEPT ![d] = d]
                   /\ files' = files \cup {d}
       PROVE  ContentInvariant'
  <2>1. /\ l \in store
        /\ \/ id.diffID # None /\ l.diffID = id.diffID
           \/ id.toc # None /\ l.toc = id.toc
           \/ id.blob # None /\ l.blob = id.blob
    BY DEF SourceLayers, WithDiffID, WithTOC, WithBlob
  <2>2. LayerIsTrue(l, env.tocView) /\ l.content \in DiffIDs /\ l.diffID \in DiffIDs \cup {None}
    BY <2>1 DEF ContentInvariant, LayerFactsAreTrue, TypeOK, LayerRecords
  <2>3. l.content = content
    <3>1. CASE id.diffID # None /\ l.diffID = id.diffID
      BY <1>5, <2>2, <3>1 DEF LayerIsTrue
    <3>2. CASE id.toc # None /\ l.toc = id.toc
      BY <1>5, <2>2, <3>2 DEF LayerIsTrue
    <3>3. CASE id.blob # None /\ l.blob = id.blob
      BY <1>2, <2>2, <3>3 DEF LayerIsTrue, content
    <3> QED
      BY <2>1, <3>1, <3>2, <3>3
  <2>4. d \in {None, content}
    BY <1>5, <1>11, <2>2, <2>3 DEF LayerIsTrue
  <2>5. computed = content /\ x \in Digests /\ ContentOf(x) = content
    <3>1. computed = content
      BY <1>11, <2>3, <2>4
    <3>2. content \in Digests /\ ContentOf(content) = content
      BY <1>5, ContentOfDiffID
    <3>3. id.blob # None => id.blob \in Digests
      BY <1>4
    <3>4. id.blob # None /\ l.blob = id.blob => ContentOf(id.blob) = content
      BY <2>2, <2>3 DEF LayerIsTrue
    <3> QED
      BY <1>11, <3>1, <3>2, <3>3, <3>4
  <2>6. BlobsAreTrue'
    <3>1. CASE d = None
      BY <1>7, <1>11, <3>1
    <3>2. CASE d # None
      <4>1. d = content /\ d \in Digests /\ ContentOf(d) = d
        BY <1>5, <2>4, <3>2, ContentOfDiffID
      <4>2. \A e \in Digests : blobDiffIDs'[e] \in {None, ContentOf(e)}
        BY <1>11, <3>2, <4>1 DEF ContentInvariant, BlobsAreTrue, TypeOK
      <4> QED
        BY <4>2 DEF BlobsAreTrue, ContentOf
    <3> QED
      BY <3>1, <3>2
  <2>7. id.byTOC => \E k \in store : k.toc = id.toc /\ k.diffID = None
    BY <1>2, <1>3, <1>11 DEF LayerIsKnown
  <2>8. Store(w, new(computed, None, x, content))
    BY <1>11, <2>3
  <2> QED
    BY <1>6, <2>5, <2>6, <2>7, <2>8
<1>12. ASSUME NEW p \in {"done", "failed", "internal error"}, Goto(w, p),
              UNCHANGED <<storageID, store, blobDiffIDs>>
       PROVE  ContentInvariant'
  <2>1. pc'[w] = p
    BY <1>12 DEF Goto, TypeOK
  <2>2. TrustedIsTrue(w, i)' /\ UNCHANGED env
    BY <2>1 DEF TrustedIsTrue, CreateLayer, Listed
  <2>3. LayerFactsAreTrue' /\ TOCsAreUnverified(store)'
    BY <1>12, <2>2, StoreIsKept
  <2> QED
    BY <1>1, <1>7, <1>12, <2>1, <2>2, <2>3, AdvancesKeepsContents
<1> QED
  BY <1>8, <1>9, <1>10, <1>11, <1>12 DEF CreateLayer, Stop, lid, b, T, new

(* A step that touches neither layers nor the store keeps the contents.    *)
LEMMA ContentsAreKept ==
  ASSUME TypeOK, QueueInvariant, ContentInvariant,
         UNCHANGED <<env, diffID, toc, blobDiffIDs, staged, additional, info, storageID, store,
                     trusted>>,
         \A w \in Workers : pc'[w] \in {"check", "create"} =>
           pc'[w] = pc[w] /\ work'[w] = work[w],
         pc'[Main] \in {"name", "done"} => \A i \in Index : Committed(i)
  PROVE  ContentInvariant'
<1>1. BlobsAreTrue' /\ LayerFactsAreTrue' /\ TOCsAreUnverified(store)'
  BY StoreIsKept DEF ContentInvariant, BlobsAreTrue, ContentOf
<1>2. \A i \in Index : LayerIsKnown(i)'
  BY DEF ContentInvariant, LayerIsKnown
<1>3. \A i \in Index : /\ Identity(i)'.byTOC = Identity(i).byTOC
                       /\ Identity(i)'.diffID = Identity(i).diffID
                       /\ Identity(i)'.toc = Identity(i).toc
  BY IdentityFields
<1>4. ASSUME NEW w \in Workers PROVE TrustedIsTrue(w, work[w])'
  <2>1. CASE pc'[w] \in {"check", "create"}
    <3>1. work[w] \in Index /\ work'[w] = work[w] /\ pc'[w] = pc[w]
      BY <2>1 DEF QueueInvariant, CommittedInOrder
    <3>2. Identity(work[w])'.diffID = Identity(work[w]).diffID
      BY <1>3, <3>1, IdentityFields
    <3>3. TrustedIsTrue(w, work[w])
      BY DEF ContentInvariant
    <3> QED
      BY <3>1, <3>2, <3>3 DEF TrustedIsTrue, ContentOf, Listed
  <2>2. CASE pc'[w] \notin {"check", "create"}
    BY <2>2 DEF TrustedIsTrue, Listed
  <2> QED
    BY <2>1, <2>2
<1>5. LayersAreListed' /\ ParentsAreCommitted'
  BY <1>3 DEF ContentInvariant, LayersAreListed, ParentsAreCommitted, Committed, Listed
<1>6. IdentityIsStable'
  <2> SUFFICES ASSUME NEW j \in Index \ env.empty, Committed(j)
               PROVE  storageID[j] = Append(Parent(j)', Component(Identity(j))')
    BY DEF IdentityIsStable, Identity, layerID, Committed
  <2>1. storageID[j] = Append(Parent(j), Component(Identity(j)))
    BY DEF ContentInvariant, IdentityIsStable, layerID, Identity
  <2>2. Parent(j)' = Parent(j) /\ Component(Identity(j))' = Component(Identity(j))
    BY <1>3 DEF Parent, Component
  <2> QED
    BY <2>1, <2>2
<1> QED
  BY <1>1, <1>2, <1>4, <1>5, <1>6 DEF ContentInvariant

(* Every step keeps the contents of the layers.                            *)
LEMMA ContentNext ==
  TypeOK /\ QueueInvariant /\ ContentInvariant /\ [Next]_vars => ContentInvariant'
<1> SUFFICES ASSUME TypeOK, QueueInvariant, ContentInvariant, [Next]_vars PROVE ContentInvariant'
  OBVIOUS
<1>1. ASSUME NEW w \in Workers, Step(w) PROVE ContentInvariant'
  BY <1>1, CollectKeepsContents, CheckKeepsContents, CreateLayerKeepsContents DEF Step
<1>2. ASSUME NEW i \in Index, Queue(i) \/ Loop(i) PROVE ContentInvariant'
  <2>1. i \in Workers /\ i # Main /\ Main \in Workers
    BY IndexesAreWorkers
  <2>2. UNCHANGED <<env, diffID, toc, blobDiffIDs, staged, additional, info, storageID, store,
                    trusted>>
    BY <1>2 DEF Queue, Loop, pending
  <2>3. PICK p \in {"begin", "done"} : Goto(i, p)
    BY <1>2 DEF Queue, Loop
  <2>4. pc'[i] = p /\ \A v \in Workers \ {i} : pc'[v] = pc[v]
    BY <2>1, <2>3 DEF Goto, TypeOK
  <2>5. \A v \in Workers \ {i} : work'[v] = work[v]
    BY <1>2 DEF Queue, Loop, TypeOK
  <2> QED
    BY <2>1, <2>2, <2>4, <2>5, ContentsAreKept DEF ContentInvariant, ParentsAreCommitted
<1>3. ASSUME NEW i \in Index, Layer(i) PROVE ContentInvariant'
  <2>1. i \in Workers
    BY IndexesAreWorkers
  <2>2. CASE Forget(i) \/ StreamLayer(i) \/ PutBlob(i)
    BY <2>2, StreamOrForgetArrives, PutBlobArrives, ArrivalIsTrue, ArrivesKeepsContents
  <2>3. CASE TryReusingBlob(i)
    BY <2>3, TryReusingBlobArrives, ReuseIsTrue, ArrivesKeepsContents
  <2>4. CASE PutBlobPartial(i)
    BY <2>4, PutBlobPartialArrives, PartialIsTrue, ArrivesKeepsContents
  <2> QED
    BY <1>1, <1>2, <1>3, <2>1, <2>2, <2>3, <2>4 DEF Layer
<1>4. CASE PutManifest \/ CommitNext \/ CreateImage \/ AddNames
  <2>1. UNCHANGED <<env, diffID, toc, blobDiffIDs, staged, additional, info, storageID, store,
                    trusted>>
    BY <1>4 DEF PutManifest, CommitNext, CreateImage, AddNames, pending
  <2>2. PICK p \in {"begin", "failed", "name", "done", "internal error"} : Goto(Main, p)
    BY <1>4 DEF PutManifest, CommitNext, CreateImage, AddNames
  <2>3. pc'[Main] = p /\ \A v \in Workers \ {Main} : pc'[v] = pc[v]
    BY <2>2, IndexesAreWorkers DEF Goto, TypeOK
  <2>4. \A v \in Workers \ {Main} : work'[v] = work[v]
    BY <1>4 DEF PutManifest, CommitNext, CreateImage, AddNames, TypeOK
  <2>5. ASSUME p \in {"name", "done"} PROVE \A i \in Index : Committed(i)
    <3>1. CASE PutManifest \/ CommitNext
      BY <2>3, <2>5, <3>1, IndexesAreWorkers DEF PutManifest, CommitNext, Goto, TypeOK
    <3>2. CASE CreateImage
      <4>1. pc[Main] \in Committing /\ work[Main] = N
        BY <3>2 DEF CreateImage, Committing
      <4>2. \A i \in Index : i < N
        BY IndexesAreWorkers
      <4> QED
        BY <4>1, <4>2, IndexesAreWorkers DEF QueueInvariant, CommittedInOrder
    <3>3. CASE AddNames
      BY <3>3 DEF AddNames, ContentInvariant, ParentsAreCommitted
    <3> QED
      BY <1>4, <3>1, <3>2, <3>3
  <2> QED
    BY <2>1, <2>3, <2>4, <2>5, ContentsAreKept
<1>5. CASE NextImage
  <2>1. /\ env'.tocView = env.tocView /\ UNCHANGED store
        /\ diffID' = [i \in Index |-> None] /\ toc' = [i \in Index |-> None]
        /\ blobDiffIDs' = [d \in Digests |-> None] /\ staged' = {} /\ storageID' = <<>>
        /\ pc' = [w \in Workers |-> "start"]
    BY <1>5 DEF NextImage
  <2>2. LayerFactsAreTrue' /\ TOCsAreUnverified(store)'
    BY <2>1, StoreIsKept
  <2>3. BlobsAreTrue' /\ \A i \in Index : LayerIsKnown(i)'
    BY <2>1 DEF BlobsAreTrue, LayerIsKnown
  <2>4. \A w \in Workers : TrustedIsTrue(w, work[w])'
    BY <2>1 DEF TrustedIsTrue, Listed
  <2>5. DOMAIN storageID' = {} /\ pc'[Main] = "start"
    BY <2>1, IndexesAreWorkers
  <2>6. LayersAreListed' /\ ParentsAreCommitted' /\ IdentityIsStable'
    BY <2>5 DEF LayersAreListed, ParentsAreCommitted, IdentityIsStable, Committed, Listed
  <2> QED
    BY <2>2, <2>3, <2>4, <2>6 DEF ContentInvariant
<1>6. CASE UNCHANGED vars
  BY <1>6, ContentsAreKept DEF vars, pending, ContentInvariant, ParentsAreCommitted
<1> QED
  BY <1>1, <1>3, <1>4, <1>5, <1>6, IndexesAreWorkers DEF Next, Commit, Terminated

(* The store of the first image is as StoresAssumption says.               *)
LEMMA ContentInit == Init => ContentInvariant
<1> SUFFICES ASSUME Init PROVE ContentInvariant
  OBVIOUS
<1>1. LayerFactsAreTrue /\ TOCsAreUnverified(store)
  BY StoresAssumption DEF Init, LayerFactsAreTrue
<1>2. BlobsAreTrue /\ \A i \in Index : LayerIsKnown(i)
  BY DEF Init, BlobsAreTrue, LayerIsKnown
<1>3. \A w \in Workers : TrustedIsTrue(w, work[w])
  BY DEF Init, TrustedIsTrue, Listed
<1>4. DOMAIN storageID = {} /\ pc[Main] = "start"
  BY IndexesAreWorkers DEF Init
<1>5. LayersAreListed /\ ParentsAreCommitted /\ IdentityIsStable
  BY <1>4 DEF LayersAreListed, ParentsAreCommitted, IdentityIsStable, Committed, Listed
<1> QED
  BY <1>1, <1>2, <1>3, <1>5 DEF ContentInvariant

(* The invariants give what LayersAreAuthentic says.                       *)
LEMMA ContentsAreAuthentic ==
  TypeOK /\ QueueInvariant /\ ContentInvariant => LayersAreAuthentic
<1>0. ASSUME TypeOK, QueueInvariant, ContentInvariant,
             pc[Main] \in {"name", "done"}, env.config # <<>>, NEW i \in Index \ env.empty
      PROVE  i < Len(env.config)
  <2>1. Committed(i)
    BY <1>0 DEF ContentInvariant, ParentsAreCommitted
  <2>2. Identity(i).byTOC => toc[i] # None
    BY IdentityFields
  <2> QED
    BY <1>0, <2>1, <2>2 DEF ContentInvariant, LayersAreListed, Listed, QueueInvariant, OriginIsKnown
<1> SUFFICES ASSUME TypeOK, QueueInvariant, ContentInvariant,
                    pc[Main] \in {"name", "done"}, env.config # <<>>,
                    NEW i \in Index \ env.empty, NEW l \in store, l.id = storageID[i],
                    l.content # env.config[i + 1]
             PROVE  /\ l.id[Len(l.id)][2]
                    /\ \E k \in WithTOC(BlobTOC[LayerBlob[i]]) : k.diffID = None
  BY <1>0 DEF LayersAreAuthentic, ContentInvariant, ContentsMatchConfig
<1> DEFINE top == l.id[Len(l.id)]
<1>1. \A j \in Index : Committed(j)
  BY DEF ContentInvariant, ParentsAreCommitted
<1>2. l.id = Append(Parent(i), Component(Identity(i)))
  BY <1>1 DEF ContentInvariant, IdentityIsStable, layerID, Identity
<1>3. Parent(i) \in IDs
  <2>1. CASE i = 0
    BY <2>1 DEF Parent, IDs
  <2>2. CASE i # 0
    <3>1. i - 1 \in Index
      BY <2>2, ManifestAssumption DEF Index
    <3> QED
      BY <1>1, <2>2, <3>1 DEF Parent, Committed, TypeOK, IDs
  <2> QED
    BY <2>1, <2>2
<1>4. Found(Identity(i)) /\ LayerIsKnown(i)
  BY <1>1 DEF QueueInvariant, LayersAreIdentified, ContentInvariant
<1>5. /\ Identity(i).byTOC => Identity(i).toc \in TOCs /\ Identity(i).toc # None
      /\ ~Identity(i).byTOC => Identity(i).diffID \in DiffIDs
  <2>1. info[i] \in Digests \cup {None}
    BY DEF TypeOK
  <2>2. Identity(i) \in Identities
    BY <2>1, IdentityIsTyped DEF Identity
  <2> QED
    BY <1>4, <2>2, IdentityFields, ManifestAssumption DEF Identities, Found
<1>6. Component(Identity(i)) \in (DiffIDs \cup TOCs) \X BOOLEAN
  BY <1>5 DEF Component
<1>7. top = Component(Identity(i))
  BY <1>2, <1>3, <1>6, TopIsComponent
<1>8. /\ Identity(i).byTOC => top[1] = Identity(i).toc /\ top[2] = TRUE
      /\ ~Identity(i).byTOC => top[1] = Identity(i).diffID /\ top[2] = FALSE
  BY <1>7, ComponentFields
<1>9. Identity(i).byTOC
  <2>1. CASE ~Identity(i).byTOC
    <3>1. l.content = Identity(i).diffID
      BY <1>8, <2>1 DEF ContentInvariant, LayerFactsAreTrue, LayerIsTrue
    <3>2. Identity(i).diffID = env.config[i + 1]
      BY <1>1, <2>1 DEF ContentInvariant, LayersAreListed, Listed
    <3> QED
      BY <3>1, <3>2
  <2> QED
    BY <2>1
<1>10. PICK k \in store : k.toc = top[1] /\ k.diffID = None
  BY <1>8, <1>9 DEF ContentInvariant, TOCsAreUnverified
<1>11. top[1] = BlobTOC[LayerBlob[i]] /\ top[1] # None
  BY <1>4, <1>5, <1>8, <1>9, IdentityFields DEF LayerIsKnown
<1> QED
  BY <1>8, <1>9, <1>10, <1>11 DEF WithTOC

(* Layers are what their identities, the store and the config say: a       *)
(* committed layer keeps its identity while other layers arrive, what the  *)
(* store is told of a layer is true of its content whichever way it came,  *)
(* and a committed image consists of the layers its config lists, except   *)
(* for layers known by a TOC that was never verified (commitLayer,         *)
(* createNewLayer, trustedLayerIdentityDataLocked).                        *)
THEOREM LayersAuthentic == Spec => []LayersAreAuthentic
<1>1. Init => TypeOK /\ QueueInvariant /\ ContentInvariant
  BY QueueInit, ContentInit
<1>2. TypeOK /\ QueueInvariant /\ ContentInvariant /\ [Next]_vars
        => (TypeOK /\ QueueInvariant /\ ContentInvariant)'
  BY QueueNext, ContentNext
<1>3. TypeOK /\ QueueInvariant /\ ContentInvariant => LayersAreAuthentic
  BY ContentsAreAuthentic
<1> QED
  BY <1>1, <1>2, <1>3, PTL DEF Spec
===============================================================================
