------------------------------ MODULE BoltCache ------------------------------
(***************************************************************************)
(* pkg/blobinfocache/boltdb/boltdb.go: the caches of several goroutines    *)
(* over one database path.  Every call opens the file, runs one BoltDB     *)
(* transaction and closes it, all under a lock that is found by the path   *)
(* in a global, reference-counted map.  Open and Close do nothing.  Other  *)
(* processes may remove the file at any time.                              *)
(***************************************************************************)
EXTENDS BlobFacts

CONSTANTS
  Goroutines,
  Locks           \* the addresses of pathLock objects

VARIABLES
  pathLocks,      \* the pathLock of the path, or NoLock
  refCount,       \* of each pathLock
  owner,          \* of each pathLock's mutex
  pc,             \* where each goroutine is
  mine,           \* the pathLock each goroutine was given by lockPath
  writes,         \* the goroutine is in update, not in view
  file,           \* the file at the path
  uncompressedDigest, uncompressedDigestByTOC, digestByUncompressed,
  digestCompressor, digestSpecificVariantCompressor, knownLocations,
  clock           \* time.Now()

buckets == <<uncompressedDigest, uncompressedDigestByTOC, digestByUncompressed,
             digestCompressor, digestSpecificVariantCompressor, knownLocations>>
lockVars == <<pathLocks, refCount, owner, mine>>
vars == <<lockVars, pc, writes, file, buckets, clock>>

NoLock == "no lock"
Nobody == "nobody"
NoEntry == "no entry"

(* A file of size zero is not a database yet.  The database a goroutine    *)
(* has open may no longer be the file at the path: "orphan".               *)
FileStates == {"missing", "empty", "database"}
PCs == {"idle", "checked", "waiting", "locked", "open", "orphan", "closed"}

TypeOK ==
  /\ pathLocks \in Locks \cup {NoLock}
  /\ refCount \in [Locks -> 0..Cardinality(Goroutines)]
  /\ owner \in [Locks -> Goroutines \cup {Nobody}]
  /\ pc \in [Goroutines -> PCs]
  /\ mine \in [Goroutines -> Locks \cup {NoLock}]
  /\ writes \in [Goroutines -> BOOLEAN]
  /\ file \in FileStates
  /\ uncompressedDigest \in [Digests -> Digests \cup {NoDigest}]
  /\ uncompressedDigestByTOC \in [TOCs -> Digests \cup {NoDigest}]
  /\ digestByUncompressed \in [Digests -> SUBSET Digests]
  /\ digestCompressor \in
       [Digests -> Algorithms \cup {Uncompressed, UnknownCompression, NoEntry}]
  /\ digestSpecificVariantCompressor \in [Digests -> Algorithms \cup {NoEntry}]
  /\ knownLocations \in [Scopes \X Digests -> [Locations -> 0..MaxTime]]
  /\ clock \in 0..MaxTime

NoBucket == [d \in Digests |-> NoEntry]
NoLocations == [k \in Scopes \X Digests |-> [l \in Locations |-> 0]]

Init ==
  /\ pathLocks = NoLock
  /\ refCount = [l \in Locks |-> 0]
  /\ owner = [l \in Locks |-> Nobody]
  /\ pc = [g \in Goroutines |-> "idle"]
  /\ mine = [g \in Goroutines |-> NoLock]
  /\ writes = [g \in Goroutines |-> FALSE]
  /\ file = "missing"
  /\ uncompressedDigest = [d \in Digests |-> NoDigest]
  /\ uncompressedDigestByTOC = [t \in TOCs |-> NoDigest]
  /\ digestByUncompressed = [d \in Digests |-> {}]
  /\ digestCompressor = NoBucket /\ digestSpecificVariantCompressor = NoBucket
  /\ knownLocations = NoLocations
  /\ clock = 0

-----------------------------------------------------------------------------
(* The locks *)

NewLock == CHOOSE l \in Locks : l # pathLocks /\ \A g \in Goroutines : mine[g] # l

(* lockPath, under pathLocksMutex.                                         *)
getPathLock(g) ==
  LET pl == IF pathLocks # NoLock THEN pathLocks ELSE NewLock
  IN /\ pathLocks' = pl
     /\ mine' = [mine EXCEPT ![g] = pl]
     /\ refCount' = [refCount EXCEPT ![pl] = IF pathLocks # NoLock THEN @ + 1 ELSE 1]
     /\ UNCHANGED owner

(* lockPath: pl.mutex.Lock().                                              *)
lockPath(g) ==
  /\ pc[g] = "waiting" /\ owner[mine[g]] = Nobody
  /\ owner' = [owner EXCEPT ![mine[g]] = g]
  /\ pc' = [pc EXCEPT ![g] = "locked"]
  /\ UNCHANGED <<pathLocks, refCount, mine, writes, file, buckets, clock>>

(* Mutation: the lock is dropped although others wait for it.              *)
unusedAlways(count) == TRUE

(* The count, after the decrement, allows deleting the map entry.          *)
unused(count) == count = 0

(* unlockPath looks the lock up again by the path.  It panics if there is  *)
(* none: see UnlockIsPossible.                                             *)
unlockPath(g) ==
  /\ pc[g] = "closed" /\ pathLocks # NoLock
  /\ owner' = [owner EXCEPT ![pathLocks] = Nobody]
  /\ refCount' = [refCount EXCEPT ![pathLocks] = @ - 1]
  /\ pathLocks' = IF unused(refCount[pathLocks] - 1) THEN NoLock ELSE pathLocks
  /\ mine' = [mine EXCEPT ![g] = NoLock]
  /\ pc' = [pc EXCEPT ![g] = "idle"]
  /\ UNCHANGED <<writes, file, buckets, clock>>

-----------------------------------------------------------------------------
(* view and update *)

(* view does not wait for the lock if there is no file.                    *)
Lexists(g) ==
  /\ pc[g] = "idle" /\ file # "missing"
  /\ pc' = [pc EXCEPT ![g] = "checked"]
  /\ writes' = [writes EXCEPT ![g] = FALSE]
  /\ UNCHANGED <<lockVars, file, buckets, clock>>

view(g) ==
  /\ pc[g] = "checked"
  /\ getPathLock(g)
  /\ pc' = [pc EXCEPT ![g] = "waiting"]
  /\ UNCHANGED <<writes, file, buckets, clock>>

update(g) ==
  /\ pc[g] = "idle"
  /\ getPathLock(g)
  /\ pc' = [pc EXCEPT ![g] = "waiting"]
  /\ writes' = [writes EXCEPT ![g] = TRUE]
  /\ UNCHANGED <<file, buckets, clock>>

(* bolt.Open makes a database of a file that is missing or empty; with     *)
(* ReadOnly it creates the file as well, cannot write to it, and fails.    *)
Open(g) ==
  /\ pc[g] = "locked"
  /\ \/ /\ writes[g] \/ file = "database"
        /\ file' = "database"
        /\ pc' = [pc EXCEPT ![g] = "open"]
     \/ /\ ~writes[g] /\ file # "database"
        /\ file' = "empty"
        /\ pc' = [pc EXCEPT ![g] = "closed"]
     \/ /\ pc' = [pc EXCEPT ![g] = "closed"]
        /\ UNCHANGED file
  /\ UNCHANGED <<lockVars, writes, buckets, clock>>

(* The end of db.Update or db.View, and db.Close.                          *)
Finish(g) ==
  /\ pc[g] \in {"open", "orphan"}
  /\ pc' = [pc EXCEPT ![g] = "closed"]
  /\ UNCHANGED <<lockVars, writes, file>>

(* A lookup; an update that fails and is rolled back; an update of a file  *)
(* that is not at the path any more.  The callers never hear of it.        *)
NoEffect(g) ==
  /\ Finish(g)
  /\ UNCHANGED <<buckets, clock>>

Commit(g) == pc[g] = "open" /\ writes[g] /\ Finish(g)

(* Another process removes the file.                                       *)
RemoveFile ==
  /\ file # "missing"
  /\ file' = "missing"
  /\ uncompressedDigest' = [d \in Digests |-> NoDigest]
  /\ uncompressedDigestByTOC' = [t \in TOCs |-> NoDigest]
  /\ digestByUncompressed' = [d \in Digests |-> {}]
  /\ digestCompressor' = NoBucket /\ digestSpecificVariantCompressor' = NoBucket
  /\ knownLocations' = NoLocations
  /\ pc' = [g \in Goroutines |-> IF pc[g] = "open" THEN "orphan" ELSE pc[g]]
  /\ UNCHANGED <<lockVars, writes, clock>>

-----------------------------------------------------------------------------
(* The Record* methods: the transactions of update *)

RecordDigestUncompressedPair(g, anyDigest, uncompressed) ==
  /\ Commit(g)
  /\ uncompressedDigest' = [uncompressedDigest EXCEPT ![anyDigest] = uncompressed]
  /\ digestByUncompressed' =
       [digestByUncompressed EXCEPT ![uncompressed] = @ \cup {anyDigest}]
  /\ UNCHANGED <<uncompressedDigestByTOC, digestCompressor,
                 digestSpecificVariantCompressor, knownLocations, clock>>

RecordTOCUncompressedPair(g, tocDigest, uncompressed) ==
  /\ Commit(g)
  /\ uncompressedDigestByTOC' =
       [uncompressedDigestByTOC EXCEPT ![tocDigest] = uncompressed]
  /\ UNCHANGED <<uncompressedDigest, digestByUncompressed, digestCompressor,
                 digestSpecificVariantCompressor, knownLocations, clock>>

(* An unknown compressor deletes both entries and is then put into the     *)
(* first bucket all the same.                                              *)
RecordDigestCompressorData(g, anyDigest, data) ==
  /\ Commit(g)
  /\ digestCompressor' = [digestCompressor EXCEPT ![anyDigest] = data.base]
  /\ digestSpecificVariantCompressor' =
       [digestSpecificVariantCompressor EXCEPT ![anyDigest] =
          CASE data.specific # UnknownCompression -> data.specific
            [] data.specific = UnknownCompression /\ data.base = UnknownCompression -> NoEntry
            [] OTHER -> @]
  /\ UNCHANGED <<uncompressedDigest, uncompressedDigestByTOC, digestByUncompressed,
                 knownLocations, clock>>

RecordKnownLocation(g, scope, blobDigest, location) ==
  /\ Commit(g)
  /\ clock < MaxTime
  /\ clock' = clock + 1
  /\ knownLocations' = [knownLocations EXCEPT ![<<scope, blobDigest>>][location] = clock + 1]
  /\ UNCHANGED <<uncompressedDigest, uncompressedDigestByTOC, digestByUncompressed,
                 digestCompressor, digestSpecificVariantCompressor>>

Next ==
  \/ RemoveFile
  \/ \E g \in Goroutines :
       \/ Lexists(g) \/ view(g) \/ update(g) \/ lockPath(g) \/ unlockPath(g)
       \/ Open(g) \/ NoEffect(g)
       \/ \E d \in Digests : RecordDigestUncompressedPair(g, d, TrueUncompressed[d])
       \/ \E t \in TOCs : RecordTOCUncompressedPair(g, t, TrueTOC[t])
       \/ \E s \in Scopes, d \in Digests, l \in Locations : RecordKnownLocation(g, s, d, l)
       \/ \E d \in Digests : \E data \in VerifiedCompressorData(d) :
            RecordDigestCompressorData(g, d, data)

Spec == Init /\ [][Next]_vars

-----------------------------------------------------------------------------
(* The lookups: the transactions of view *)

uncompressedDigestOf(anyDigest) ==
  IF uncompressedDigest[anyDigest] # NoDigest THEN uncompressedDigest[anyDigest]
  ELSE IF digestByUncompressed[anyDigest] # {} THEN anyDigest
  ELSE NoDigest

(* What appendReplacementCandidates reads of the two compressor buckets.   *)
compressionData(d) ==
  [base |-> IF digestCompressor[d] = NoEntry THEN UnknownCompression ELSE digestCompressor[d],
   specific |-> IF digestSpecificVariantCompressor[d] = NoEntry THEN UnknownCompression
                ELSE digestSpecificVariantCompressor[d]]

candidateLocations(scope, primaryDigest, canSubstitute, v2Options) ==
  LET u == IF canSubstitute THEN uncompressedDigestOf(primaryDigest) ELSE NoDigest
      digests == {primaryDigest} \cup
                   (IF u # NoDigest THEN digestByUncompressed[u] \cup {u} ELSE {})
  IN DestructivelyPrioritizeReplacementCandidates(
       UNION {Candidates(v2Options, d, compressionData(d), knownLocations[<<scope, d>>]) :
                d \in digests},
       primaryDigest, u)

-----------------------------------------------------------------------------
(* Properties *)

Facts == INSTANCE BlobInfoCache WITH
  uncompressedOf <- uncompressedDigest,
  tocOf <- uncompressedDigestByTOC,
  compressorOf <- [d \in Digests |-> compressionData(d)],
  seen <- knownLocations,
  now <- clock

Owning == {g \in Goroutines : pc[g] \in {"locked", "open", "orphan", "closed"}}

(* "We punt and only allow one at a time": whatever locks come and go, at  *)
(* most one goroutine uses a database of the path.                         *)
OneAtATime == \A g, h \in Owning : g = h

(* The lock in the map is the one its owner and all who wait for it hold,  *)
(* and refCount counts them; so unlockPath finds and releases the lock     *)
(* that lockPath took, and never panics.                                   *)
UnlockIsPossible ==
  LET users == {g \in Goroutines : mine[g] # NoLock}
  IN /\ \A g \in users : mine[g] = pathLocks
     /\ pathLocks = NoLock <=> users = {}
     /\ pathLocks # NoLock => refCount[pathLocks] = Cardinality(users)
     /\ \A g \in Owning : owner[mine[g]] = g

(* A lookup through the buckets answers what the facts recorded since the  *)
(* file was created justify, also after a rollback or a removal; specific  *)
(* variants are "valid only if digestCompressorBucket contains a value".   *)
LookupsAgree ==
  \A d \in Digests :
    /\ uncompressedDigestOf(d) = Facts!UncompressedDigest(d)
    /\ uncompressedDigestOf(d) \in {NoDigest, TrueUncompressed[d]}
    /\ compressionData(d) \in VerifiedCompressorData(d)
    /\ \A s \in Scopes, sub, v2 \in BOOLEAN :
         LET opts == [NoOptions EXCEPT !.v2 = v2]
         IN candidateLocations(s, d, sub, opts) = Facts!CandidateLocations2(s, d, sub, opts)

(* The database is used by one goroutine at a time, under a lock that is   *)
(* always found again, and its buckets agree.                              *)
BoltIsSound == TypeOK /\ OneAtATime /\ UnlockIsPossible /\ LookupsAgree
==============================================================================
