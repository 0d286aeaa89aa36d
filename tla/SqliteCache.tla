----------------------------- MODULE SqliteCache -----------------------------
(***************************************************************************)
(* pkg/blobinfocache/sqlite/sqlite.go: one cache object, used by several   *)
(* goroutines (Clients).  copy.Image brackets its calls with Open and      *)
(* Close; other callers need not.  Open/Close count references to a shared *)
(* *sql.DB.  A call takes the shared handle, or opens one of its own,      *)
(* under sqc.lock (transaction), and runs its EXCLUSIVE transaction later, *)
(* when another client may have closed the shared handle: the transaction  *)
(* then fails, and the caller never hears of it.                           *)
(***************************************************************************)
EXTENDS BlobFacts

CONSTANT Clients
ASSUME ClientsAssumption == IsFiniteSet(Clients)

VARIABLES
  (* the database file *)
  DigestUncompressedPairs,           \* anyDigest -> uncompressedDigest
  DigestTOCUncompressedPairs,        \* tocDigest -> uncompressedDigest
  DigestCompressors,                 \* digest -> compressor
  DigestSpecificVariantCompressors,  \* digest -> specificVariantCompressor
  KnownLocations,                    \* (transport, scope, digest), location -> time
  clock,                             \* time.Now()
  (* the cache object, protected by sqc.lock *)
  refCount, db,
  (* the clients *)
  bracketed,                         \* between its Open and its Close
  handle                             \* the handle of its running transaction

tables == <<DigestUncompressedPairs, DigestTOCUncompressedPairs, DigestCompressors,
            DigestSpecificVariantCompressors, KnownLocations, clock>>
vars == <<tables, refCount, db, bracketed, handle>>

(* sqc.db is nil or the open shared handle.  A client's transaction uses   *)
(* the shared handle, one of its own, or a shared one that is closed now.  *)
DBStates == {"nil", "open"}
HandleStates == {"none", "shared", "own", "closed"}

TypeOK ==
  /\ DigestUncompressedPairs \in [Digests -> Digests \cup {NoDigest}]
  /\ DigestTOCUncompressedPairs \in [TOCs -> Digests \cup {NoDigest}]
  /\ DigestCompressors \in [Digests -> Algorithms \cup {Uncompressed, UnknownCompression}]
  /\ DigestSpecificVariantCompressors \in [Digests -> Algorithms \cup {UnknownCompression}]
  /\ KnownLocations \in [Scopes \X Digests -> [Locations -> 0..MaxTime]]
  /\ clock \in 0..MaxTime
  /\ refCount \in Nat /\ db \in DBStates
  /\ bracketed \in [Clients -> BOOLEAN]
  /\ handle \in [Clients -> HandleStates]

(* ensureDBHasCurrentSchema on a fresh database, then new2.  A missing row *)
(* is NoDigest, UnknownCompression or time 0.                              *)
Init ==
  /\ DigestUncompressedPairs = [d \in Digests |-> NoDigest]
  /\ DigestTOCUncompressedPairs = [t \in TOCs |-> NoDigest]
  /\ DigestCompressors = [d \in Digests |-> UnknownCompression]
  /\ DigestSpecificVariantCompressors = [d \in Digests |-> UnknownCompression]
  /\ KnownLocations = [k \in Scopes \X Digests |-> [l \in Locations |-> 0]]
  /\ clock = 0
  /\ refCount = 0 /\ db = "nil"
  /\ bracketed = [c \in Clients |-> FALSE]
  /\ handle = [c \in Clients |-> "none"]

-----------------------------------------------------------------------------
(* The reference-counted handle *)

(* Open counts even when rawOpen fails: then db stays nil.                 *)
Open(c) ==
  /\ ~bracketed[c] /\ handle[c] = "none"
  /\ bracketed' = [bracketed EXCEPT ![c] = TRUE]
  /\ refCount' = refCount + 1
  /\ IF refCount = 0 THEN db' \in DBStates ELSE UNCHANGED db
  /\ UNCHANGED <<tables, handle>>

(* Mutation: every Close closes the handle.                                *)
CloseEagerly(c) ==
  /\ bracketed[c] /\ handle[c] = "none"
  /\ bracketed' = [bracketed EXCEPT ![c] = FALSE]
  /\ refCount' = refCount - 1
  /\ db' = "nil"
  /\ handle' = [x \in Clients |-> IF handle[x] = "shared" THEN "closed" ELSE handle[x]]
  /\ UNCHANGED tables

(* The last Close closes the shared handle under running transactions.     *)
Close(c) ==
  /\ bracketed[c] /\ handle[c] = "none"
  /\ bracketed' = [bracketed EXCEPT ![c] = FALSE]
  /\ refCount' = refCount - 1
  /\ IF refCount = 1 /\ db = "open"
     THEN /\ db' = "nil"
          /\ handle' = [x \in Clients |->
                          IF handle[x] = "shared" THEN "closed" ELSE handle[x]]
     ELSE UNCHANGED <<db, handle>>
  /\ UNCHANGED tables

(* transaction, up to the release of sqc.lock; rawOpen may fail, in which  *)
(* case the call has no effect.                                            *)
BeginTransaction(c) ==
  /\ handle[c] = "none"
  /\ handle' = [handle EXCEPT ![c] = IF db # "nil" THEN "shared" ELSE "own"]
  /\ UNCHANGED <<tables, refCount, db, bracketed>>

EndTransaction(c) ==
  /\ handle[c] # "none"
  /\ handle' = [handle EXCEPT ![c] = "none"]
  /\ UNCHANGED <<refCount, db, bracketed>>

(* dbTransaction cannot begin on a closed handle, or fails later and is    *)
(* rolled back; the error is dropped by every Record* method.              *)
FailedTransaction(c) == EndTransaction(c) /\ UNCHANGED tables

Commit(c) == handle[c] # "closed" /\ EndTransaction(c)

-----------------------------------------------------------------------------
(* The Record* methods, from the start of the transaction to its commit    *)

RecordDigestUncompressedPair(c, anyDigest, uncompressed) ==
  /\ Commit(c)
  /\ DigestUncompressedPairs' =
       [DigestUncompressedPairs EXCEPT ![anyDigest] = uncompressed]
  /\ UNCHANGED <<DigestTOCUncompressedPairs, DigestCompressors,
                 DigestSpecificVariantCompressors, KnownLocations, clock>>

RecordTOCUncompressedPair(c, tocDigest, uncompressed) ==
  /\ Commit(c)
  /\ DigestTOCUncompressedPairs' =
       [DigestTOCUncompressedPairs EXCEPT ![tocDigest] = uncompressed]
  /\ UNCHANGED <<DigestUncompressedPairs, DigestCompressors,
                 DigestSpecificVariantCompressors, KnownLocations, clock>>

RecordKnownLocation(c, scope, digest, location) ==
  /\ Commit(c)
  /\ clock < MaxTime
  /\ clock' = clock + 1
  /\ KnownLocations' = [KnownLocations EXCEPT ![<<scope, digest>>][location] = clock + 1]
  /\ UNCHANGED <<DigestUncompressedPairs, DigestTOCUncompressedPairs,
                 DigestCompressors, DigestSpecificVariantCompressors>>

(* Mutation: both tables are always replaced.                              *)
RecordDigestCompressorDataReplacing(c, anyDigest, data) ==
  /\ Commit(c)
  /\ DigestCompressors' = [DigestCompressors EXCEPT ![anyDigest] = data.base]
  /\ DigestSpecificVariantCompressors' =
       [DigestSpecificVariantCompressors EXCEPT ![anyDigest] = data.specific]
  /\ UNCHANGED <<DigestUncompressedPairs, DigestTOCUncompressedPairs,
                 KnownLocations, clock>>

(* Two tables: an unknown base variant deletes from both, then a specific  *)
(* variant is written only if the data has one.                            *)
RecordDigestCompressorData(c, anyDigest, data) ==
  /\ Commit(c)
  /\ DigestCompressors' = [DigestCompressors EXCEPT ![anyDigest] = data.base]
  /\ DigestSpecificVariantCompressors' =
       [DigestSpecificVariantCompressors EXCEPT ![anyDigest] =
          CASE data.specific # UnknownCompression -> data.specific
            [] data.specific = UnknownCompression /\ data.base = UnknownCompression
                 -> UnknownCompression
            [] OTHER -> @]
  /\ UNCHANGED <<DigestUncompressedPairs, DigestTOCUncompressedPairs,
                 KnownLocations, clock>>

Record(c) ==
  \/ \E d \in Digests : RecordDigestUncompressedPair(c, d, TrueUncompressed[d])
  \/ \E t \in TOCs : RecordTOCUncompressedPair(c, t, TrueTOC[t])
  \/ \E s \in Scopes, d \in Digests, l \in Locations : RecordKnownLocation(c, s, d, l)
  \/ \E d \in Digests : \E data \in VerifiedCompressorData(d) :
       RecordDigestCompressorData(c, d, data)

Next == \E c \in Clients :
  Open(c) \/ Close(c) \/ BeginTransaction(c) \/ FailedTransaction(c) \/ Record(c)

Spec == Init /\ [][Next]_vars

-----------------------------------------------------------------------------
(* Lookups: SELECTs on the two columns of DigestUncompressedPairs, and the *)
(* LEFT JOIN of DigestCompressors with the specific variants.              *)

(* Mutation: the second SELECT is missing.                                 *)
uncompressedDigestForwardOnly(anyDigest) == DigestUncompressedPairs[anyDigest]

uncompressedDigest(anyDigest) ==
  IF DigestUncompressedPairs[anyDigest] # NoDigest
  THEN DigestUncompressedPairs[anyDigest]
  ELSE IF \E d \in Digests : DigestUncompressedPairs[d] = anyDigest THEN anyDigest
  ELSE NoDigest

compressorData(digest) ==
  IF DigestCompressors[digest] = UnknownCompression THEN NoCompressorData
  ELSE [base |-> DigestCompressors[digest],
        specific |-> DigestSpecificVariantCompressors[digest]]

candidateLocations(scope, primaryDigest, canSubstitute, v2Options) ==
  LET u == IF canSubstitute THEN uncompressedDigest(primaryDigest) ELSE NoDigest
      digests == {primaryDigest} \cup
        IF u = NoDigest THEN {}
        ELSE {u} \cup {d \in Digests : DigestUncompressedPairs[d] = u}
  IN DestructivelyPrioritizeReplacementCandidates(
       UNION {Candidates(v2Options, d,
                         IF v2Options.v2 THEN compressorData(d) ELSE NoCompressorData,
                         KnownLocations[<<scope, d>>]) : d \in digests},
       primaryDigest, u)

-----------------------------------------------------------------------------
(* Properties *)

Facts == INSTANCE BlobInfoCache WITH
  uncompressedOf <- DigestUncompressedPairs,
  tocOf <- DigestTOCUncompressedPairs,
  compressorOf <- [d \in Digests |-> compressorData(d)],
  seen <- KnownLocations,
  now <- clock

(* The database implements the interface's store of facts, whatever the    *)
(* clients do with the handle: a failed transaction is a stuttering step.  *)
ImplementsBlobInfoCache == Facts!Spec

(* The SQL lookups answer what the facts justify, in the same order and    *)
(* within the same limits.                                                 *)
LookupsAgree ==
  \A s \in Scopes, d \in Digests, sub, v2 \in BOOLEAN :
    LET opts == [NoOptions EXCEPT !.v2 = v2]
    IN candidateLocations(s, d, sub, opts) = Facts!CandidateLocations2(s, d, sub, opts)

(* No transaction of a client between its Open and its Close runs on a     *)
(* closed handle, whichever other clients open and close meanwhile: only   *)
(* an unbracketed call can lose what it records.                           *)
BracketedTransactionsKeepTheirHandle ==
  \A c \in Clients : bracketed[c] => handle[c] # "closed"

(* The reference count is the number of brackets in progress, and the      *)
(* shared handle does not outlive the last of them.                        *)
HandleIsReferenced ==
  /\ refCount = Cardinality({c \in Clients : bracketed[c]})
  /\ db = "open" => refCount > 0
  /\ \A c \in Clients : handle[c] = "shared" => db = "open"

(* The tables are well-formed and the lookups on them are right.           *)
TablesAgree == TypeOK /\ LookupsAgree

(* A handle is open exactly as long as somebody may use it.                *)
HandlesAreSafe == BracketedTransactionsKeepTheirHandle /\ HandleIsReferenced
==============================================================================
