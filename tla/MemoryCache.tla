----------------------------- MODULE MemoryCache -----------------------------
(***************************************************************************)
(* pkg/blobinfocache/memory/memory.go.  Every method holds mem.mutex from  *)
(* its first to its last statement, so each is one step.  A map without a  *)
(* key is a function whose value there is NoDigest, {} or NoCompressorData.*)
(***************************************************************************)
EXTENDS BlobFacts

VARIABLES
  uncompressedDigests,       \* digest -> uncompressed digest
  uncompressedDigestsByTOC,  \* TOC digest -> uncompressed digest
  digestsByUncompressed,     \* uncompressed digest -> set of digests
  knownLocations,            \* (transport, scope, digest) -> location -> time
  compressors,               \* digest -> DigestCompressorData
  clock                      \* time.Now()

vars == <<uncompressedDigests, uncompressedDigestsByTOC, digestsByUncompressed,
          knownLocations, compressors, clock>>

TypeOK ==
  /\ uncompressedDigests \in [Digests -> Digests \cup {NoDigest}]
  /\ uncompressedDigestsByTOC \in [TOCs -> Digests \cup {NoDigest}]
  /\ digestsByUncompressed \in [Digests -> SUBSET Digests]
  /\ knownLocations \in [Scopes \X Digests -> [Locations -> 0..MaxTime]]
  /\ compressors \in [Digests -> DigestCompressorData]
  /\ clock \in 0..MaxTime

(* new2 *)
Init ==
  /\ uncompressedDigests = [d \in Digests |-> NoDigest]
  /\ uncompressedDigestsByTOC = [t \in TOCs |-> NoDigest]
  /\ digestsByUncompressed = [d \in Digests |-> {}]
  /\ knownLocations = [k \in Scopes \X Digests |-> [l \in Locations |-> 0]]
  /\ compressors = [d \in Digests |-> NoCompressorData]
  /\ clock = 0

(* Mutation: a digest is added to the reverse index only with a new set.   *)
RecordDigestUncompressedPairFirstOnly(anyDigest, uncompressed) ==
  /\ uncompressedDigests' = [uncompressedDigests EXCEPT ![anyDigest] = uncompressed]
  /\ digestsByUncompressed' = [digestsByUncompressed EXCEPT ![uncompressed] =
                                 IF @ = {} THEN {anyDigest} ELSE @]
  /\ UNCHANGED <<uncompressedDigestsByTOC, knownLocations, compressors, clock>>

RecordDigestUncompressedPair(anyDigest, uncompressed) ==
  /\ uncompressedDigests' = [uncompressedDigests EXCEPT ![anyDigest] = uncompressed]
  /\ digestsByUncompressed' =
       [digestsByUncompressed EXCEPT ![uncompressed] = @ \cup {anyDigest}]
  /\ UNCHANGED <<uncompressedDigestsByTOC, knownLocations, compressors, clock>>

RecordTOCUncompressedPair(tocDigest, uncompressed) ==
  /\ uncompressedDigestsByTOC' =
       [uncompressedDigestsByTOC EXCEPT ![tocDigest] = uncompressed]
  /\ UNCHANGED <<uncompressedDigests, digestsByUncompressed, knownLocations,
                 compressors, clock>>

RecordKnownLocation(scope, blobDigest, location) ==
  /\ clock < MaxTime
  /\ clock' = clock + 1
  /\ knownLocations' = [knownLocations EXCEPT ![<<scope, blobDigest>>][location] = clock + 1]
  /\ UNCHANGED <<uncompressedDigests, uncompressedDigestsByTOC,
                 digestsByUncompressed, compressors>>

(* Mutation: nothing is preserved.                                         *)
PreservingNothing(previous, data) == data

(* The record kept: specific-variant information survives a call that does *)
(* not have it, a call with unknown compression deletes the record.        *)
PreservingSpecificVariant(previous, data) ==
  IF /\ data.base # UnknownCompression
     /\ data.specific = UnknownCompression
     /\ previous.specific # UnknownCompression
  THEN [data EXCEPT !.specific = previous.specific]
  ELSE data

RecordDigestCompressorData(anyDigest, data) ==
  /\ compressors' = [compressors EXCEPT ![anyDigest] =
       IF data.base = UnknownCompression THEN NoCompressorData
       ELSE PreservingSpecificVariant(@, data)]
  /\ UNCHANGED <<uncompressedDigests, uncompressedDigestsByTOC,
                 digestsByUncompressed, knownLocations, clock>>

Next ==
  \/ \E d \in Digests : RecordDigestUncompressedPair(d, TrueUncompressed[d])
  \/ \E t \in TOCs : RecordTOCUncompressedPair(t, TrueTOC[t])
  \/ \E s \in Scopes, d \in Digests, l \in Locations : RecordKnownLocation(s, d, l)
  \/ \E d \in Digests : \E data \in VerifiedCompressorData(d) :
       RecordDigestCompressorData(d, data)

Spec == Init /\ [][Next]_vars

-----------------------------------------------------------------------------
(* Lookups *)

uncompressedDigestLocked(anyDigest) ==
  IF uncompressedDigests[anyDigest] # NoDigest THEN uncompressedDigests[anyDigest]
  ELSE IF digestsByUncompressed[anyDigest] # {} THEN anyDigest
  ELSE NoDigest

candidateDigests(primaryDigest, canSubstitute) ==
  LET u == uncompressedDigestLocked(primaryDigest)
  IN {primaryDigest} \cup (IF canSubstitute /\ u # NoDigest
                           THEN digestsByUncompressed[u] \cup {u}
                           ELSE {})

candidateLocations(scope, primaryDigest, canSubstitute, v2Options) ==
  DestructivelyPrioritizeReplacementCandidates(
    UNION {Candidates(v2Options, d, compressors[d], knownLocations[<<scope, d>>]) :
             d \in candidateDigests(primaryDigest, canSubstitute)},
    primaryDigest,
    IF canSubstitute THEN uncompressedDigestLocked(primaryDigest) ELSE NoDigest)

-----------------------------------------------------------------------------
(* Properties *)

(* The cache as a store of facts: the reverse index                        *)
(* digestsByUncompressed is not part of it.                                *)
Facts == INSTANCE BlobInfoCache WITH
  uncompressedOf <- uncompressedDigests,
  tocOf <- uncompressedDigestsByTOC,
  compressorOf <- compressors,
  seen <- knownLocations,
  now <- clock

(* The memory cache implements the interface's store of facts.             *)
ImplementsBlobInfoCache == Facts!Spec

(* The reverse index and the forward map agree, in both directions: a      *)
(* digest is listed under exactly the uncompressed digest recorded for it. *)
IndexAgrees ==
  \A d, u \in Digests : d \in digestsByUncompressed[u] <=> uncompressedDigests[d] = u

(* Lookups through the reverse index (uncompressedDigestLocked and         *)
(* candidateLocations) answer what the facts alone justify: no digest is   *)
(* offered that the facts do not support and none they support is missed.  *)
LookupsAgree ==
  \A d \in Digests :
    /\ uncompressedDigestLocked(d) = Facts!UncompressedDigest(d)
    /\ \A sub \in BOOLEAN :
         candidateDigests(d, sub) = Facts!CandidateDigests(d, sub)

(* What callers may rely on of the abstract cache holds of the maps:       *)
(* CandidateLocations2 substitutes only blobs of equal content, and        *)
(* substitution works both ways.                                           *)
SubstitutionIsSound == Facts!SubstitutionIsSound

(* The candidates it returns are the best ones within the limits of        *)
(* destructivelyPrioritizeReplacementCandidatesWithMax, and what it says   *)
(* of their compression is true.                                           *)
CandidatesAreTheBest == Facts!CandidatesAreTheBest

(* The maps of the cache agree with each other and with the facts.         *)
MapsAgree == TypeOK /\ IndexAgrees /\ LookupsAgree
==============================================================================
