---------------------------- MODULE BlobInfoCache ----------------------------
(***************************************************************************)
(* What every BlobInfoCache2 promises (internal/blobinfocache/types.go):   *)
(* a store of facts about blobs, written by the Record* calls and read by  *)
(* UncompressedDigest, UncompressedDigestForTOC and CandidateLocations[2]. *)
(* The implementations (memory, sqlite) are shown to implement it.         *)
(***************************************************************************)
EXTENDS BlobFacts

VARIABLES
  uncompressedOf,  \* [Digests -> Digests \cup {NoDigest}]
  tocOf,           \* [TOCs -> Digests \cup {NoDigest}]
  compressorOf,    \* [Digests -> DigestCompressorData]
  seen,            \* [Scopes \X Digests -> [Locations -> time, 0 if never]]
  now              \* time.Now(), assumed to grow between two calls

vars == <<uncompressedOf, tocOf, compressorOf, seen, now>>

TypeOK ==
  /\ uncompressedOf \in [Digests -> Digests \cup {NoDigest}]
  /\ tocOf \in [TOCs -> Digests \cup {NoDigest}]
  /\ compressorOf \in [Digests -> DigestCompressorData]
  /\ seen \in [Scopes \X Digests -> [Locations -> 0..MaxTime]]
  /\ now \in 0..MaxTime

Init ==
  /\ uncompressedOf = [d \in Digests |-> NoDigest]
  /\ tocOf = [t \in TOCs |-> NoDigest]
  /\ compressorOf = [d \in Digests |-> NoCompressorData]
  /\ seen = [k \in Scopes \X Digests |-> [l \in Locations |-> 0]]
  /\ now = 0

(* Recording without a specific variant keeps the one already known.       *)
Merged(previous, data) ==
  IF data.base = UnknownCompression THEN NoCompressorData
  ELSE IF data.specific = UnknownCompression
  THEN [data EXCEPT !.specific = previous.specific]
  ELSE data

RecordDigestUncompressedPair(d) ==
  /\ uncompressedOf' = [uncompressedOf EXCEPT ![d] = TrueUncompressed[d]]
  /\ UNCHANGED <<tocOf, compressorOf, seen, now>>

RecordTOCUncompressedPair(t) ==
  /\ tocOf' = [tocOf EXCEPT ![t] = TrueTOC[t]]
  /\ UNCHANGED <<uncompressedOf, compressorOf, seen, now>>

RecordDigestCompressorData(d, data) ==
  /\ compressorOf' = [compressorOf EXCEPT ![d] = Merged(@, data)]
  /\ UNCHANGED <<uncompressedOf, tocOf, seen, now>>

RecordKnownLocation(s, d, l) ==
  /\ now < MaxTime
  /\ now' = now + 1
  /\ seen' = [seen EXCEPT ![<<s, d>>][l] = now + 1]
  /\ UNCHANGED <<uncompressedOf, tocOf, compressorOf>>

Next ==
  \/ \E d \in Digests : RecordDigestUncompressedPair(d)
  \/ \E t \in TOCs : RecordTOCUncompressedPair(t)
  \/ \E d \in Digests : \E data \in VerifiedCompressorData(d) :
       RecordDigestCompressorData(d, data)
  \/ \E s \in Scopes, d \in Digests, l \in Locations : RecordKnownLocation(s, d, l)

Spec == Init /\ [][Next]_vars

-----------------------------------------------------------------------------
(* Lookups *)

(* A digest some other digest decompresses to is itself uncompressed.      *)
UncompressedDigest(d) ==
  IF uncompressedOf[d] # NoDigest THEN uncompressedOf[d]
  ELSE IF \E c \in Digests : uncompressedOf[c] = d THEN d
  ELSE NoDigest

(* Mutation: the uncompressed digests need not be equal.                   *)
CandidateDigestsAnyKnown(primary, canSubstitute) ==
  {primary} \cup {d \in Digests : canSubstitute /\ uncompressedOf[d] # NoDigest}

(* The digests candidateLocations considers for the primary digest.        *)
CandidateDigests(primary, canSubstitute) ==
  LET u == UncompressedDigest(primary)
  IN IF canSubstitute /\ u # NoDigest
     THEN {primary, u} \cup {d \in Digests : uncompressedOf[d] = u}
     ELSE {primary}

CandidateLocations2(s, primary, canSubstitute, opts) ==
  DestructivelyPrioritizeReplacementCandidates(
    UNION {Candidates(opts, d, compressorOf[d], seen[<<s, d>>]) :
             d \in CandidateDigests(primary, canSubstitute)},
    primary,
    IF canSubstitute THEN UncompressedDigest(primary) ELSE NoDigest)

-----------------------------------------------------------------------------
(* Properties *)

(* A blob offered as a substitute for another one always decompresses to   *)
(* the same content: no sequence of Record* calls lets candidateLocations  *)
(* (the "could be poisoned" warnings on RecordDigestUncompressedPair)      *)
(* reach a digest with a different uncompressed digest.                    *)
SubstitutesHaveEqualContent ==
  \A p \in Digests, sub \in BOOLEAN : \A d \in CandidateDigests(p, sub) :
    TrueUncompressed[d] = TrueUncompressed[p]

(* Substitutability is symmetric: when a blob is offered in place of       *)
(* another one, the other is offered in its place as well.                 *)
SubstitutionIsSymmetric ==
  \A p, q \in Digests :
    q \in CandidateDigests(p, TRUE) => p \in CandidateDigests(q, TRUE)

(* A candidate of CandidateLocations2 carries an algorithm that the blob   *)
(* really has: its specific variant or its base variant when the blob is   *)
(* compressed, none when it is not, so that manifest edits made for a      *)
(* reused blob are right whatever was recorded, erased and re-recorded.    *)
CandidateAlgorithmIsTrue ==
  \A s \in Scopes, p \in Digests, req \in {NoAlgorithm, "gzip", "zstd"} :
    LET opts == [v2 |-> TRUE, formats |-> AnyFormat, required |-> req]
        res == CandidateLocations2(s, p, TRUE, opts)
    IN \A i \in 1..Len(res) :
         LET truth == TrueCompressor[res[i].digest]
         IN IF truth.base = Uncompressed
            THEN res[i].algorithm = NoAlgorithm /\ req = NoAlgorithm
            ELSE /\ res[i].algorithm \in {truth.base, truth.specific} \ {UnknownCompression}
                 /\ req \in {NoAlgorithm, res[i].algorithm, BaseVariantName(res[i].algorithm)}

(* Which candidates survive the limits: the primary digest comes first, in *)
(* its most recent location; a known location is dropped only when the     *)
(* limit is used up by other known locations, and not by those of the      *)
(* uncompressed blob, which is the last resort.                            *)
LimitsKeepTheBest ==
  \A s \in Scopes, p \in Digests, v2 \in BOOLEAN :
    LET res == CandidateLocations2(s, p, TRUE, [NoOptions EXCEPT !.v2 = v2])
        u == UncompressedDigest(p)
        Known(d) == {l \in Locations : /\ seen[<<s, d>>][l] > 0
                                       /\ v2 => compressorOf[d].base # UnknownCompression}
    IN /\ Known(p) # {} =>
            /\ res # <<>> /\ res[1].digest = p /\ res[1].location \in Known(p)
            /\ \A l \in Known(p) : seen[<<s, p>>][l] <= seen[<<s, p>>][res[1].location]
       /\ \A d \in CandidateDigests(p, TRUE) : \A l \in Known(d) :
            \/ \E i \in 1..Len(res) : res[i].digest = d /\ res[i].location = l
            \/ /\ Len(res) = ReplacementAttempts
               /\ \A i \in 1..Len(res) : /\ res[i].location # UnknownLocation
                                         /\ res[i].digest = u => u \in {d, p}

(* Knowledge about content only grows: what UncompressedDigest answered    *)
(* once it answers for ever (a caller such as copyLayer keeps the cached   *)
(* diffID across the whole copy of the layer).                             *)
UncompressedDigestIsStable ==
  [][\A d \in Digests : UncompressedDigest(d) # NoDigest =>
       UncompressedDigest(d)' = UncompressedDigest(d)]_vars

(* What callers may rely on of substitution: equal content, both ways.     *)
SubstitutionIsSound == TypeOK /\ SubstitutesHaveEqualContent /\ SubstitutionIsSymmetric

(* What they may rely on of the candidates: true algorithms, the best ones *)
(* within the limits.                                                      *)
CandidatesAreTheBest == CandidateAlgorithmIsTrue /\ LimitsKeepTheBest
==============================================================================
