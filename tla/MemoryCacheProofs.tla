-------------------------- MODULE MemoryCacheProofs --------------------------
(***************************************************************************)
(* Proofs that the memory cache keeps its two maps in agreement and        *)
(* implements the abstract blob info cache, and proofs about the abstract  *)
(* cache itself.                                                           *)
(***************************************************************************)
EXTENDS MemoryCache, TLAPS

(* Whatever a caller can have verified is a well-formed record.            *)
LEMMA VerifiedIsTyped ==
  \A d \in Digests : VerifiedCompressorData(d) \subseteq DigestCompressorData
<1> SUFFICES ASSUME NEW d \in Digests,
                    NEW data \in VerifiedCompressorData(d)
             PROVE  data \in DigestCompressorData
  OBVIOUS
<1>1. TrueCompressor[d] \in DigestCompressorData
  BY TruthAssumption
<1>2. NoCompressorData \in DigestCompressorData
  BY DEF NoCompressorData, DigestCompressorData
<1>3. [TrueCompressor[d] EXCEPT !.specific = UnknownCompression] \in DigestCompressorData
  BY <1>1 DEF DigestCompressorData
<1> QED
  BY <1>1, <1>2, <1>3 DEF VerifiedCompressorData

(* The record kept by RecordDigestCompressorData is well-formed.           *)
LEMMA PreservingIsTyped ==
  ASSUME NEW previous \in DigestCompressorData, NEW data \in DigestCompressorData
  PROVE  PreservingSpecificVariant(previous, data) \in DigestCompressorData
<1>1. [data EXCEPT !.specific = previous.specific] \in DigestCompressorData
  BY DEF DigestCompressorData
<1> QED
  BY <1>1 DEF PreservingSpecificVariant

(* The constants of the abstract cache are those of this module.           *)
LEMMA SameConstants ==
  /\ Facts!NoDigest = NoDigest
  /\ Facts!UnknownCompression = UnknownCompression
  /\ Facts!NoCompressorData = NoCompressorData
  /\ \A d \in Digests : Facts!VerifiedCompressorData(d) = VerifiedCompressorData(d)
<1>1. Facts!NoDigest = NoDigest
  BY DEF NoDigest, Facts!NoDigest
<1>2. Facts!UnknownCompression = UnknownCompression
  BY DEF UnknownCompression, Facts!UnknownCompression
<1>3. Facts!NoCompressorData = NoCompressorData
  BY <1>2 DEF NoCompressorData, Facts!NoCompressorData
<1>4. \A d \in Digests : Facts!VerifiedCompressorData(d) = VerifiedCompressorData(d)
  BY <1>2, <1>3 DEF VerifiedCompressorData, Facts!VerifiedCompressorData
<1> QED
  BY <1>1, <1>2, <1>3, <1>4

(* The maps of the memory cache always hold values of the right kind.      *)
THEOREM TypeCorrect == Spec => []TypeOK
<1>1. Init => TypeOK
  BY TimeAssumption DEF Init, TypeOK, NoCompressorData, DigestCompressorData
<1>2. TypeOK /\ [Next]_vars => TypeOK'
  <2> SUFFICES ASSUME TypeOK, [Next]_vars PROVE TypeOK'
    OBVIOUS
  <2> USE DEF TypeOK
  <2>1. ASSUME NEW d \in Digests, RecordDigestUncompressedPair(d, TrueUncompressed[d])
        PROVE  TypeOK'
    <3>1. TrueUncompressed[d] \in Digests
      BY TruthAssumption
    <3>2. digestsByUncompressed[TrueUncompressed[d]] \cup {d} \in SUBSET Digests
      BY <3>1
    <3> QED
      BY <2>1, <3>1, <3>2 DEF RecordDigestUncompressedPair
  <2>2. ASSUME NEW t \in TOCs, RecordTOCUncompressedPair(t, TrueTOC[t]) PROVE TypeOK'
    BY <2>2, TruthAssumption DEF RecordTOCUncompressedPair
  <2>3. ASSUME NEW d \in Digests, NEW data \in VerifiedCompressorData(d),
               RecordDigestCompressorData(d, data)
        PROVE  TypeOK'
    <3>1. PreservingSpecificVariant(compressors[d], data) \in DigestCompressorData
      BY <2>3, VerifiedIsTyped, PreservingIsTyped
    <3>2. NoCompressorData \in DigestCompressorData
      BY DEF NoCompressorData, DigestCompressorData
    <3> QED
      BY <2>3, <3>1, <3>2 DEF RecordDigestCompressorData
  <2>4. ASSUME NEW s \in Scopes, NEW d \in Digests, NEW l \in Locations,
               RecordKnownLocation(s, d, l)
        PROVE  TypeOK'
    <3>1. clock + 1 \in 0..MaxTime
      BY <2>4, TimeAssumption DEF RecordKnownLocation
    <3>2. knownLocations[<<s, d>>] \in [Locations -> 0..MaxTime]
      OBVIOUS
    <3>3. [knownLocations[<<s, d>>] EXCEPT ![l] = clock + 1] \in [Locations -> 0..MaxTime]
      BY <3>1, <3>2
    <3> QED
      BY <2>4, <3>1, <3>3 DEF RecordKnownLocation
  <2>5. CASE UNCHANGED vars
    BY <2>5 DEF vars
  <2> QED
    BY <2>1, <2>2, <2>3, <2>4, <2>5 DEF Next
<1> QED
  BY <1>1, <1>2, PTL DEF Spec

-----------------------------------------------------------------------------
(* IndexAgrees alone is not inductive: a digest recorded again, with other *)
(* content, would stay listed under its first uncompressed digest.  With   *)
(* true pairs, a digest is recorded with one uncompressed digest only.     *)
PairsAreTrue ==
  \A d \in Digests : uncompressedDigests[d] \in {NoDigest, TrueUncompressed[d]}

IndexInvariant == PairsAreTrue /\ IndexAgrees

(* The inductive invariant of the index holds in every reachable state.    *)
LEMMA IndexInvariantHolds == Spec => []IndexInvariant
<1>1. Init => IndexInvariant
  <2> SUFFICES ASSUME Init PROVE IndexInvariant
    OBVIOUS
  <2>1. PairsAreTrue
    BY DEF Init, PairsAreTrue
  <2>2. IndexAgrees
    BY DigestsAssumption DEF Init, IndexAgrees, NoDigest
  <2> QED
    BY <2>1, <2>2 DEF IndexInvariant
<1>2. TypeOK /\ IndexInvariant /\ [Next]_vars => IndexInvariant'
  <2> SUFFICES ASSUME TypeOK, IndexInvariant, [Next]_vars PROVE IndexInvariant'
    OBVIOUS
  <2>1. ASSUME NEW d \in Digests, RecordDigestUncompressedPair(d, TrueUncompressed[d])
        PROVE  IndexInvariant'
    <3>1. TrueUncompressed[d] \in Digests
      BY TruthAssumption
    <3>2. PairsAreTrue'
      BY <2>1 DEF RecordDigestUncompressedPair, TypeOK, IndexInvariant, PairsAreTrue
    <3>3. ASSUME NEW e \in Digests, NEW u \in Digests
          PROVE  e \in digestsByUncompressed'[u] <=> uncompressedDigests'[e] = u
      <4>1. e \in digestsByUncompressed[u] <=> uncompressedDigests[e] = u
        BY DEF IndexInvariant, IndexAgrees
      <4>2. CASE e # d
        BY <2>1, <3>1, <4>1, <4>2 DEF RecordDigestUncompressedPair, TypeOK
      <4>3. CASE e = d
        <5>1. uncompressedDigests[d] = u => u = TrueUncompressed[d]
          BY DigestsAssumption DEF IndexInvariant, PairsAreTrue, NoDigest
        <5> QED
          BY <2>1, <3>1, <4>1, <4>3, <5>1 DEF RecordDigestUncompressedPair, TypeOK
      <4> QED
        BY <4>2, <4>3
    <3> QED
      BY <3>2, <3>3 DEF IndexInvariant, IndexAgrees
  <2>2. CASE UNCHANGED <<uncompressedDigests, digestsByUncompressed>>
    BY <2>2 DEF IndexInvariant, PairsAreTrue, IndexAgrees
  <2> QED
    BY <2>1, <2>2 DEF Next, vars, RecordTOCUncompressedPair,
                      RecordDigestCompressorData, RecordKnownLocation
<1> QED
  BY <1>1, <1>2, TypeCorrect, PTL DEF Spec

(* The reverse index digestsByUncompressed lists a digest under exactly    *)
(* the uncompressed digest recorded for it.                                *)
THEOREM IndexCorrect == Spec => []IndexAgrees
BY IndexInvariantHolds, PTL DEF IndexInvariant

(* Lookups through the reverse index (uncompressedDigestLocked,            *)
(* candidateLocations) answer exactly what the recorded facts justify.     *)
THEOREM LookupsCorrect == Spec => []LookupsAgree
<1>1. TypeOK /\ IndexAgrees => LookupsAgree
  <2> SUFFICES ASSUME TypeOK, IndexAgrees, NEW d \in Digests, NEW sub \in BOOLEAN
               PROVE  /\ uncompressedDigestLocked(d) = Facts!UncompressedDigest(d)
                      /\ candidateDigests(d, sub) = Facts!CandidateDigests(d, sub)
    BY DEF LookupsAgree
  <2>1. digestsByUncompressed[d] # {} <=> \E c \in Digests : uncompressedDigests[c] = d
    BY DEF TypeOK, IndexAgrees
  <2>2. uncompressedDigestLocked(d) = Facts!UncompressedDigest(d)
    BY <2>1, SameConstants DEF uncompressedDigestLocked, Facts!UncompressedDigest
  <2> DEFINE u == uncompressedDigestLocked(d)
  <2>3. u # NoDigest => u \in Digests
    BY DEF uncompressedDigestLocked, TypeOK
  <2>4. u # NoDigest =>
          digestsByUncompressed[u] = {c \in Digests : uncompressedDigests[c] = u}
    BY <2>3 DEF TypeOK, IndexAgrees
  <2>5. candidateDigests(d, sub) = Facts!CandidateDigests(d, sub)
    BY <2>2, <2>4, SameConstants DEF candidateDigests, Facts!CandidateDigests
  <2> QED
    BY <2>2, <2>5
<1> QED
  BY <1>1, TypeCorrect, IndexCorrect, PTL

-----------------------------------------------------------------------------
(* Every behaviour of the memory cache is one of the abstract cache: each  *)
(* method changes the facts as the interface promises.                     *)
THEOREM MemoryCacheRefines == Spec => ImplementsBlobInfoCache
<1>1. Init => Facts!Init
  BY SameConstants DEF Init, Facts!Init
<1>2. TypeOK /\ [Next]_vars => [Facts!Next]_(Facts!vars)
  <2> SUFFICES ASSUME TypeOK, [Next]_vars PROVE [Facts!Next]_(Facts!vars)
    OBVIOUS
  <2>1. ASSUME NEW d \in Digests, RecordDigestUncompressedPair(d, TrueUncompressed[d])
        PROVE  Facts!Next
    BY <2>1 DEF RecordDigestUncompressedPair, Facts!Next, Facts!RecordDigestUncompressedPair
  <2>2. ASSUME NEW t \in TOCs, RecordTOCUncompressedPair(t, TrueTOC[t])
        PROVE  Facts!Next
    BY <2>2 DEF RecordTOCUncompressedPair, Facts!Next, Facts!RecordTOCUncompressedPair
  <2>3. ASSUME NEW d \in Digests, NEW data \in VerifiedCompressorData(d),
               RecordDigestCompressorData(d, data)
        PROVE  Facts!Next
    <3>1. data \in DigestCompressorData /\ compressors[d] \in DigestCompressorData
      BY <2>3, VerifiedIsTyped DEF TypeOK
    <3>2. (IF data.base = UnknownCompression THEN NoCompressorData
           ELSE PreservingSpecificVariant(compressors[d], data))
          = Facts!Merged(compressors[d], data)
      BY <3>1, SameConstants DEF PreservingSpecificVariant, Facts!Merged, DigestCompressorData
    <3>3. Facts!RecordDigestCompressorData(d, data)
      BY <2>3, <3>2 DEF RecordDigestCompressorData, Facts!RecordDigestCompressorData
    <3> QED
      BY <3>3, SameConstants DEF Facts!Next
  <2>4. ASSUME NEW s \in Scopes, NEW d \in Digests, NEW l \in Locations,
               RecordKnownLocation(s, d, l)
        PROVE  Facts!Next
    BY <2>4 DEF RecordKnownLocation, Facts!Next, Facts!RecordKnownLocation
  <2>5. CASE UNCHANGED vars
    BY <2>5 DEF vars, Facts!vars
  <2> QED
    BY <2>1, <2>2, <2>3, <2>4, <2>5 DEF Next
<1> QED
  BY <1>1, <1>2, TypeCorrect, PTL DEF Spec, ImplementsBlobInfoCache, Facts!Spec

(* The maps of memory.go stay consistent with each other and answer every  *)
(* lookup as the abstract cache does.                                      *)
THEOREM MapsCorrect == Spec => []MapsAgree
BY TypeCorrect, IndexCorrect, LookupsCorrect, PTL DEF MapsAgree

-----------------------------------------------------------------------------
(* The uncompressed digest the cache answers is the true one.              *)
LEMMA AnswerIsTrue ==
  ASSUME PairsAreTrue, NEW d \in Digests, Facts!UncompressedDigest(d) # NoDigest
  PROVE  Facts!UncompressedDigest(d) = TrueUncompressed[d]
<1>1. CASE uncompressedDigests[d] # NoDigest
  BY <1>1, SameConstants DEF Facts!UncompressedDigest, PairsAreTrue
<1>2. CASE uncompressedDigests[d] = NoDigest
  <2>1. PICK c \in Digests : uncompressedDigests[c] = d
    BY <1>2, SameConstants DEF Facts!UncompressedDigest
  <2>2. d # NoDigest
    BY DigestsAssumption DEF NoDigest
  <2>3. d = TrueUncompressed[c]
    BY <2>1, <2>2 DEF PairsAreTrue
  <2>4. TrueUncompressed[d] = d
    BY <2>3, TruthAssumption
  <2>5. Facts!UncompressedDigest(d) = d
    BY <1>2, <2>1, SameConstants DEF Facts!UncompressedDigest
  <2> QED
    BY <2>4, <2>5
<1> QED
  BY <1>1, <1>2

(* A digest other than the primary one is offered only if it has the       *)
(* primary digest's true uncompressed digest, known for both.              *)
LEMMA OffersShareContent ==
  ASSUME PairsAreTrue, NEW p \in Digests, NEW sub \in BOOLEAN,
         NEW q \in Facts!CandidateDigests(p, sub), q # p
  PROVE  /\ q \in Digests /\ TrueUncompressed[q] = TrueUncompressed[p]
         /\ Facts!UncompressedDigest(p) = TrueUncompressed[p]
         /\ q = TrueUncompressed[p] \/ uncompressedDigests[q] = TrueUncompressed[p]
<1> DEFINE u == Facts!UncompressedDigest(p)
<1>1. u # NoDigest /\ (q = u \/ (q \in Digests /\ uncompressedDigests[q] = u))
  BY SameConstants DEF Facts!CandidateDigests
<1>2. u = TrueUncompressed[p] /\ u \in Digests /\ TrueUncompressed[u] = u
  BY <1>1, AnswerIsTrue, TruthAssumption
<1>3. CASE q = u
  BY <1>2, <1>3
<1>4. CASE q \in Digests /\ uncompressedDigests[q] = u
  BY <1>1, <1>2, <1>4 DEF PairsAreTrue
<1> QED
  BY <1>1, <1>3, <1>4

(* The blobs candidateLocations offers for another one have its content,   *)
(* and the other is offered in their place, for every history of Record*   *)
(* calls on the in-memory cache.                                           *)
THEOREM SubstitutionCorrect == Spec => []SubstitutionIsSound
<1>1. TypeOK => Facts!TypeOK
  BY DEF TypeOK, Facts!TypeOK, NoDigest, Facts!NoDigest, DigestCompressorData,
         Facts!DigestCompressorData, Algorithms, Facts!Algorithms, Uncompressed,
         Facts!Uncompressed, UnknownCompression, Facts!UnknownCompression
<1>2. PairsAreTrue => Facts!SubstitutesHaveEqualContent
  <2> SUFFICES ASSUME PairsAreTrue, NEW p \in Digests, NEW sub \in BOOLEAN,
                      NEW q \in Facts!CandidateDigests(p, sub)
               PROVE  TrueUncompressed[q] = TrueUncompressed[p]
    BY DEF Facts!SubstitutesHaveEqualContent
  <2> QED
    BY OffersShareContent
<1>3. PairsAreTrue => Facts!SubstitutionIsSymmetric
  <2> SUFFICES ASSUME PairsAreTrue, NEW p \in Digests, NEW q \in Digests,
                      q \in Facts!CandidateDigests(p, TRUE), q # p
               PROVE  p \in Facts!CandidateDigests(q, TRUE)
    <3>1. \A p \in Digests : p \in Facts!CandidateDigests(p, TRUE)
      BY DEF Facts!CandidateDigests
    <3> QED
      BY <3>1 DEF Facts!SubstitutionIsSymmetric
  <2> DEFINE u == TrueUncompressed[p]
  <2>1. /\ Facts!UncompressedDigest(p) = u /\ TrueUncompressed[q] = u
        /\ q = u \/ uncompressedDigests[q] = u
    BY OffersShareContent
  <2>2. u \in Digests /\ u # NoDigest
    BY TruthAssumption, DigestsAssumption DEF NoDigest
  <2>3. p = u \/ uncompressedDigests[p] = u
    BY <2>1, <2>2, SameConstants DEF Facts!UncompressedDigest
  <2>4. Facts!UncompressedDigest(q) = u
    <3>1. CASE uncompressedDigests[q] = u
      BY <2>2, <3>1, SameConstants DEF Facts!UncompressedDigest
    <3>2. CASE q = u
      <4>1. \E c \in Digests : uncompressedDigests[c] = u
        BY <2>3, <3>2
      <4>2. uncompressedDigests[u] \in {NoDigest, u}
        BY <2>1, <2>2, <3>2 DEF PairsAreTrue
      <4> QED
        BY <3>2, <4>1, <4>2, SameConstants DEF Facts!UncompressedDigest
    <3> QED
      BY <2>1, <3>1, <3>2
  <2> QED
    BY <2>2, <2>3, <2>4, SameConstants DEF Facts!CandidateDigests
<1>4. TypeOK /\ PairsAreTrue => SubstitutionIsSound
  BY <1>1, <1>2, <1>3 DEF SubstitutionIsSound, Facts!SubstitutionIsSound
<1> QED
  BY <1>4, TypeCorrect, IndexInvariantHolds, PTL DEF IndexInvariant

-----------------------------------------------------------------------------
(* The abstract blob info cache itself, in variables of its own: what      *)
(* holds of every implementation's facts.                                  *)
VARIABLES anyUncompressed, anyTOCs, anyCompressors, anySeen, anyNow

Contract == INSTANCE BlobInfoCache WITH
  uncompressedOf <- anyUncompressed, tocOf <- anyTOCs, compressorOf <- anyCompressors,
  seen <- anySeen, now <- anyNow

(* Its constants are those of this module.                                 *)
LEMMA ContractConstants ==
  /\ Contract!NoDigest = NoDigest
  /\ Contract!NoCompressorData = NoCompressorData
  /\ Contract!DigestCompressorData = DigestCompressorData
  /\ \A d \in Digests : Contract!VerifiedCompressorData(d) = VerifiedCompressorData(d)
<1>1. Contract!NoDigest = NoDigest /\ Contract!UnknownCompression = UnknownCompression
      /\ Contract!Uncompressed = Uncompressed /\ Contract!Algorithms = Algorithms
  BY DEF NoDigest, Contract!NoDigest, UnknownCompression, Contract!UnknownCompression, Uncompressed, Contract!Uncompressed,
         Algorithms, Contract!Algorithms
<1>2. Contract!NoCompressorData = NoCompressorData /\ Contract!DigestCompressorData = DigestCompressorData
  BY <1>1 DEF NoCompressorData, Contract!NoCompressorData, DigestCompressorData, Contract!DigestCompressorData
<1>3. \A d \in Digests : Contract!VerifiedCompressorData(d) = VerifiedCompressorData(d)
  BY <1>1, <1>2 DEF VerifiedCompressorData, Contract!VerifiedCompressorData
<1> QED BY <1>1, <1>2, <1>3

(* Merging a record with the one known before keeps it well-formed.        *)
LEMMA ContractMergedIsTyped ==
  ASSUME NEW previous \in Contract!DigestCompressorData, NEW data \in Contract!DigestCompressorData
  PROVE  Contract!Merged(previous, data) \in Contract!DigestCompressorData
<1>1. Contract!NoCompressorData \in Contract!DigestCompressorData
  BY DEF Contract!NoCompressorData, Contract!DigestCompressorData
<1>2. [data EXCEPT !.specific = previous.specific] \in Contract!DigestCompressorData
  BY DEF Contract!DigestCompressorData
<1> QED
  BY <1>1, <1>2 DEF Contract!Merged

(* The cache's maps always hold digests, compressor records and times of   *)
(* the right kind, after any sequence of Record* calls.                    *)
THEOREM ContractTypeCorrect == Contract!Spec => []Contract!TypeOK
<1>1. Contract!Init => Contract!TypeOK
  BY TimeAssumption DEF Contract!Init, Contract!TypeOK, Contract!NoCompressorData, Contract!DigestCompressorData
<1>2. Contract!TypeOK /\ [Contract!Next]_Contract!vars => Contract!TypeOK'
  <2> SUFFICES ASSUME Contract!TypeOK, [Contract!Next]_Contract!vars PROVE Contract!TypeOK'
    OBVIOUS
  <2> USE DEF Contract!TypeOK
  <2>1. ASSUME NEW d \in Digests, Contract!RecordDigestUncompressedPair(d) PROVE Contract!TypeOK'
    BY <2>1, TruthAssumption DEF Contract!RecordDigestUncompressedPair
  <2>2. ASSUME NEW t \in TOCs, Contract!RecordTOCUncompressedPair(t) PROVE Contract!TypeOK'
    BY <2>2, TruthAssumption DEF Contract!RecordTOCUncompressedPair
  <2>3. ASSUME NEW d \in Digests, NEW data \in Contract!VerifiedCompressorData(d),
               Contract!RecordDigestCompressorData(d, data)
        PROVE  Contract!TypeOK'
    <3>1. Contract!Merged(anyCompressors[d], data) \in Contract!DigestCompressorData
      BY <2>3, ContractConstants, VerifiedIsTyped, ContractMergedIsTyped
    <3> QED
      BY <2>3, <3>1 DEF Contract!RecordDigestCompressorData
  <2>4. ASSUME NEW s \in Scopes, NEW d \in Digests, NEW l \in Locations,
               Contract!RecordKnownLocation(s, d, l)
        PROVE  Contract!TypeOK'
    <3>1. anyNow + 1 \in 0..MaxTime
      BY <2>4, TimeAssumption DEF Contract!RecordKnownLocation
    <3>2. anySeen[<<s, d>>] \in [Locations -> 0..MaxTime]
      OBVIOUS
    <3>3. [anySeen[<<s, d>>] EXCEPT ![l] = anyNow + 1] \in [Locations -> 0..MaxTime]
      BY <3>1, <3>2
    <3> QED
      BY <2>4, <3>1, <3>3 DEF Contract!RecordKnownLocation
  <2>5. CASE UNCHANGED Contract!vars
    BY <2>5 DEF Contract!vars
  <2> QED
    BY <2>1, <2>2, <2>3, <2>4, <2>5 DEF Contract!Next
<1> QED
  BY <1>1, <1>2, PTL DEF Contract!Spec

-----------------------------------------------------------------------------
(* Every pair the cache holds is a true one.  This is what makes the       *)
(* lookups right; it is inductive because the callers only record verified *)
(* pairs.                                                                  *)
ContractPairsAreTrue ==
  \A d \in Digests : anyUncompressed[d] \in {Contract!NoDigest, TrueUncompressed[d]}

(* Every pair a cache of facts holds is true of the blobs it names: the    *)
(* invariant the theorems below rest on.                                   *)
LEMMA PairsStayTrue == Contract!Spec => []ContractPairsAreTrue
<1>1. Contract!Init => ContractPairsAreTrue
  BY DEF Contract!Init, ContractPairsAreTrue
<1>2. Contract!TypeOK /\ ContractPairsAreTrue /\ [Contract!Next]_Contract!vars => ContractPairsAreTrue'
  <2> SUFFICES ASSUME Contract!TypeOK, ContractPairsAreTrue, [Contract!Next]_Contract!vars PROVE ContractPairsAreTrue'
    OBVIOUS
  <2>1. ASSUME NEW d \in Digests, Contract!RecordDigestUncompressedPair(d)
        PROVE  ContractPairsAreTrue'
    BY <2>1 DEF Contract!RecordDigestUncompressedPair, ContractPairsAreTrue, Contract!TypeOK
  <2>2. CASE UNCHANGED anyUncompressed
    BY <2>2 DEF ContractPairsAreTrue
  <2> QED
    BY <2>1, <2>2 DEF Contract!Next, Contract!vars, Contract!RecordTOCUncompressedPair,
                      Contract!RecordDigestCompressorData, Contract!RecordKnownLocation
<1> QED
  BY <1>1, <1>2, ContractTypeCorrect, PTL DEF Contract!Spec

(* What UncompressedDigest answers is the truth.                           *)
LEMMA UncompressedDigestIsTrue ==
  ASSUME Contract!TypeOK, ContractPairsAreTrue, NEW d \in Digests, Contract!UncompressedDigest(d) # Contract!NoDigest
  PROVE  Contract!UncompressedDigest(d) = TrueUncompressed[d]
<1>1. CASE anyUncompressed[d] # Contract!NoDigest
  BY <1>1 DEF Contract!UncompressedDigest, ContractPairsAreTrue
<1>2. CASE anyUncompressed[d] = Contract!NoDigest
  <2>1. PICK c \in Digests : anyUncompressed[c] = d
    BY <1>2 DEF Contract!UncompressedDigest
  <2>2. d # Contract!NoDigest
    BY DigestsAssumption DEF Contract!NoDigest
  <2>3. d = TrueUncompressed[c]
    BY <2>1, <2>2 DEF ContractPairsAreTrue
  <2>4. TrueUncompressed[d] = d
    BY <2>3, TruthAssumption
  <2>5. Contract!UncompressedDigest(d) = d
    BY <1>2, <2>1 DEF Contract!UncompressedDigest
  <2> QED
    BY <2>4, <2>5
<1> QED
  BY <1>1, <1>2

(* Only blobs with the same uncompressed content are offered in place of a *)
(* blob (candidateLocations), for every history of Record* calls.          *)
THEOREM SubstitutesAreEqual == Contract!Spec => []Contract!SubstitutesHaveEqualContent
<1>1. Contract!TypeOK /\ ContractPairsAreTrue => Contract!SubstitutesHaveEqualContent
  <2> SUFFICES ASSUME Contract!TypeOK, ContractPairsAreTrue, NEW p \in Digests, NEW sub \in BOOLEAN,
                      NEW d \in Contract!CandidateDigests(p, sub)
               PROVE  TrueUncompressed[d] = TrueUncompressed[p]
    BY DEF Contract!SubstitutesHaveEqualContent
  <2> DEFINE u == Contract!UncompressedDigest(p)
  <2>1. CASE d = p
    BY <2>1
  <2>2. CASE d # p
    <3>1. u # Contract!NoDigest /\ (d = u \/ (d \in Digests /\ anyUncompressed[d] = u))
      BY <2>2 DEF Contract!CandidateDigests
    <3>2. u = TrueUncompressed[p]
      BY <3>1, UncompressedDigestIsTrue
    <3>3. CASE d = u
      BY <3>2, <3>3, TruthAssumption
    <3>4. CASE d \in Digests /\ anyUncompressed[d] = u
      BY <3>1, <3>2, <3>4 DEF ContractPairsAreTrue
    <3> QED
      BY <3>1, <3>3, <3>4
  <2> QED
    BY <2>1, <2>2
<1> QED
  BY <1>1, ContractTypeCorrect, PairsStayTrue, PTL

(* Substitutability is symmetric for every history of Record* calls: if q  *)
(* is offered in place of p, then p is offered in place of q.              *)
THEOREM SubstitutionSymmetric == Contract!Spec => []Contract!SubstitutionIsSymmetric
<1>1. Contract!TypeOK /\ ContractPairsAreTrue => Contract!SubstitutionIsSymmetric
  <2> SUFFICES ASSUME Contract!TypeOK, ContractPairsAreTrue, NEW p \in Digests, NEW q \in Digests,
                      q \in Contract!CandidateDigests(p, TRUE)
               PROVE  p \in Contract!CandidateDigests(q, TRUE)
    BY DEF Contract!SubstitutionIsSymmetric
  <2> DEFINE u == Contract!UncompressedDigest(p)
  <2>1. CASE q = p
    BY <2>1
  <2>2. CASE q # p
    <3>1. u # Contract!NoDigest /\ (q = u \/ anyUncompressed[q] = u)
      BY <2>2 DEF Contract!CandidateDigests
    <3>2. p = u \/ anyUncompressed[p] = u
      BY <3>1 DEF Contract!UncompressedDigest
    <3>3. u = TrueUncompressed[p] /\ u \in Digests /\ TrueUncompressed[u] = u
      BY <3>1, UncompressedDigestIsTrue, TruthAssumption
    <3>4. Contract!UncompressedDigest(q) = u
      <4>1. CASE anyUncompressed[q] = u
        BY <3>1, <4>1 DEF Contract!UncompressedDigest
      <4>2. CASE q = u
        <5>1. \E c \in Digests : anyUncompressed[c] = u
          BY <2>2, <3>2, <4>2
        <5>2. anyUncompressed[u] \in {Contract!NoDigest, u}
          BY <3>3 DEF ContractPairsAreTrue
        <5> QED
          BY <4>2, <5>1, <5>2 DEF Contract!UncompressedDigest
      <4> QED
        BY <3>1, <4>1, <4>2
    <3> QED
      BY <3>1, <3>2, <3>4 DEF Contract!CandidateDigests
  <2> QED
    BY <2>1, <2>2
<1> QED
  BY <1>1, ContractTypeCorrect, PairsStayTrue, PTL

(* An answer of UncompressedDigest is never taken back or changed: a later *)
(* Record* call can only add knowledge.                                    *)
THEOREM UncompressedDigestStable == Contract!Spec => Contract!UncompressedDigestIsStable
<1>1. Contract!TypeOK /\ Contract!TypeOK' /\ ContractPairsAreTrue /\ ContractPairsAreTrue' /\ [Contract!Next]_Contract!vars =>
        [\A d \in Digests : Contract!UncompressedDigest(d) # Contract!NoDigest =>
           Contract!UncompressedDigest(d)' = Contract!UncompressedDigest(d)]_Contract!vars
  <2> SUFFICES ASSUME Contract!TypeOK, Contract!TypeOK', ContractPairsAreTrue, ContractPairsAreTrue', [Contract!Next]_Contract!vars,
                      NEW d \in Digests, Contract!UncompressedDigest(d) # Contract!NoDigest
               PROVE  Contract!UncompressedDigest(d)' = Contract!UncompressedDigest(d)
    OBVIOUS
  <2>1. \A c \in Digests : anyUncompressed[c] # Contract!NoDigest => anyUncompressed'[c] # Contract!NoDigest
    <3>1. ASSUME NEW e \in Digests, Contract!RecordDigestUncompressedPair(e)
          PROVE  \A c \in Digests :
                   anyUncompressed[c] # Contract!NoDigest => anyUncompressed'[c] # Contract!NoDigest
      <4>1. TrueUncompressed[e] # Contract!NoDigest
        BY TruthAssumption, DigestsAssumption DEF Contract!NoDigest
      <4> QED
        BY <3>1, <4>1 DEF Contract!RecordDigestUncompressedPair, Contract!TypeOK
    <3>2. CASE UNCHANGED anyUncompressed
      BY <3>2
    <3> QED
      BY <3>1, <3>2 DEF Contract!Next, Contract!vars, Contract!RecordTOCUncompressedPair,
                        Contract!RecordDigestCompressorData, Contract!RecordKnownLocation
  <2>2. Contract!UncompressedDigest(d) = TrueUncompressed[d]
    BY UncompressedDigestIsTrue
  <2>3. CASE anyUncompressed[d] # Contract!NoDigest
    BY <2>1, <2>2, <2>3 DEF Contract!UncompressedDigest, ContractPairsAreTrue
  <2>4. CASE anyUncompressed[d] = Contract!NoDigest
    <3>1. PICK c \in Digests : anyUncompressed[c] = d
      BY <2>4 DEF Contract!UncompressedDigest
    <3>2. d # Contract!NoDigest
      BY DigestsAssumption DEF Contract!NoDigest
    <3>3. anyUncompressed'[c] = d
      BY <2>1, <3>1, <3>2 DEF ContractPairsAreTrue
    <3>4. Contract!UncompressedDigest(d) = d
      BY <2>4, <3>1 DEF Contract!UncompressedDigest
    <3>5. CASE anyUncompressed'[d] = Contract!NoDigest
      BY <3>3, <3>4, <3>5 DEF Contract!UncompressedDigest
    <3>6. CASE anyUncompressed'[d] # Contract!NoDigest
      BY <2>2, <3>4, <3>6 DEF Contract!UncompressedDigest, ContractPairsAreTrue
    <3> QED
      BY <3>5, <3>6
  <2> QED
    BY <2>3, <2>4
<1> QED
  BY <1>1, ContractTypeCorrect, PairsStayTrue, PTL DEF Contract!Spec, Contract!UncompressedDigestIsStable

(* A candidate offered in place of another blob (candidateLocations) has   *)
(* its content, and substitution works both ways, in every state.          *)
THEOREM SubstitutionSound == Contract!Spec => []Contract!SubstitutionIsSound
BY ContractTypeCorrect, SubstitutesAreEqual, SubstitutionSymmetric, PTL DEF Contract!SubstitutionIsSound
==============================================================================
