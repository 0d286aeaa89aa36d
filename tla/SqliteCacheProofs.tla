-------------------------- MODULE SqliteCacheProofs --------------------------
(***************************************************************************)
(* Proofs that the shared handle of the SQLite cache is open exactly as    *)
(* long as a client may use it, that the lookups on the tables are right,  *)
(* and that the cache implements the abstract blob info cache.             *)
(***************************************************************************)
EXTENDS SqliteCache, FiniteSetTheorems, TLAPS

(* The clients between their Open and their Close.                         *)
Brackets == {c \in Clients : bracketed[c]}

(* The brackets are finitely many, and can be counted.                     *)
LEMMA BracketsAreFinite ==
  /\ IsFiniteSet(Brackets)
  /\ Cardinality(Brackets) \in Nat
  /\ \A c \in Brackets : Cardinality(Brackets) > 0
<1>1. IsFiniteSet(Brackets)
  BY ClientsAssumption, FS_Subset DEF Brackets
<1>2. Cardinality(Brackets) \in Nat
  BY <1>1, FS_CardinalityType
<1>3. Brackets # {} => Cardinality(Brackets) > 0
  BY <1>1, <1>2, FS_EmptySet
<1> QED
  BY <1>1, <1>2, <1>3

(* Open adds one bracket to the count.                                     *)
LEMMA OpenCounts ==
  ASSUME NEW c \in Clients, TypeOK, Open(c)
  PROVE  Cardinality(Brackets') = Cardinality(Brackets) + 1
<1>1. Brackets' = Brackets \cup {c} /\ c \notin Brackets
  BY DEF Brackets, Open, TypeOK
<1> QED
  BY <1>1, BracketsAreFinite, FS_AddElement

(* Close takes one bracket from the count; the last Close leaves none.     *)
LEMMA CloseCounts ==
  ASSUME NEW c \in Clients, TypeOK, Close(c)
  PROVE  /\ Cardinality(Brackets') = Cardinality(Brackets) - 1
         /\ Cardinality(Brackets) = 1 => Brackets' = {}
<1>1. Brackets' = Brackets \ {c} /\ c \in Brackets
  BY DEF Brackets, Close, TypeOK
<1>2. Cardinality(Brackets') = Cardinality(Brackets) - 1 /\ IsFiniteSet(Brackets')
  BY <1>1, BracketsAreFinite, FS_RemoveElement
<1> QED
  BY <1>2, FS_EmptySet, BracketsAreFinite

-----------------------------------------------------------------------------
(* Whatever a caller can have verified is a well-formed record, and says   *)
(* nothing of a specific variant unless it knows the base variant.         *)
LEMMA VerifiedIsTyped ==
  ASSUME NEW d \in Digests, NEW data \in VerifiedCompressorData(d)
  PROVE  /\ data \in DigestCompressorData
         /\ data.base = UnknownCompression => data.specific = UnknownCompression
<1>1. TrueCompressor[d] \in DigestCompressorData /\ TrueCompressor[d].base # UnknownCompression
  BY TruthAssumption
<1>2. CASE data = NoCompressorData
  BY <1>2 DEF NoCompressorData, DigestCompressorData
<1>3. CASE data = TrueCompressor[d]
  BY <1>1, <1>3
<1>4. CASE data = [TrueCompressor[d] EXCEPT !.specific = UnknownCompression]
  BY <1>1, <1>4 DEF DigestCompressorData
<1> QED
  BY <1>2, <1>3, <1>4 DEF VerifiedCompressorData

(* The last Close happens only when nobody is between Open and Close: this *)
(* and the count of brackets are an invariant together with the types (the *)
(* count is what keeps refCount from becoming negative).                   *)
HandleInvariant == TypeOK /\ HandlesAreSafe

(* The inductive invariant of types and handles holds in every state.      *)
LEMMA HandleInvariantHolds == Spec => []HandleInvariant
<1>1. Init => HandleInvariant
  <2> SUFFICES ASSUME Init PROVE HandleInvariant
    OBVIOUS
  <2>1. TypeOK
    BY TimeAssumption DEF Init, TypeOK, DBStates, HandleStates
  <2>2. Brackets = {}
    BY DEF Init, Brackets
  <2>3. HandleIsReferenced
    BY <2>2, FS_EmptySet DEF Init, HandleIsReferenced, Brackets
  <2>4. BracketedTransactionsKeepTheirHandle
    BY DEF Init, BracketedTransactionsKeepTheirHandle
  <2> QED
    BY <2>1, <2>3, <2>4 DEF HandleInvariant, HandlesAreSafe
<1>2. HandleInvariant /\ [Next]_vars => HandleInvariant'
  <2> SUFFICES ASSUME HandleInvariant, [Next]_vars PROVE HandleInvariant'
    OBVIOUS
  <2> USE DEF HandleInvariant, HandlesAreSafe
  <2>0. /\ refCount = Cardinality(Brackets)
        /\ db = "open" => refCount > 0
        /\ \A c \in Clients : handle[c] = "shared" => db = "open"
        /\ \A c \in Clients : bracketed[c] => handle[c] # "closed"
    BY DEF HandleIsReferenced, Brackets, BracketedTransactionsKeepTheirHandle
  <2>1. ASSUME NEW c \in Clients, Open(c) PROVE HandleInvariant'
    <3>1. refCount' = Cardinality(Brackets)'
      BY <2>0, <2>1, OpenCounts DEF Open
    <3>2. TypeOK'
      BY <2>1 DEF Open, TypeOK, tables, DBStates
    <3>3. BracketedTransactionsKeepTheirHandle'
      BY <2>0, <2>1 DEF Open, TypeOK, BracketedTransactionsKeepTheirHandle
    <3>4. HandleIsReferenced'
      BY <2>0, <2>1, <3>1 DEF Open, TypeOK, HandleIsReferenced, Brackets, DBStates
    <3> QED
      BY <3>2, <3>3, <3>4
  <2>2. ASSUME NEW c \in Clients, Close(c) PROVE HandleInvariant'
    <3>1. refCount' = Cardinality(Brackets)' /\ refCount > 0
      BY <2>0, <2>2, CloseCounts, BracketsAreFinite DEF Close, Brackets
    <3>2. TypeOK'
      BY <2>2, <3>1 DEF Close, TypeOK, tables, DBStates, HandleStates
    <3>3. BracketedTransactionsKeepTheirHandle'
      <4>1. CASE refCount = 1 /\ db = "open"
        <5>1. Brackets' = {}
          BY <2>0, <2>2, <4>1, CloseCounts
        <5> QED
          BY <5>1 DEF Brackets, BracketedTransactionsKeepTheirHandle
      <4>2. CASE ~(refCount = 1 /\ db = "open")
        BY <2>0, <2>2, <4>2 DEF Close, TypeOK, BracketedTransactionsKeepTheirHandle
      <4> QED
        BY <4>1, <4>2
    <3>4. HandleIsReferenced'
      BY <2>0, <2>2, <3>1 DEF Close, TypeOK, HandleIsReferenced, Brackets
    <3> QED
      BY <3>2, <3>3, <3>4
  <2>3. ASSUME NEW c \in Clients, BeginTransaction(c) PROVE HandleInvariant'
    <3>1. TypeOK'
      BY <2>3 DEF BeginTransaction, TypeOK, tables, HandleStates
    <3> QED
      BY <2>0, <2>3, <3>1 DEF BeginTransaction, TypeOK, DBStates, HandleIsReferenced,
         BracketedTransactionsKeepTheirHandle
  <2>4. ASSUME NEW c \in Clients, EndTransaction(c), TypeOK' PROVE HandleInvariant'
    BY <2>0, <2>4 DEF EndTransaction, TypeOK, HandleIsReferenced,
       BracketedTransactionsKeepTheirHandle
  <2>5. ASSUME NEW c \in Clients, FailedTransaction(c) PROVE HandleInvariant'
    BY <2>4, <2>5 DEF FailedTransaction, EndTransaction, TypeOK, tables, HandleStates
  <2>6. ASSUME NEW c \in Clients, Record(c) PROVE HandleInvariant'
    <3>1. EndTransaction(c)
      BY <2>6 DEF Record, RecordDigestUncompressedPair, RecordTOCUncompressedPair,
         RecordKnownLocation, RecordDigestCompressorData, Commit
    <3>2. /\ refCount' \in Nat /\ db' \in DBStates
          /\ bracketed' \in [Clients -> BOOLEAN]
          /\ handle' \in [Clients -> HandleStates]
      BY <3>1 DEF EndTransaction, TypeOK, HandleStates
    <3>3. ASSUME NEW d \in Digests, RecordDigestUncompressedPair(c, d, TrueUncompressed[d])
          PROVE  TypeOK'
      BY <3>2, <3>3, TruthAssumption DEF RecordDigestUncompressedPair, TypeOK
    <3>4. ASSUME NEW t \in TOCs, RecordTOCUncompressedPair(c, t, TrueTOC[t])
          PROVE  TypeOK'
      BY <3>2, <3>4, TruthAssumption DEF RecordTOCUncompressedPair, TypeOK
    <3>5. ASSUME NEW s \in Scopes, NEW d \in Digests, NEW l \in Locations,
                 RecordKnownLocation(c, s, d, l)
          PROVE  TypeOK'
      <4>1. clock + 1 \in 0..MaxTime
        BY <3>5, TimeAssumption DEF RecordKnownLocation, TypeOK
      <4>2. KnownLocations[<<s, d>>] \in [Locations -> 0..MaxTime]
        BY DEF TypeOK
      <4>3. [KnownLocations[<<s, d>>] EXCEPT ![l] = clock + 1] \in [Locations -> 0..MaxTime]
        BY <4>1, <4>2
      <4>4. KnownLocations' \in [Scopes \X Digests -> [Locations -> 0..MaxTime]]
        BY <3>5, <4>3 DEF RecordKnownLocation, TypeOK
      <4> QED
        BY <3>2, <3>5, <4>1, <4>4 DEF RecordKnownLocation, TypeOK
    <3>6. ASSUME NEW d \in Digests, NEW data \in VerifiedCompressorData(d),
                 RecordDigestCompressorData(c, d, data)
          PROVE  TypeOK'
      <4>1. data \in DigestCompressorData
        BY VerifiedIsTyped
      <4> QED
        BY <3>2, <3>6, <4>1 DEF RecordDigestCompressorData, TypeOK, DigestCompressorData
    <3> QED
      BY <2>4, <2>6, <3>1, <3>3, <3>4, <3>5, <3>6 DEF Record
  <2>7. CASE UNCHANGED vars
    BY <2>7 DEF vars, tables, TypeOK, HandleIsReferenced, BracketedTransactionsKeepTheirHandle
  <2> QED
    BY <2>1, <2>2, <2>3, <2>5, <2>6, <2>7 DEF Next
<1> QED
  BY <1>1, <1>2, PTL DEF Spec

(* A transaction of a client between its Open and its Close never runs on  *)
(* a handle that another client's Close has closed, and the shared handle  *)
(* is closed with the last of them (Open, Close and transaction).          *)
THEOREM HandlesSafe == Spec => []HandlesAreSafe
BY HandleInvariantHolds, PTL DEF HandleInvariant

-----------------------------------------------------------------------------
(* The instance of the abstract cache has the constants of this module.    *)
LEMMA SameConstants ==
  /\ Facts!NoDigest = NoDigest
  /\ Facts!UnknownCompression = UnknownCompression
  /\ Facts!NoCompressorData = NoCompressorData
  /\ \A d : Facts!VerifiedCompressorData(d) = VerifiedCompressorData(d)
<1>1. Facts!NoDigest = NoDigest
  BY DEF NoDigest, Facts!NoDigest
<1>2. Facts!UnknownCompression = UnknownCompression
  BY DEF UnknownCompression, Facts!UnknownCompression
<1>3. Facts!NoCompressorData = NoCompressorData
  BY <1>2 DEF NoCompressorData, Facts!NoCompressorData
<1>4. \A d : Facts!VerifiedCompressorData(d) = VerifiedCompressorData(d)
  BY <1>2, <1>3 DEF VerifiedCompressorData, Facts!VerifiedCompressorData
<1> QED
  BY <1>1, <1>2, <1>3, <1>4

(* A row in DigestSpecificVariantCompressors has one in DigestCompressors: *)
(* else a later record of the base variant alone would revive a specific   *)
(* variant that the LEFT JOIN of the lookups did not show.                 *)
SpecificNeedsBase ==
  \A d \in Digests : DigestCompressors[d] = UnknownCompression =>
                       DigestSpecificVariantCompressors[d] = UnknownCompression

(* No statement leaves a specific variant without its base variant.        *)
LEMMA SpecificAlwaysHasBase == Spec => []SpecificNeedsBase
<1>1. Init => SpecificNeedsBase
  BY DEF Init, SpecificNeedsBase
<1>2. TypeOK /\ SpecificNeedsBase /\ [Next]_vars => SpecificNeedsBase'
  <2> SUFFICES ASSUME TypeOK, SpecificNeedsBase, [Next]_vars PROVE SpecificNeedsBase'
    OBVIOUS
  <2>1. ASSUME NEW c \in Clients, NEW d \in Digests, NEW data \in VerifiedCompressorData(d),
               RecordDigestCompressorData(c, d, data)
        PROVE  SpecificNeedsBase'
    <3>1. data.base = UnknownCompression => data.specific = UnknownCompression
      BY VerifiedIsTyped
    <3> QED
      BY <2>1, <3>1 DEF RecordDigestCompressorData, SpecificNeedsBase, TypeOK
  <2>2. CASE UNCHANGED <<DigestCompressors, DigestSpecificVariantCompressors>>
    BY <2>2 DEF SpecificNeedsBase
  <2> QED
    BY <2>1, <2>2 DEF Next, vars, tables, Open, Close, BeginTransaction, FailedTransaction,
       Record, RecordDigestUncompressedPair, RecordTOCUncompressedPair, RecordKnownLocation
<1> QED
  BY <1>1, <1>2, HandleInvariantHolds, PTL DEF Spec, HandleInvariant

(* Every behaviour of the SQLite cache is one of the abstract cache: the   *)
(* statements of a committed transaction together change the facts as the  *)
(* interface promises, and everything else, a failed transaction included, *)
(* leaves them alone.                                                      *)
THEOREM SqliteCacheRefines == Spec => ImplementsBlobInfoCache
<1>1. Init => Facts!Init
  BY SameConstants DEF Init, Facts!Init, compressorData
<1>2. TypeOK /\ SpecificNeedsBase /\ [Next]_vars => [Facts!Next]_(Facts!vars)
  <2> SUFFICES ASSUME TypeOK, SpecificNeedsBase, [Next]_vars PROVE [Facts!Next]_(Facts!vars)
    OBVIOUS
  <2>1. CASE UNCHANGED tables
    BY <2>1 DEF tables, Facts!vars, compressorData
  <2> DEFINE compressors == [d \in Digests |-> compressorData(d)]
  <2>2. ASSUME NEW c \in Clients, NEW d \in Digests,
               RecordDigestUncompressedPair(c, d, TrueUncompressed[d])
        PROVE  Facts!Next
    <3>1. compressors' = compressors
      BY <2>2 DEF RecordDigestUncompressedPair, compressorData
    <3> QED
      BY <2>2, <3>1 DEF RecordDigestUncompressedPair, Facts!Next,
         Facts!RecordDigestUncompressedPair
  <2>3. ASSUME NEW c \in Clients, NEW t \in TOCs, RecordTOCUncompressedPair(c, t, TrueTOC[t])
        PROVE  Facts!Next
    <3>1. compressors' = compressors
      BY <2>3 DEF RecordTOCUncompressedPair, compressorData
    <3> QED
      BY <2>3, <3>1 DEF RecordTOCUncompressedPair, Facts!Next, Facts!RecordTOCUncompressedPair
  <2>4. ASSUME NEW c \in Clients, NEW s \in Scopes, NEW d \in Digests, NEW l \in Locations,
               RecordKnownLocation(c, s, d, l)
        PROVE  Facts!Next
    <3>1. compressors' = compressors
      BY <2>4 DEF RecordKnownLocation, compressorData
    <3> QED
      BY <2>4, <3>1 DEF RecordKnownLocation, Facts!Next, Facts!RecordKnownLocation
  <2>5. ASSUME NEW c \in Clients, NEW d \in Digests, NEW data \in VerifiedCompressorData(d),
               RecordDigestCompressorData(c, d, data)
        PROVE  Facts!Next
    <3>1. /\ data \in DigestCompressorData
          /\ data.base = UnknownCompression => data.specific = UnknownCompression
      BY VerifiedIsTyped
    <3>2. compressorData(d)' = Facts!Merged(compressorData(d), data)
      BY <2>5, <3>1, SameConstants DEF RecordDigestCompressorData, compressorData, TypeOK,
         SpecificNeedsBase, Facts!Merged, NoCompressorData, DigestCompressorData
    <3>3. \A e \in Digests \ {d} : compressorData(e)' = compressorData(e)
      BY <2>5 DEF RecordDigestCompressorData, compressorData, TypeOK
    <3>4. compressors' = [compressors EXCEPT ![d] = Facts!Merged(@, data)]
      BY <3>2, <3>3
    <3>5. Facts!RecordDigestCompressorData(d, data)
      BY <2>5, <3>4 DEF RecordDigestCompressorData, Facts!RecordDigestCompressorData
    <3> QED
      BY <3>5, SameConstants DEF Facts!Next
  <2> QED
    BY <2>1, <2>2, <2>3, <2>4, <2>5 DEF Next, vars, Open, Close, BeginTransaction,
       FailedTransaction, Record
<1> QED
  BY <1>1, <1>2, HandleInvariantHolds, SpecificAlwaysHasBase, PTL
  DEF Spec, HandleInvariant, ImplementsBlobInfoCache, Facts!Spec

-----------------------------------------------------------------------------
(* Without version 2 options the compression of a blob plays no role, so   *)
(* the lookup may leave out the JOIN.                                      *)
LEMMA CompressionIsIrrelevant ==
  ASSUME NEW opts, ~opts.v2, NEW d, NEW x, NEW y, NEW seen
  PROVE  Candidates(opts, d, x, seen) = Candidates(opts, d, y, seen)
BY DEF Candidates, CandidateTemplateWithCompression

(* The operators of Prioritize are those of the instance.                  *)
LEMMA SameTemplates ==
  ASSUME NEW opts, NEW data
  PROVE  Facts!CandidateTemplateWithCompression(opts, data)
         = CandidateTemplateWithCompression(opts, data)
<1>1. ASSUME NEW algo
      PROVE  Facts!CandidateCompressionMatchesReuseConditions(opts, algo)
             <=> CandidateCompressionMatchesReuseConditions(opts, algo)
  BY DEF CandidateCompressionMatchesReuseConditions,
     Facts!CandidateCompressionMatchesReuseConditions, MIMETypeSupportsCompressionAlgorithm,
     Facts!MIMETypeSupportsCompressionAlgorithm, CompressionAlgorithmIsUniversallySupported,
     Facts!CompressionAlgorithmIsUniversallySupported, BaseVariantName, Facts!BaseVariantName,
     NoAlgorithm, Facts!NoAlgorithm, AnyFormat, Facts!AnyFormat, OCI, Facts!OCI
<1> QED
  BY <1>1 DEF CandidateTemplateWithCompression, Facts!CandidateTemplateWithCompression,
     Algorithms, Facts!Algorithms, NoAlgorithm, Facts!NoAlgorithm, Uncompressed,
     Facts!Uncompressed, UnknownCompression, Facts!UnknownCompression

(* A digest has the candidates it has in the instance.                     *)
LEMMA SameCandidates ==
  ASSUME NEW opts, NEW d, NEW data, NEW seen
  PROVE  Facts!Candidates(opts, d, data, seen) = Candidates(opts, d, data, seen)
<1> DEFINE inInstance == Facts!CandidateTemplateWithCompression(opts, data)
           here == CandidateTemplateWithCompression(opts, data)
           known == {l \in DOMAIN seen : seen[l] > 0}
           Of(algorithms) ==
             IF known # {}
             THEN {[digest |-> d, algorithm |-> a, location |-> l, lastSeen |-> seen[l]] :
                     a \in algorithms, l \in known}
             ELSE IF opts.v2
             THEN {[digest |-> d, algorithm |-> a, location |-> UnknownLocation,
                    lastSeen |-> 0] : a \in algorithms}
             ELSE {}
<1>1. inInstance = here
  BY SameTemplates
<1>2. Candidates(opts, d, data, seen) = Of(here)
  BY DEF Candidates
<1>3. Facts!Candidates(opts, d, data, seen) = Of(inInstance)
  BY DEF Facts!Candidates, UnknownLocation, Facts!UnknownLocation
<1> HIDE DEF inInstance, here, Of
<1> QED
  BY <1>1, <1>2, <1>3

(* Candidates are sorted and cut as in the instance.                       *)
LEMMA SamePriorities ==
  ASSUME NEW cs, NEW p, NEW u
  PROVE  Facts!DestructivelyPrioritizeReplacementCandidates(cs, p, u)
         = DestructivelyPrioritizeReplacementCandidates(cs, p, u)
<1>1. \A S : Facts!Cardinality(S) = Cardinality(S)
  BY DEF Facts!Cardinality, Cardinality, Facts!IsFiniteSet, IsFiniteSet
<1>2. Facts!Sorted(cs, p, u) = Sorted(cs, p, u)
  <2> DEFINE Theirs(i) == CHOOSE x \in cs :
               Facts!Cardinality({y \in cs : Facts!Before(p, u, y, x)}) = i - 1
             Ours(i) == CHOOSE x \in cs :
               Cardinality({y \in cs : Before(p, u, y, x)}) = i - 1
  <2>1. \A x, y : Facts!Before(p, u, y, x) <=> Before(p, u, y, x)
    BY DEF Before, Facts!Before, NoDigest, Facts!NoDigest
  <2>2. \A x : {y \in cs : Facts!Before(p, u, y, x)} = {y \in cs : Before(p, u, y, x)}
    BY <2>1
  <2>3. \A i, x : Facts!Cardinality({y \in cs : Facts!Before(p, u, y, x)}) = i - 1
                  <=> Cardinality({y \in cs : Before(p, u, y, x)}) = i - 1
    BY <1>1, <2>2
  <2>4. \A i : Theirs(i) = Ours(i)
    BY <2>3, Zenon
  <2>5. Sorted(cs, p, u) = [i \in 1..Cardinality(cs) |-> Ours(i)]
    BY DEF Sorted
  <2>6. Facts!Sorted(cs, p, u) = [i \in 1..Facts!Cardinality(cs) |-> Theirs(i)]
    BY DEF Facts!Sorted
  <2> HIDE DEF Theirs, Ours
  <2> QED
    BY <1>1, <2>4, <2>5, <2>6
<1> QED
  BY <1>2 DEF DestructivelyPrioritizeReplacementCandidates,
     Facts!DestructivelyPrioritizeReplacementCandidates,
     MinOf, Facts!MinOf, UnknownLocation, Facts!UnknownLocation

(* The tables are type correct, and every lookup on them, with its JOIN    *)
(* and its limits, answers what the recorded facts justify.                *)
THEOREM TablesCorrect == Spec => []TablesAgree
<1>1. TypeOK => LookupsAgree
  <2> SUFFICES ASSUME TypeOK, NEW s \in Scopes, NEW p \in Digests, NEW sub \in BOOLEAN,
                      NEW v2 \in BOOLEAN
               PROVE  candidateLocations(s, p, sub, [NoOptions EXCEPT !.v2 = v2])
                      = Facts!CandidateLocations2(s, p, sub, [NoOptions EXCEPT !.v2 = v2])
    BY DEF LookupsAgree
  <2> DEFINE opts == [NoOptions EXCEPT !.v2 = v2]
             u == IF sub THEN uncompressedDigest(p) ELSE NoDigest
             digests == {p} \cup IF u = NoDigest THEN {}
                                 ELSE {u} \cup {d \in Digests : DigestUncompressedPairs[d] = u}
             Joined(d) == IF opts.v2 THEN compressorData(d) ELSE NoCompressorData
             compressors == [d \in Digests |-> compressorData(d)]
             Ours(d) == Candidates(opts, d, Joined(d), KnownLocations[<<s, d>>])
             Theirs(d) == Facts!Candidates(opts, d, compressors[d], KnownLocations[<<s, d>>])
  <2>1. uncompressedDigest(p) = Facts!UncompressedDigest(p)
    BY SameConstants DEF uncompressedDigest, Facts!UncompressedDigest
  <2>2. digests = Facts!CandidateDigests(p, sub)
    BY <2>1, SameConstants DEF Facts!CandidateDigests
  <2>3. digests \subseteq Digests
    BY DEF uncompressedDigest, TypeOK
  <2>4. ASSUME NEW d \in digests PROVE Theirs(d) = Ours(d)
    <3>1. Theirs(d) = Candidates(opts, d, compressorData(d), KnownLocations[<<s, d>>])
      BY <2>3, SameCandidates
    <3>2. CASE opts.v2
      BY <3>1, <3>2
    <3>3. CASE ~opts.v2
      BY <3>1, <3>3, CompressionIsIrrelevant
    <3> QED
      BY <3>2, <3>3
  <2>5. candidateLocations(s, p, sub, opts)
        = DestructivelyPrioritizeReplacementCandidates(
            UNION {Ours(d) : d \in digests}, p, u)
    BY DEF candidateLocations
  <2>6. Facts!CandidateLocations2(s, p, sub, opts)
        = Facts!DestructivelyPrioritizeReplacementCandidates(
            UNION {Theirs(d) : d \in digests}, p, u)
    BY <2>1, <2>2, SameConstants DEF Facts!CandidateLocations2
  <2> HIDE DEF opts, u, digests, Ours, Theirs
  <2>7. UNION {Theirs(d) : d \in digests} = UNION {Ours(d) : d \in digests}
    BY <2>4
  <2>8. candidateLocations(s, p, sub, opts) = Facts!CandidateLocations2(s, p, sub, opts)
    BY <2>5, <2>6, <2>7, SamePriorities
  <2> QED
    BY <2>8 DEF opts
<1> QED
  BY <1>1, HandleInvariantHolds, PTL DEF HandleInvariant, TablesAgree
==============================================================================
