------------------------------ MODULE Prioritize ------------------------------
(***************************************************************************)
(* pkg/blobinfocache/internal/prioritize: which cached blobs are offered   *)
(* as replacements of a blob, in which order, and how many of them.  All   *)
(* three cache implementations call it.  Digests are positive integers, so *)
(* that cmp.Compare on digests is <; the empty digest is 0.                *)
(***************************************************************************)
EXTENDS Integers, Sequences, FiniteSets, Compression

CONSTANTS
  ReplacementAttempts,                \* replacementAttempts (5 in the code)
  ReplacementUnknownLocationAttempts  \* replacementUnknownLocationAttempts (2)

ASSUME LimitsAssumption ==
  /\ ReplacementAttempts \in Nat
  /\ ReplacementUnknownLocationAttempts \in Nat

NoDigest == 0
UnknownLocation == "unknown location"

(* CandidateLocations passes no options: compression is irrelevant.        *)
NoOptions == [v2 |-> FALSE, formats |-> AnyFormat, required |-> NoAlgorithm]

(* The algorithms a record allows under the options, as a set with at most *)
(* one member: the specific variant if it is recognised and matches, else  *)
(* the base variant.  The empty set is the code's nil template.            *)
CandidateTemplateWithCompression(opts, data) ==
  LET Usable(algo) == /\ algo \in Algorithms
                      /\ CandidateCompressionMatchesReuseConditions(opts, algo)
  IN CASE ~opts.v2 -> {NoAlgorithm}
       [] opts.v2 /\ data.base = Uncompressed ->
            IF CandidateCompressionMatchesReuseConditions(opts, NoAlgorithm)
            THEN {NoAlgorithm} ELSE {}
       [] opts.v2 /\ data.base = UnknownCompression -> {}
       [] OTHER ->
            IF data.specific # UnknownCompression /\ Usable(data.specific)
            THEN {data.specific}
            ELSE {algo \in {data.base} : Usable(algo)}

(* appendReplacementCandidates of the caches, once the record `data` and   *)
(* the locations of the digest (seen[l] = 0: never) have been read.        *)
Candidates(opts, digest, data, seen) ==
  LET known == {l \in DOMAIN seen : seen[l] > 0}
      Candidate(a, l, t) == [digest |-> digest, algorithm |-> a,
                             location |-> l, lastSeen |-> t]
      algorithms == CandidateTemplateWithCompression(opts, data)
  IN IF known # {} THEN {Candidate(a, l, seen[l]) : a \in algorithms, l \in known}
     ELSE IF opts.v2 THEN {Candidate(a, UnknownLocation, 0) : a \in algorithms}
     ELSE {}

(* Mutation: the uncompressed digest sorts like any other.                 *)
BeforeByTime(primary, uncompressed, x, y) ==
  IF x.digest # y.digest /\ primary \in {x.digest, y.digest} THEN x.digest = primary
  ELSE \/ x.lastSeen > y.lastSeen
       \/ x.lastSeen = y.lastSeen /\ x.digest < y.digest

(* candidateSortState.compare: x is sorted before y.                       *)
Before(primary, uncompressed, x, y) ==
  IF x.digest = y.digest THEN x.lastSeen > y.lastSeen
  ELSE IF primary \in {x.digest, y.digest} THEN x.digest = primary
  ELSE IF uncompressed # NoDigest /\ uncompressed \in {x.digest, y.digest}
       THEN y.digest = uncompressed
  ELSE \/ x.lastSeen > y.lastSeen
       \/ x.lastSeen = y.lastSeen /\ x.digest < y.digest

(* slices.SortFunc: the element in place i has i - 1 elements before it.   *)
Sorted(cs, primary, uncompressed) ==
  [i \in 1..Cardinality(cs) |->
     CHOOSE x \in cs :
       Cardinality({y \in cs : Before(primary, uncompressed, y, x)}) = i - 1]

MinOf(a, b) == IF a < b THEN a ELSE b

DestructivelyPrioritizeReplacementCandidates(cs, primary, uncompressed) ==
  LET sorted  == Sorted(cs, primary, uncompressed)
      known   == SelectSeq(sorted, LAMBDA c : c.location # UnknownLocation)
      unknown == SelectSeq(sorted, LAMBDA c : c.location = UnknownLocation)
      knownUsed   == MinOf(Len(known), ReplacementAttempts)
      unknownUsed == MinOf(MinOf(ReplacementUnknownLocationAttempts,
                                 ReplacementAttempts - knownUsed), Len(unknown))
  IN SubSeq(known, 1, knownUsed) \o SubSeq(unknown, 1, unknownUsed)
==============================================================================
