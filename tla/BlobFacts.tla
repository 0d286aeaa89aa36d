------------------------------ MODULE BlobFacts ------------------------------
(***************************************************************************)
(* The blobs a blob info cache is asked about, and the truth about them.   *)
(* A digest determines the blob's content, hence its uncompressed digest   *)
(* and its compression: the constants TrueUncompressed, TrueTOC and        *)
(* TrueCompressor.  The interface demands that only locally verified data  *)
(* is recorded (the WARNING comments in internal/blobinfocache/types.go),  *)
(* so the inputs of the Record* calls of every cache are true facts.       *)
(***************************************************************************)
EXTENDS Prioritize

CONSTANTS
  Digests,           \* digests of blobs, positive integers
  TOCs,              \* digests of zstd:chunked tables of contents
  Scopes,            \* (transport, scope) pairs
  Locations,         \* opaque location references
  MaxTime,           \* bound: RecordKnownLocation calls
  TrueUncompressed,  \* [Digests -> Digests]
  TrueTOC,           \* [TOCs -> Digests]
  TrueCompressor     \* [Digests -> DigestCompressorData]

DigestCompressorData ==
  [base : Algorithms \cup {Uncompressed, UnknownCompression},
   specific : Algorithms \cup {UnknownCompression}]

NoCompressorData == [base |-> UnknownCompression, specific |-> UnknownCompression]

ASSUME DigestsAssumption == Digests \subseteq Nat \ {0}
ASSUME TruthAssumption ==
  /\ TrueUncompressed \in [Digests -> Digests]
  /\ \A d \in Digests : TrueUncompressed[TrueUncompressed[d]] = TrueUncompressed[d]
  /\ TrueTOC \in [TOCs -> Digests]
  /\ TrueCompressor \in [Digests -> DigestCompressorData]
  /\ \A d \in Digests : TrueCompressor[d].base # UnknownCompression
ASSUME TimeAssumption == MaxTime \in Nat

(* The compressor data a caller can have verified for a digest: the base   *)
(* variant alone, or with the specific variant too; and "unknown", which   *)
(* removes the record.                                                     *)
VerifiedCompressorData(d) ==
  {NoCompressorData, TrueCompressor[d],
   [TrueCompressor[d] EXCEPT !.specific = UnknownCompression]}
==============================================================================
