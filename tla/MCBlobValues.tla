---------------------------- MODULE MCBlobValues ----------------------------
(* Two uncompressed blobs 1 and 4; blob 2 is 1 in gzip, blob 3 is 1 in     *)
(* zstd:chunked with the table of contents "toc".                          *)
EXTENDS Integers, Compression

MCDigests == 1..4
MCTrueUncompressed == [d \in MCDigests |-> IF d = 4 THEN 4 ELSE 1]
MCTOCs == {"toc"}
MCTrueTOC == [t \in MCTOCs |-> 1]
MCTrueCompressor == [d \in MCDigests |->
  CASE d \in {1, 4} -> [base |-> Uncompressed, specific |-> UnknownCompression]
    [] d = 2 -> [base |-> "gzip", specific |-> UnknownCompression]
    [] d = 3 -> [base |-> "zstd", specific |-> "zstd:chunked"]]
MCScopes == {"scope"}
=============================================================================
