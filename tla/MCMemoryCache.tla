---------------------------- MODULE MCMemoryCache ----------------------------
EXTENDS MemoryCache, MCBlobValues, TLC

(* Nothing in the cache depends on what a location is. *)
LocationSymmetry == Permutations(Locations)
==============================================================================
