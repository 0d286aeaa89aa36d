---------------------------- MODULE CopyMultiple ----------------------------
(***************************************************************************)
(* copy/multiple.go: copying a manifest list.  The instances are copied    *)
(* one after another (copySingleImage is CopySingleImage), clones in other *)
(* compressions may be added, the list is edited (internal/manifest:       *)
(* oci_index.go, docker_schema2_list.go), perhaps converted, and written.  *)
(*                                                                         *)
(* The digest of an instance is what it stands for: an image and the       *)
(* variant (format and compression) it is stored in.  A platform is a      *)
(* name; the annotations of an entry are its zstd annotation.              *)
(***************************************************************************)
EXTENDS Integers, Sequences, FiniteSets, SequencesExt

CONSTANTS
  SourceLists,      \* the lists a source may have
  OptionSets        \* the options, destinations and outcomes of a copy

VARIABLES
  original,         \* originalList: [type, entries]
  opt,              \* see OptionSets in the MC module
  pc,
  copies,           \* instanceCopyList, what is left of it
  edits,            \* instanceEdits
  candidates,       \* the list types not yet tried
  updated,          \* updatedList
  stored,           \* the list at the destination, or NoList
  signatures        \* the lists that the stored signatures are for

vars == <<original, opt, pc, copies, edits, candidates, updated, stored, signatures>>

Index == "OCI index"
List == "Docker list"
NoPlatform == "no platform"
RuntimePlatform == "linux"       \* runtime.GOOS and runtime.GOARCH
NoForce == "no forced type"
NoList == [type |-> "none", entries |-> <<>>]
Steps == {"start", "copy", "write", "sign", "done", "failed"}

Init ==
  /\ original \in SourceLists
  /\ opt \in OptionSets
  /\ pc = "start"
  /\ copies = <<>> /\ edits = <<>> /\ candidates = <<>>
  /\ updated = NoList /\ stored = NoList
  /\ signatures = {}

-----------------------------------------------------------------------------
(* Manifest lists *)

Instances(list) == [i \in DOMAIN list.entries |-> list.entries[i].digest]

(* The details of the FIRST entry with the digest.                         *)
Instance(list, digest) ==
  list.entries[SelectInSeq(list.entries, LAMBDA e : e.digest = digest)]

compressionAlgorithmNames(list, entry) ==
  IF list.type = Index /\ entry.zstd THEN "zstd" ELSE "gzip"

(* addCompressionAnnotations only adds.                                    *)
withAnnotations(type, entry, algorithms) ==
  [entry EXCEPT !.zstd = type = Index /\ (@ \/ "zstd" \in algorithms)]

(* Mutation: no sorting.                                                   *)
sortedUnsorted(entries) == entries

sorted(entries) == SelectSeq(entries, LAMBDA e : ~e.zstd) \o SelectSeq(entries, LAMBDA e : e.zstd)

(* What editInstances of both types do: updates in place, in the order of  *)
(* the edits; additions at the end.                                        *)
editEntries(list, changes) ==
  LET updates == SelectSeq(changes, LAMBDA c : c.op = "update")
      adds == SelectSeq(changes, LAMBDA c : c.op = "add")
      Update(entries, c) ==
        LET i == SelectInSeq(entries, LAMBDA e : e.digest = c.old)
        IN [entries EXCEPT ![i] =
              withAnnotations(list.type, [@ EXCEPT !.digest = c.digest], c.algorithms)]
      added == [i \in DOMAIN adds |->
                  withAnnotations(list.type,
                    [digest |-> adds[i].digest, platform |-> adds[i].platform,
                     zstd |-> adds[i].zstd], adds[i].algorithms)]
  IN FoldLeft(Update, list.entries, updates) \o added

(* Only an index that grows is sorted.                                     *)
editInstances(list, changes) ==
  LET entries == editEntries(list, changes)
  IN [list EXCEPT !.entries = IF list.type = Index /\ Len(entries) > Len(list.entries)
                              THEN sorted(entries) ELSE entries]

(* A Docker list has no annotations, and every platform is set.            *)
ToSchema2List(entries) ==
  [i \in DOMAIN entries |->
     [entries[i] EXCEPT !.zstd = FALSE,
                        !.platform = IF @ = NoPlatform THEN RuntimePlatform ELSE @]]

ToOCI1Index(entries) == entries

ConvertToMIMEType(list, type) ==
  [type |-> type,
   entries |-> CASE type = list.type -> list.entries
                 [] type # list.type /\ type = List -> ToSchema2List(list.entries)
                 [] OTHER -> ToOCI1Index(list.entries)]

(* ChooseInstance of a Docker list: for each wanted platform, the first    *)
(* entry that has it.  The position of the entry, 0 if none fits.          *)
ChooseInstance(entries, wanted) ==
  LET First(p) == SelectInSeq(entries, LAMBDA e : e.platform = p)
      p == SelectInSeq(wanted, LAMBDA w : First(w) # 0)
  IN IF p = 0 THEN 0 ELSE First(wanted[p])

(* chooseInstance of an index prefers the platform that is wanted most,    *)
(* then the compression and then the first entry; entries without a        *)
(* platform are the last resort.                                           *)
chooseInstance(entries, wanted, preferGzip) ==
  LET platformIndex(i) ==
        IF entries[i].platform = NoPlatform THEN Len(wanted) + 1
        ELSE SelectInSeq(wanted, LAMBDA p : p = entries[i].platform)
      fitting == {i \in DOMAIN entries : platformIndex(i) # 0}
      isPreferredOver(i, j) ==
        IF platformIndex(i) # platformIndex(j) THEN platformIndex(i) < platformIndex(j)
        ELSE IF entries[i].zstd # entries[j].zstd THEN entries[i].zstd # preferGzip
        ELSE i < j
  IN IF fitting = {} THEN 0
     ELSE CHOOSE i \in fitting : \A j \in fitting \ {i} : isPreferredOver(i, j)

-----------------------------------------------------------------------------
(* copyMultipleImages *)

Goto(step) == pc' = step
Fail == Goto("failed")

cannotModifyManifestList == opt.signed \/ opt.digested # "no" \/ opt.preserveDigests

(* determineListConversion.                                                *)
ListTypes ==
  LET supported == IF opt.forced # NoForce THEN <<opt.forced>>
                   ELSE IF opt.supported = <<>> THEN <<List, Index>>
                   ELSE opt.supported
      others == SelectSeq(supported, LAMBDA t : t \in {List, Index} \ {original.type})
  IN IF Contains(supported, original.type) THEN <<original.type>> \o others ELSE others

Selected(digest) == opt.selection = "specific" => digest \in opt.instances

(* prepareInstanceCopies: every selected instance is copied; the first     *)
(* instance of a platform is also cloned into each compression that no     *)
(* instance of the platform has.                                           *)
prepareInstanceCopies(list) ==
  LET digests == Instances(list)
      PlatformOf(d) == Instance(list, d).platform
      Has(p) == {compressionAlgorithmNames(list, Instance(list, d)) :
                   d \in {x \in ToSet(digests) : PlatformOf(x) = p}}
      Clone(d, algorithm) ==
        [op |-> "clone", digest |-> d, algorithm |-> algorithm,
         platform |-> PlatformOf(d), zstd |-> Instance(list, d).zstd]
      First(i) == \A j \in 1..(i - 1) : PlatformOf(digests[j]) # PlatformOf(digests[i])
      CopiesOf(i) ==
        LET d == digests[i]
            missing == FoldLeft(LAMBDA s, a : IF a \in Has(PlatformOf(d)) \cup ToSet(s)
                                              THEN s ELSE Append(s, a),
                                <<>>, opt.ensure)
            clones == [k \in DOMAIN missing |-> Clone(d, missing[k])]
        IN IF ~Selected(d) THEN <<>>
           ELSE <<[op |-> "copy", digest |-> d]>> \o
                  (IF First(i) THEN clones ELSE <<>>)
  IN FoldLeft(LAMBDA s, i : s \o CopiesOf(i), <<>>, [i \in DOMAIN digests |-> i])

(* Up to the loop over the instances.                                      *)
Start ==
  /\ pc = "start"
  /\ IF \/ opt.digested = "differs"
        \/ ListTypes = <<>>
        \/ Head(ListTypes) # original.type /\ cannotModifyManifestList
        \/ opt.selection = "specific" /\ opt.ensure # <<>>
     THEN Fail /\ UNCHANGED <<copies, candidates, updated>>
     ELSE /\ Goto("copy")
          /\ updated' = original
          /\ candidates' = ListTypes
          /\ copies' = prepareInstanceCopies(original)
  /\ UNCHANGED <<original, opt, edits, stored, signatures>>

(* copySingleImage, as far as the list is concerned: the variant that is   *)
(* stored.  Copying is idempotent: what it produces it leaves alone.       *)
copied(digest, copy) ==
  [digest EXCEPT !.variant = IF copy.op = "clone" THEN copy.algorithm
                             ELSE opt.conversion[@]]

compressionOf(digest) == IF digest.variant = "zstd" THEN "zstd" ELSE "gzip"

(* The edit for a finished copy; the algorithms may be unknown, but not    *)
(* when a format was required.                                             *)
CopyInstance ==
  /\ pc = "copy" /\ copies # <<>>
  /\ LET copy == Head(copies)
         digest == copied(copy.digest, copy)
     IN \/ Fail /\ UNCHANGED <<copies, edits>>
        \/ /\ opt.preserveDigests => digest = copy.digest
           /\ copies' = Tail(copies)
           /\ \E algorithms \in {{compressionOf(digest)}, {}} :
                IF copy.op = "copy"
                THEN edits' = Append(edits, [op |-> "update", old |-> copy.digest,
                                digest |-> digest, algorithms |-> algorithms])
                ELSE /\ algorithms # {}
                     /\ edits' = Append(edits, [op |-> "add", digest |-> digest,
                                  platform |-> copy.platform, zstd |-> copy.zstd,
                                  algorithms |-> algorithms])
           /\ UNCHANGED pc
  /\ UNCHANGED <<original, opt, candidates, updated, stored, signatures>>

EditInstances ==
  /\ pc = "copy" /\ copies = <<>>
  /\ updated' = editInstances(updated, edits)
  /\ Goto("write")
  /\ UNCHANGED <<original, opt, copies, edits, candidates, stored, signatures>>

(* One turn of the loop over the list types.                               *)
WriteList ==
  /\ pc = "write" /\ candidates # <<>>
  /\ LET type == Head(candidates)
         attempted == IF type = updated.type THEN updated
                      ELSE ConvertToMIMEType(updated, type)
     IN IF attempted # original /\ cannotModifyManifestList
        THEN Fail /\ UNCHANGED <<candidates, stored>>
        ELSE \/ stored' = attempted /\ Goto("sign") /\ UNCHANGED candidates
             \/ candidates' = Tail(candidates) /\ UNCHANGED <<pc, stored>>
  /\ UNCHANGED <<original, opt, copies, edits, updated, signatures>>

AllTypesFailed ==
  /\ pc = "write" /\ candidates = <<>>
  /\ Fail
  /\ UNCHANGED <<original, opt, copies, edits, candidates, updated, stored, signatures>>

(* createSignatures and PutSignaturesWithFormat.                           *)
Sign ==
  /\ pc = "sign"
  /\ \/ Fail /\ UNCHANGED signatures
     \/ /\ signatures' = (IF opt.signed THEN {original} ELSE {}) \cup
                           (IF opt.sign THEN {stored} ELSE {})
        /\ Goto("done")
  /\ UNCHANGED <<original, opt, copies, edits, candidates, updated, stored>>

Finished == pc \in {"done", "failed"} /\ UNCHANGED vars

Next == Start \/ CopyInstance \/ EditInstances \/ WriteList \/ AllTypesFailed \/ Sign \/ Finished

Spec == Init /\ [][Next]_vars

-----------------------------------------------------------------------------
(* Properties *)

TypeOK ==
  /\ original \in SourceLists /\ opt \in OptionSets
  /\ pc \in Steps
  /\ candidates \in Seq({Index, List})
  /\ stored.type \in {Index, List, "none"}

(* What became of the entry at position i of the source list.              *)
Outcome(i) ==
  LET d == original.entries[i].digest
  IN IF Selected(d) THEN copied(d, [op |-> "copy"]) ELSE d

(* Every instance of the source is in the stored list, with its platform   *)
(* and the digest it was stored under, in the old order, although edits    *)
(* find entries by digests that earlier edits may have changed; whatever   *)
(* else is in the list is a clone.                                         *)
EveryInstanceIsListed ==
  LET clones == {e \in DOMAIN edits : edits[e].op = "add"}
  IN pc = "write" =>
       /\ Len(updated.entries) = Len(original.entries) + Cardinality(clones)
       /\ clones = {} => [i \in DOMAIN updated.entries |->
                            <<updated.entries[i].digest, updated.entries[i].platform>>]
                       = [i \in DOMAIN original.entries |->
                            <<Outcome(i), original.entries[i].platform>>]
       /\ \A i \in DOMAIN original.entries : \E e \in ToSet(updated.entries) :
            e.digest = Outcome(i) /\ e.platform = original.entries[i].platform
       /\ \A c \in clones : \E e \in ToSet(updated.entries) :
            e.digest = edits[c].digest /\ e.platform = edits[c].platform

(* Clones never come before what old clients, which take the first entry   *)
(* that fits, would choose: no zstd entry is before another one.           *)
ClonesDoNotGetInTheWay ==
  (pc = "write" /\ updated.type = Index /\ \E e \in DOMAIN edits : edits[e].op = "add") =>
    \A i, j \in DOMAIN updated.entries :
      i < j /\ updated.entries[i].zstd => updated.entries[j].zstd

(* A list that must not be modified is stored as it was, and every         *)
(* signature at the destination is for the list stored there.              *)
SignaturesAreForTheList ==
  pc = "done" => /\ cannotModifyManifestList => stored = original
                 /\ signatures \subseteq {stored}
                 /\ opt.forced # NoForce => stored.type = opt.forced

(* Converting a Docker list to an index does not change which instance a   *)
(* client chooses (ChooseInstance before, chooseInstance after).           *)
ConversionKeepsTheChoice ==
  (pc = "sign" /\ original.type = List /\ stored.type = Index) =>
    \A wanted \in {<<"linux">>, <<"linux", "arm">>, <<"arm", "linux">>}, gzip \in BOOLEAN :
      chooseInstance(stored.entries, wanted, gzip) = ChooseInstance(updated.entries, wanted)

(* The stored list lists what was copied, is signed as it is stored, and   *)
(* works for the clients of the source list.                               *)
ListIsSound ==
  /\ TypeOK /\ EveryInstanceIsListed /\ ClonesDoNotGetInTheWay
  /\ SignaturesAreForTheList /\ ConversionKeepsTheChoice
=============================================================================
