--------------------------- MODULE DockerSignatures ---------------------------
(***************************************************************************)
(* Manifests and signatures of images at a registry: what a destination    *)
(* writes (PutManifest and PutSignaturesWithFormat in docker_image_dest.go)*)
(* what a source reads (docker_image_src.go), and deleteImage.  Signatures *)
(* are kept in numbered files of a lookaside, by the X-Registry-Supports-  *)
(* Signatures extension, or attached to the manifest as another manifest.  *)
(* Every request and file operation is a step of its own and may fail.     *)
(* Another process may attach signatures to the same manifests meanwhile.  *)
(***************************************************************************)
EXTENDS Integers, Sequences, FiniteSets

CONSTANTS
  Digests,     \* of manifests
  NoDigest,
  Signatures,  \* the signatures there are
  Sigstore,    \* those of them in the sigstore format
  Lists,       \* the lists of signatures callers write
  MaxFiles,    \* maxLookasideSignatures
  MaxCalls     \* bound on the calls of destinations and deletions

VARIABLES
  config,         \* [extension, attachments, unknownDigest : BOOLEAN]
  tag,            \* the manifest the tag names
  manifests,      \* the manifests the registry has
  lookaside,      \* the files: lookaside[d][i] is a set of at most one signature
  attached,       \* the signatures in the attachment manifest of d
  extension,      \* the signatures of d in the API extension
  manifestDigest, \* of the destination
  call,           \* the call in progress: [op, digest, sigs]
  pc, index,      \* where it is
  fetched,        \* what it read before it writes
  other,          \* another destination that attaches signatures: what it has read
  overlapped,     \* the manifests to which two destinations attached signatures at once
  written,        \* written[d]: the list last stored completely in the lookaside, and whether none was begun since
  kept,           \* kept[d]: signatures stored in shared places
  calls           \* calls begun

store == <<tag, manifests, lookaside, attached, extension>>
others == <<other, overlapped>>
vars == <<config, store, manifestDigest, call, pc, index, fetched, others, written, kept, calls>>

Index   == 0..MaxFiles
NoCall  == [op |-> "none", digest |-> NoDigest, sigs |-> <<>>]
Nothing == [digest |-> NoDigest, sigs |-> {}]
Unknown == [known |-> FALSE, sigs |-> <<>>]

TypeOK ==
  /\ config \in [extension : BOOLEAN, attachments : BOOLEAN, unknownDigest : BOOLEAN]
  /\ tag \in Digests \cup {NoDigest}
  /\ manifests \in SUBSET Digests
  /\ lookaside \in [Digests -> [Index -> SUBSET Signatures]]
  /\ attached \in [Digests -> SUBSET Signatures]
  /\ extension \in [Digests -> SUBSET Signatures]
  /\ manifestDigest \in Digests \cup {NoDigest}
  /\ call.op \in {"none", "put", "delete"} /\ call.digest \in Digests \cup {NoDigest} /\ call.sigs \in Seq(Signatures)
  /\ pc \in {"idle", "attach", "upload", "others", "write", "clear", "extend", "manifest", "ended", "failed"}
  /\ index \in Nat
  /\ fetched \in SUBSET Signatures
  /\ other \in [digest : Digests \cup {NoDigest}, sigs : SUBSET Signatures]
  /\ overlapped \in SUBSET Digests
  /\ written \in [Digests -> [known : BOOLEAN, sigs : Seq(Signatures)]]
  /\ kept \in [Digests -> SUBSET Signatures]
  /\ calls \in 0..MaxCalls

Init ==
  /\ config \in [extension : BOOLEAN, attachments : BOOLEAN, unknownDigest : BOOLEAN]
  /\ tag = NoDigest
  /\ manifests = {}
  /\ lookaside = [d \in Digests |-> [i \in Index |-> {}]]
  /\ attached = [d \in Digests |-> {}]
  /\ extension = [d \in Digests |-> {}]
  /\ manifestDigest = NoDigest
  /\ call = NoCall
  /\ pc = "idle"
  /\ index = 0
  /\ fetched = {}
  /\ other = Nothing /\ overlapped = {}
  /\ written = [d \in Digests |-> Unknown]
  /\ kept = [d \in Digests |-> {}]
  /\ calls = 0

SigstoreOf(sigs) == {sigs[k] : k \in DOMAIN sigs} \cap Sigstore
OthersOf(sigs)   == {sigs[k] : k \in DOMAIN sigs} \ Sigstore

End(how) == pc' = how

(* A call may fail at each of its requests and file operations.            *)
Fail ==
  /\ pc \notin {"idle", "ended", "failed"}
  /\ End("failed")
  /\ UNCHANGED <<config, store, manifestDigest, call, index, fetched, written, kept, calls, others>>

(* Its caller has the result of the call.                                  *)
Returned ==
  /\ pc \in {"ended", "failed"}
  /\ pc' = "idle" /\ call' = NoCall /\ index' = 0 /\ fetched' = {}
  /\ UNCHANGED <<config, store, manifestDigest, written, kept, calls, others>>

-----------------------------------------------------------------------------
(* PutManifest of the primary manifest d, whose digest is noted before it  *)
(* is uploaded, which may fail.  A reference with an unknown digest pushes *)
(* it without a tag, and does not note the digest.                         *)
PutManifest(d) ==
  /\ pc = "idle" /\ calls < MaxCalls
  /\ calls' = calls + 1
  /\ manifestDigest' = IF config.unknownDigest THEN manifestDigest ELSE d
  /\ \/ /\ manifests' = manifests \cup {d}
        /\ tag' = IF config.unknownDigest THEN tag ELSE d
        /\ UNCHANGED pc
     \/ /\ End("failed")
        /\ UNCHANGED <<manifests, tag>>
  /\ UNCHANGED <<config, lookaside, attached, extension, call, index, fetched, written, kept, others>>

(* PutManifest of the instance d of a list, with manifest m                *)
PutInstance(d, m) ==
  /\ pc = "idle"
  /\ config.unknownDigest \/ d = m     \* manifest.MatchesDigest
  /\ manifests' = manifests \cup {m}
  /\ UNCHANGED <<config, tag, lookaside, attached, extension, manifestDigest, call, pc, index, fetched, written, kept, calls, others>>

(* PutSignaturesWithFormat, for an instance or the primary manifest        *)
PutSignatures(sigs, instance) ==
  LET d == IF instance # NoDigest THEN instance ELSE manifestDigest
  IN  /\ pc = "idle" /\ calls < MaxCalls
      /\ instance # NoDigest => instance \in manifests
      /\ calls' = calls + 1
      /\ call' = [op |-> "put", digest |-> d, sigs |-> sigs]
      /\ pc' = IF d = NoDigest THEN "failed"
               ELSE IF SigstoreOf(sigs) # {} THEN "attach" ELSE "others"
      /\ UNCHANGED <<config, store, manifestDigest, index, fetched, written, kept, others>>

(* putSignaturesToSigstoreAttachments reads the attachment manifest ...    *)
Attach ==
  /\ pc = "attach"
  /\ IF config.attachments
     THEN /\ pc' = "upload" /\ fetched' = attached[call.digest]
          /\ overlapped' = overlapped \cup ({call.digest} \cap {other.digest})
     ELSE End("failed") /\ UNCHANGED <<fetched, overlapped>>
  /\ UNCHANGED <<config, store, manifestDigest, call, index, written, kept, calls, other>>

(* ... and replaces it by one with the signatures it does not have.        *)
UploadAttachments ==
  /\ pc = "upload"
  /\ attached' = [attached EXCEPT ![call.digest] = fetched \cup SigstoreOf(call.sigs)]
  /\ kept' = [kept EXCEPT ![call.digest] = @ \cup SigstoreOf(call.sigs)]
  /\ pc' = "others"
  /\ UNCHANGED <<config, tag, manifests, lookaside, extension, manifestDigest, call, index, fetched, written, calls, others>>

(* The same in another process, whose destination has a list of its own    *)
OtherAttaches(d) ==
  /\ config.attachments /\ other = Nothing /\ calls < MaxCalls
  /\ calls' = calls + 1
  /\ other' = [digest |-> d, sigs |-> attached[d]]
  /\ overlapped' = IF pc = "upload" THEN overlapped \cup ({d} \cap {call.digest}) ELSE overlapped
  /\ UNCHANGED <<config, store, manifestDigest, call, pc, index, fetched, written, kept>>

OtherUploads(s) ==
  /\ other # Nothing
  /\ other' = Nothing
  /\ attached' = [attached EXCEPT ![other.digest] = other.sigs \cup {s}]
  /\ kept' = [kept EXCEPT ![other.digest] = @ \cup {s}]
  /\ UNCHANGED <<config, tag, manifests, lookaside, extension, manifestDigest, call, pc, index, fetched,
                 overlapped, written, calls>>

OtherFails ==
  /\ other # Nothing
  /\ other' = Nothing
  /\ UNCHANGED <<config, store, manifestDigest, call, pc, index, fetched, overlapped, written, kept, calls>>

(* The rest of PutSignaturesWithFormat: all signatures, if some are not in *)
(* the sigstore format, go to the extension or to the lookaside.           *)
Others ==
  /\ pc = "others"
  /\ IF OthersOf(call.sigs) = {}
     THEN End("ended") /\ UNCHANGED <<fetched, written>>
     ELSE IF config.extension
     THEN pc' = "extend" /\ fetched' = extension[call.digest] /\ UNCHANGED written
     ELSE /\ pc' = "write"
          /\ written' = [written EXCEPT ![call.digest] = Unknown]
          /\ UNCHANGED fetched
  /\ index' = 0
  /\ UNCHANGED <<config, store, manifestDigest, call, kept, calls, others>>

(* putSignaturesToLookaside, one file (putOneSignature)                    *)
WriteFile ==
  /\ pc = "write"
  /\ IF index < Len(call.sigs)
     THEN /\ lookaside' = [lookaside EXCEPT ![call.digest][index] = {call.sigs[index + 1]}]
          /\ index' = index + 1
          /\ UNCHANGED pc
     ELSE pc' = "clear" /\ UNCHANGED <<lookaside, index>>
  /\ UNCHANGED <<config, tag, manifests, attached, extension, manifestDigest, call, fetched, written, kept, calls, others>>

(* Mutation: the loop begins after the first file that is left over.       *)
FirstExtraSkipped == IF call.op = "put" /\ index = Len(call.sigs) THEN index + 1 ELSE index

(* The file deleteOneSignature looks at                                    *)
ToDelete == index

(* The deleting loop of putSignaturesToLookaside and of deleteImage: it    *)
(* ends at the first file that is missing.                                 *)
Clear ==
  /\ pc = "clear"
  /\ LET i == ToDelete
     IN  IF i \in Index /\ lookaside[call.digest][i] # {}
         THEN /\ lookaside' = [lookaside EXCEPT ![call.digest][i] = {}]
              /\ index' = i + 1
              /\ UNCHANGED <<pc, written>>
         ELSE /\ written' = [written EXCEPT ![call.digest] = [known |-> TRUE, sigs |-> call.sigs]]
              /\ End("ended")
              /\ UNCHANGED <<lookaside, index>>
  /\ UNCHANGED <<config, tag, manifests, attached, extension, manifestDigest, call, fetched, kept, calls, others>>

(* putSignaturesToAPIExtension, one signature: those in another format are *)
(* refused, those the server listed are not repeated.                      *)
Extend ==
  /\ pc = "extend"
  /\ IF index = Len(call.sigs)
     THEN End("ended") /\ UNCHANGED <<extension, index, kept>>
     ELSE IF call.sigs[index + 1] \in Sigstore
     THEN End("failed") /\ UNCHANGED <<extension, index, kept>>
     ELSE /\ extension' = [extension EXCEPT ![call.digest] = @ \cup ({call.sigs[index + 1]} \ fetched)]
          /\ kept' = [kept EXCEPT ![call.digest] = @ \cup {call.sigs[index + 1]}]
          /\ index' = index + 1
          /\ UNCHANGED pc
  /\ UNCHANGED <<config, tag, manifests, lookaside, attached, manifestDigest, call, fetched, written, calls, others>>

-----------------------------------------------------------------------------
(* deleteImage: the manifest the tag names is deleted by its digest, then  *)
(* its files in the lookaside.                                             *)
Delete ==
  /\ pc = "idle" /\ calls < MaxCalls /\ ~config.unknownDigest
  /\ tag # NoDigest
  /\ calls' = calls + 1
  /\ call' = [op |-> "delete", digest |-> tag, sigs |-> <<>>]
  /\ pc' = "manifest"
  /\ UNCHANGED <<config, store, manifestDigest, index, fetched, written, kept, others>>

DeleteManifest ==
  /\ pc = "manifest"
  /\ manifests' = manifests \ {call.digest}
  /\ tag' = IF tag = call.digest THEN NoDigest ELSE tag
  /\ pc' = "clear"
  /\ written' = [written EXCEPT ![call.digest] = Unknown]
  /\ UNCHANGED <<config, lookaside, attached, extension, manifestDigest, call, index, fetched, kept, calls, others>>

-----------------------------------------------------------------------------
(* appendSignaturesFromLookaside reads files up to the first one missing,  *)
(* and fails if there are maxLookasideSignatures or more.                  *)
Files(d) == CHOOSE n \in 0..MaxFiles : /\ \A i \in 0..(n - 1) : lookaside[d][i] # {}
                                       /\ n = MaxFiles \/ lookaside[d][n] = {}
TooMany(d) == Files(d) = MaxFiles
Visible(d) == [k \in 1..Files(d) |-> CHOOSE s \in lookaside[d][k - 1] : TRUE]

(* What GetSignaturesWithFormat returns for the manifest d, unless reading *)
(* the lookaside fails                                                     *)
SignaturesOf(d) ==
  (IF config.extension THEN extension[d] ELSE {Visible(d)[k] : k \in DOMAIN Visible(d)})
  \cup (IF config.attachments THEN attached[d] ELSE {})

Next ==
  \/ \E d \in Digests : PutManifest(d)
  \/ \E d, m \in Digests : PutInstance(d, m)
  \/ \E sigs \in Lists, i \in Digests \cup {NoDigest} : PutSignatures(sigs, i)
  \/ Attach \/ UploadAttachments \/ Others \/ WriteFile \/ Clear \/ Extend \/ Fail \/ Returned
  \/ Delete \/ DeleteManifest
  \/ (\E d \in Digests : OtherAttaches(d)) \/ (\E s \in Sigstore : OtherUploads(s)) \/ OtherFails

Spec == Init /\ [][Next]_vars

-----------------------------------------------------------------------------
(* Once PutSignatures has succeeded a source reads from the lookaside the  *)
(* signatures written, in order, and no other, whatever earlier calls that *)
(* failed half way left behind, if they are not too many to be read; after *)
(* deleteImage it reads none.  Whether signatures in the sigstore format   *)
(* are read there as well is not said.                                     *)
LookasideIsExact ==
  \A d \in Digests :
    LET sigs == written[d].sigs
        read == {Visible(d)[k] : k \in DOMAIN Visible(d)}
    IN  written[d].known /\ Len(sigs) < MaxFiles =>
          /\ ~TooMany(d)
          /\ OthersOf(sigs) \subseteq read /\ read \subseteq {sigs[k] : k \in DOMAIN sigs}
          /\ SigstoreOf(sigs) = {} => Visible(d) = sigs

(* Signatures attached, or added to the extension, are shared with other   *)
(* destinations: a source reads those that any of them stored, unless two  *)
(* attached signatures to the same manifest at once: the later upload      *)
(* replaces what the other has added since it was read.                    *)
SharedSignaturesStay ==
  \A d \in Digests \ overlapped :
    config.extension \/ ~TooMany(d) => kept[d] \subseteq SignaturesOf(d)

(* What was stored is what is read.                                        *)
SignaturesAreExact == TypeOK /\ LookasideIsExact /\ SharedSignaturesStay
===============================================================================
