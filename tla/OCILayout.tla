------------------------------ MODULE OCILayout ------------------------------
(***************************************************************************)
(* The oci: transport (oci/layout): a directory with blobs, named by their *)
(* digests, and index.json.  One process at a time pushes to the directory *)
(* or deletes from it; within a push, blobs are written by several         *)
(* goroutines.  Every write may fail, and the process may die at any step; *)
(* a file written in place is then torn.                                   *)
(***************************************************************************)
EXTENDS Naturals, Sequences, SequencesExt, FiniteSets

CONSTANTS
  Objects,  \* [digest |-> [kind : "blob", "manifest", "index", "docker"; uses : Seq(digest)]]
  Names,    \* names of images; "" is no name
  Initial,  \* the layouts to start from: [index, blobs]
  Workers,  \* goroutines that put blobs
  MaxSessions \* pushes and deletions

VARIABLES
  blobs,   \* [digest |-> "ok" or "torn"], the files below blobs/
  index,   \* index.json: [state |-> "absent", "ok" or "torn", entries |-> Seq([digest, name])]
  shared,  \* blobs/ is OCISharedBlobDirPath, which other layouts use as well
  theirs,  \* ghost: the files of that directory that other layouts use
  session, \* the push or deletion in progress
  workers, \* [worker |-> the blob it is writing]
  sessions,\* number of sessions so far
  promised,\* ghost: [name |-> digest] of the images pushed and not deleted
  interrupted \* ghost: the manifests whose file was being written when the session ended

vars == <<blobs, index, shared, theirs, session, workers, sessions, promised, interrupted>>

NoSession == [op |-> "none"]
Free      == [digest |-> "", good |-> FALSE]
ObjectDigests == DOMAIN Objects
Present   == DOMAIN blobs

Stored(d, state) == [x \in Present \union {d} |-> IF x = d THEN state ELSE blobs[x]]
Removed(d)       == [x \in Present \ {d} |-> blobs[x]]
Readable(d)      == d \in Present /\ blobs[d] = "ok"

(* The places of digests in an image: <<0, 0>> is its own, <<k, 0>> the    *)
(* k-th it refers to, <<k, m>> the m-th that one refers to in turn, which  *)
(* counts for an index.  The same digest may be in several places.         *)
Inner(d, k) == IF Objects[d].kind = "index" THEN Objects[Objects[d].uses[k]].uses ELSE <<>>
Places(d) ==
  {<<0, 0>>} \union {<<k, 0>> : k \in DOMAIN Objects[d].uses}
  \union UNION {{<<k, m>> : m \in DOMAIN Inner(d, k)} : k \in DOMAIN Objects[d].uses}
DigestAt(d, p) ==
  IF p[1] = 0 THEN d ELSE IF p[2] = 0 THEN Objects[d].uses[p[1]] ELSE Inner(d, p[1])[p[2]]

(* What an image needs, itself included                                    *)
Uses(d) == {DigestAt(d, p) : p \in Places(d)}

TypeOK ==
  /\ Present \subseteq ObjectDigests /\ \A d \in Present : blobs[d] \in {"ok", "torn"}
  /\ index.state \in {"absent", "ok", "torn"}
  /\ session.op \in {"none", "push", "manifest", "commit", "unlink", "reindex"}
  /\ \A w \in Workers : workers[w].digest \in ObjectDigests \union {""}
  /\ sessions \in 0..MaxSessions

Init ==
  /\ \E l \in Initial : blobs = l.blobs /\ index = l.index
  /\ shared \in BOOLEAN /\ theirs = IF shared THEN Present ELSE {}
  /\ session = NoSession /\ sessions = 0
  /\ workers = [w \in Workers |-> Free]
  /\ promised = <<>> /\ interrupted = {}

-----------------------------------------------------------------------------
(* Looking an image up.                                                    *)

supported(d) == Objects[d].kind \in {"manifest", "index", "docker"}

(* A reference is [name, at]: a name, an index of an entry, or neither.    *)
getManifestDescriptor(ref) ==
  LET named == {i \in DOMAIN index.entries : index.entries[i].name = ref.name /\ supported(index.entries[i].digest)}
  IN  IF index.state # "ok" THEN {}
      ELSE IF ref.at # 0 THEN {ref.at} \intersect DOMAIN index.entries
      ELSE IF ref.name # "" THEN {i \in named : \A j \in named : i <= j}
      ELSE IF Len(index.entries) = 1 THEN {1} ELSE {}

References == [name : Names, at : {0}] \union [name : {""}, at : 0..Len(index.entries)]

-----------------------------------------------------------------------------
(* Pushing an image.                                                       *)

newImageDestination(name) ==
  /\ session = NoSession /\ sessions < MaxSessions
  /\ index.state # "torn"
  /\ sessions' = sessions + 1
  /\ session' = [op |-> "push", name |-> name, entries |-> index.entries, have |-> {}, top |-> ""]
  /\ UNCHANGED <<blobs, index, shared, theirs, workers, promised, interrupted>>

(* copy puts blobs before the primary manifest.                            *)
StartPutBlob(w, d, good) ==
  /\ session.op = "push" /\ session.top = "" /\ workers[w] = Free
  /\ Objects[d].kind = "blob"
  /\ workers' = [workers EXCEPT ![w] = [digest |-> d, good |-> good]]
  /\ UNCHANGED <<blobs, index, shared, theirs, session, sessions, promised, interrupted>>

(* The caller's stream fails at its end if the contents do not match, and  *)
(* any file operation may fail: the temporary file is removed.             *)
PutBlobFails(w) ==
  /\ workers[w] # Free
  /\ workers' = [workers EXCEPT ![w] = Free]
  /\ UNCHANGED <<blobs, index, shared, theirs, session, sessions, promised, interrupted>>

blobFileSyncAndRename(w) ==
  /\ workers[w] # Free /\ workers[w].good
  /\ blobs' = Stored(workers[w].digest, "ok")
  /\ session' = [session EXCEPT !.have = @ \union {workers[w].digest}]
  /\ workers' = [workers EXCEPT ![w] = Free]
  /\ UNCHANGED <<index, shared, theirs, sessions, promised, interrupted>>

TryReusingBlob(d) ==
  /\ session.op = "push" /\ session.top = "" /\ Objects[d].kind = "blob"
  /\ d \in Present
  /\ session' = [session EXCEPT !.have = @ \union {d}]
  /\ UNCHANGED <<blobs, index, shared, theirs, workers, sessions, promised, interrupted>>

(* copy puts a manifest after everything it refers to.  The file is        *)
(* written in place.                                                       *)
PutManifest(d) ==
  /\ session.op = "push" /\ \A w \in Workers : workers[w] = Free
  /\ Objects[d].kind \in {"manifest", "index"}
  /\ ToSet(Objects[d].uses) \subseteq session.have /\ session.top = ""
  /\ blobs' = Stored(d, "torn")
  /\ session' = [session EXCEPT !.op = "manifest", !.have = @ \union {d}, !.top = d]
  /\ UNCHANGED <<index, shared, theirs, workers, sessions, promised, interrupted>>

(* The name moves to the new entry; an entry of the same digest without a  *)
(* name is replaced, else the entry is added.                              *)
addManifest(entries, desc) ==
  LET same    == {i \in DOMAIN entries : desc.name # "" /\ entries[i].name = desc.name}
      renamed == [i \in DOMAIN entries |-> IF i \in same /\ \A j \in same : i <= j THEN [entries[i] EXCEPT !.name = ""] ELSE entries[i]]
      unnamed == {i \in DOMAIN entries : renamed[i].digest = desc.digest /\ renamed[i].name = ""}
  IN  IF unnamed = {} THEN Append(renamed, desc)
      ELSE [i \in DOMAIN entries |-> IF i \in unnamed /\ \A j \in unnamed : i <= j THEN desc ELSE renamed[i]]

(* An instance of a list gets no entry, the primary manifest does.         *)
PutManifestDone(instance) ==
  /\ session.op = "manifest"
  /\ blobs' = Stored(session.top, "ok") /\ interrupted' = interrupted \ {session.top}
  /\ session' = IF instance THEN [session EXCEPT !.op = "push", !.top = ""]
                ELSE [session EXCEPT !.op = "push", !.entries = addManifest(@, [digest |-> session.top, name |-> session.name])]
  /\ UNCHANGED <<index, shared, theirs, workers, sessions, promised>>

\* the manifest being written, whose file is torn meanwhile
Rewritten == IF session.op = "manifest" THEN {session.top} ELSE {}

(* The caller gives up, and so may a file operation.                       *)
Close ==
  /\ session # NoSession /\ \A w \in Workers : workers[w] = Free
  /\ session' = NoSession
  /\ interrupted' = interrupted \union Rewritten
  /\ UNCHANGED <<blobs, index, shared, theirs, workers, sessions, promised>>

Commit ==
  /\ session.op = "push" /\ session.top # ""
  /\ index' = [state |-> "torn", entries |-> session.entries]
  /\ session' = [session EXCEPT !.op = "commit"]
  /\ UNCHANGED <<blobs, shared, theirs, workers, sessions, promised, interrupted>>

CommitDone ==
  /\ session.op = "commit"
  /\ index' = [index EXCEPT !.state = "ok"]
  /\ promised' = IF session.name = "" THEN promised
                 ELSE [n \in DOMAIN promised \union {session.name} |-> IF n = session.name THEN session.top ELSE promised[n]]
  /\ session' = NoSession
  /\ UNCHANGED <<blobs, shared, theirs, workers, sessions, interrupted>>

-----------------------------------------------------------------------------
(* Deleting an image.                                                      *)

(* The places of the digest d in the images of the entries with the        *)
(* indices js, counted                                                     *)
Counted(d, js) ==
  UNION {{<<j, p>> : p \in {q \in Places(index.entries[j].digest) : DigestAt(index.entries[j].digest, q) = d}} : j \in js}
countBlobs(d, js) == Cardinality(Counted(d, js))

(* The manifests that must be parsed to count                              *)
countable(d) ==
  /\ Objects[d].kind \in {"manifest", "index"}
  /\ Readable(d)
  /\ Objects[d].kind = "index" => \A c \in ToSet(Objects[d].uses) : Objects[c].kind = "manifest" /\ Readable(c)

(* Mutation: the use of a blob by other images is not counted. *)
unusedElsewhereUncounted(d, i) == countBlobs(d, {i}) > 0

unusedElsewhere(d, i) == countBlobs(d, DOMAIN index.entries) - countBlobs(d, {i}) = 0

getBlobsToDelete(i) ==
  {d \in UNION {Uses(index.entries[j].digest) : j \in DOMAIN index.entries} : unusedElsewhere(d, i)}

Without(name) == [n \in DOMAIN promised \ {name} |-> promised[n]]

DeleteImage(ref) ==
  /\ session = NoSession /\ sessions < MaxSessions
  /\ sessions' = sessions + 1
  /\ \E i \in getManifestDescriptor(ref) :
       /\ \A j \in DOMAIN index.entries : countable(index.entries[j].digest)
       /\ session' = [op |-> "unlink", at |-> i, todo |-> getBlobsToDelete(i)]
       /\ promised' = Without(index.entries[i].name)
  /\ UNCHANGED <<blobs, index, shared, theirs, workers, interrupted>>

(* Only the local directory is deleted from; blobs that are not there are  *)
(* ignored, and those of a shared directory are never touched.             *)
deleteBlob(d) ==
  /\ session.op = "unlink" /\ d \in session.todo
  /\ session' = [session EXCEPT !.todo = @ \ {d}]
  /\ blobs' = IF shared THEN blobs ELSE Removed(d)
  /\ UNCHANGED <<index, shared, theirs, workers, sessions, promised, interrupted>>

deleteReferenceFromIndex ==
  /\ session.op = "unlink" /\ session.todo = {}
  /\ index' = [state |-> "torn", entries |-> RemoveAt(index.entries, session.at)]
  /\ session' = [op |-> "reindex"]
  /\ UNCHANGED <<blobs, shared, theirs, workers, sessions, promised, interrupted>>

saveJSON ==
  /\ session.op = "reindex"
  /\ index' = [index EXCEPT !.state = "ok"]
  /\ session' = NoSession
  /\ UNCHANGED <<blobs, shared, theirs, workers, sessions, promised, interrupted>>

(* The process dies; temporary files are left behind.                      *)
Crash ==
  /\ session # NoSession
  /\ session' = NoSession
  /\ workers' = [w \in Workers |-> Free]
  /\ interrupted' = interrupted \union Rewritten
  /\ UNCHANGED <<blobs, index, shared, theirs, sessions, promised>>

(* Nobody has anything to do, or index.json is torn and every call fails.    *)
Finished == session = NoSession /\ (sessions = MaxSessions \/ index.state = "torn") /\ UNCHANGED vars

Next ==
  \/ \E name \in Names \union {""} : newImageDestination(name)
  \/ \E w \in Workers : \/ \E d \in ObjectDigests, good \in BOOLEAN : StartPutBlob(w, d, good)
                        \/ PutBlobFails(w) \/ blobFileSyncAndRename(w)
  \/ \E d \in ObjectDigests : TryReusingBlob(d) \/ PutManifest(d) \/ deleteBlob(d)
  \/ \E instance \in BOOLEAN : PutManifestDone(instance)
  \/ Close \/ Commit \/ CommitDone
  \/ \E ref \in References : DeleteImage(ref)
  \/ deleteReferenceFromIndex \/ saveJSON \/ Crash \/ Finished

Spec == Init /\ [][Next]_vars

-----------------------------------------------------------------------------
(* Properties.                                                             *)

(* The file x is there, and whole unless it is a manifest that is being    *)
(* written in place again, or the last such write was interrupted.         *)
Kept(x) == x \in Present /\ (blobs[x] = "torn" => x \in interrupted \union Rewritten)

(***************************************************************************)
(* However pushes and deletions fail and the process dies:                 *)
(* - a blob that is there is whole (PutBlobWithOptions);                   *)
(* - an image that was committed under a name, and neither replaced nor    *)
(*   deleted, keeps all its files, except that writing one of its          *)
(*   manifests in place again (PutManifest) tears that file if it is       *)
(*   interrupted; so do files other layouts use in a shared directory      *)
(*   (getBlobsToDelete, deleteBlobs);                                      *)
(* - while index.json is not torn, the image is found under its name, and  *)
(*   a name has one entry (addManifest).                                   *)
(***************************************************************************)
LayoutIsSound ==
  /\ TypeOK
  /\ \A d \in Present : Objects[d].kind = "blob" => blobs[d] = "ok"
  /\ \A n \in DOMAIN promised : \A x \in Uses(promised[n]) : Kept(x)
  /\ \A x \in theirs : Kept(x)
  /\ index.state = "ok" =>
       /\ \A n \in DOMAIN promised : \E i \in getManifestDescriptor([name |-> n, at |-> 0]) : index.entries[i].digest = promised[n]
       /\ \A n \in Names : Cardinality({i \in DOMAIN index.entries : index.entries[i].name = n}) <= 1
=============================================================================
