----------------------------- MODULE DockerUpload -----------------------------
(***************************************************************************)
(* One blob pushed to a registry (docker/docker_image_dest.go): reuse of a *)
(* blob that is there or can be mounted, else the upload, whose body the   *)
(* HTTP transport reads in a goroutine of its own through an UploadReader  *)
(* (internal/uploadreader).  A digest is that of the first k chunks of the *)
(* stream, so the blob is Size, and Variant is a substitute of it.         *)
(***************************************************************************)
EXTENDS Integers, Sequences

CONSTANTS
  Size,            \* chunks of the stream
  CandidateLists   \* what the blob info cache may answer: sequences of [repo, digest]

Variant == Size + 1
BlobDigests == 0..Variant
Repos   == {"dest", "other"}

VARIABLES
  job,        \* [known, precompute, exact : BOOLEAN, candidates]: the call
  registry,   \* blobs of each repository
  recorded,   \* known locations recorded in the blob info cache for "dest"
  pc,         \* of the calling goroutine
  next,       \* index of the candidate to try
  missing,    \* originalCandidateKnownToBeMissing
  digest,     \* inputInfo.Digest is known
  pos,        \* chunks of the stream read so far
  stream,     \* "open", or how it ended
  transport,  \* the goroutine of the HTTP transport
  lock,       \* UploadReader.mutex
  terminated, \* UploadReader.terminationError != nil
  response,   \* of the PATCH request
  result      \* what the caller was told: a digest, or -1

upload == <<pos, stream, transport, lock, terminated, response>>
vars == <<job, registry, recorded, pc, next, missing, digest, result, upload>>

TypeOK ==
  /\ job \in [known : BOOLEAN, precompute : BOOLEAN, exact : BOOLEAN, candidates : CandidateLists]
  /\ registry \in [Repos -> SUBSET BlobDigests]
  /\ recorded \in SUBSET BlobDigests
  /\ pc \in {"try", "candidates", "exists", "mount", "put", "exact", "post", "patch", "terminate", "commit", "done"}
  /\ next \in Nat
  /\ missing \in BOOLEAN /\ digest \in BOOLEAN /\ terminated \in BOOLEAN
  /\ pos \in 0..Size
  /\ stream \in {"open", "EOF", "error"}
  /\ transport \in {"idle", "between", "reading", "sent", "stopped"}
  /\ lock \in {"free", "transport"}
  /\ response \in {"none", "success", "failure"}
  /\ result \in BlobDigests \cup {-1}

(* newImageDestination, and the state of the registry                      *)
Init ==
  /\ job \in [known : BOOLEAN, precompute : BOOLEAN, exact : BOOLEAN, candidates : CandidateLists]
  /\ registry \in [Repos -> SUBSET {Size, Variant}]
  /\ recorded = {}
  /\ pc = IF job.known THEN "try" ELSE "put"  \* TryReusingBlob needs a digest
  /\ next = 1
  /\ missing = FALSE
  /\ digest = job.known
  /\ pos = 0
  /\ stream = "open"
  /\ transport = "idle"
  /\ lock = "free"
  /\ terminated = FALSE
  /\ response = "none"
  /\ result = -1

Return(d) == pc' = "done" /\ result' = d

(* blobExists answers truly, or fails.                                     *)
blobExists(repo, d) == IF d \in registry[repo] THEN {"yes", "error"} ELSE {"no", "error"}

(* A blob was found in the destination's repository                        *)
Reuse(d) == Return(d) /\ recorded' = recorded \cup {d}

-----------------------------------------------------------------------------
(* TryReusingBlobWithOptions, the exact blob (tryReusingExactBlob)         *)
TryExact ==
  /\ pc = "try"
  /\ IF ~job.exact
     THEN pc' = "candidates" /\ UNCHANGED <<recorded, missing, result>>
     ELSE \E e \in blobExists("dest", Size) :
            CASE e = "yes"   -> Reuse(Size) /\ UNCHANGED missing
              [] e = "no"    -> pc' = "candidates" /\ missing' = TRUE /\ UNCHANGED <<recorded, result>>
              [] OTHER       -> Return(-1) /\ UNCHANGED <<recorded, missing>>
  /\ UNCHANGED <<job, registry, next, digest, upload>>

candidate == job.candidates[next]

(* The loop over candidates: those already known to be missing are skipped *)
NextCandidate ==
  /\ pc = "candidates"
  /\ IF next > Len(job.candidates)
     THEN pc' = "put" /\ UNCHANGED next
     ELSE IF missing /\ candidate.repo = "dest" /\ candidate.digest = Size
     THEN next' = next + 1 /\ UNCHANGED pc
     ELSE pc' = "exists" /\ UNCHANGED next
  /\ UNCHANGED <<job, registry, recorded, missing, digest, result, upload>>

(* The existence check of a candidate; failures only skip it.              *)
CandidateExists ==
  /\ pc = "exists"
  /\ \E e \in blobExists(candidate.repo, candidate.digest) :
       IF e # "yes"
       THEN pc' = "candidates" /\ next' = next + 1 /\ UNCHANGED <<recorded, result>>
       ELSE IF candidate.repo # "dest"
       THEN pc' = "mount" /\ UNCHANGED <<next, recorded, result>>
       ELSE Reuse(candidate.digest) /\ UNCHANGED next
  /\ UNCHANGED <<job, registry, missing, digest, upload>>

(* mountBlob succeeded.  An upload session the registry started instead is *)
(* cancelled, if it lets us, and the mount has failed.                     *)
mounted(status) == status = "created"

(* mountBlob: the blob may have gone since the check.                      *)
Mount ==
  /\ pc = "mount"
  /\ \E status \in {"created", "accepted", "error"} :
       /\ status = "created" => candidate.digest \in registry[candidate.repo]
       /\ registry' = IF status = "created" THEN [registry EXCEPT !["dest"] = @ \cup {candidate.digest}] ELSE registry
       /\ IF mounted(status)
          THEN Reuse(candidate.digest) /\ UNCHANGED next
          ELSE pc' = "candidates" /\ next' = next + 1 /\ UNCHANGED <<recorded, result>>
  /\ UNCHANGED <<job, missing, digest, upload>>

(* Someone else deletes a blob of another repository.                      *)
Collect ==
  /\ \E d \in registry["other"] : registry' = [registry EXCEPT !["other"] = @ \ {d}]
  /\ pc # "done"
  /\ UNCHANGED <<job, recorded, pc, next, missing, digest, result, upload>>

-----------------------------------------------------------------------------
(* PutBlobWithOptions: precomputing reads the stream to a file, which then *)
(* replaces it.                                                            *)
PutBlob ==
  /\ pc = "put"
  /\ IF digest
     THEN pc' = "exact" /\ UNCHANGED <<digest, result>>
     ELSE IF ~job.precompute
     THEN pc' = "post" /\ UNCHANGED <<digest, result>>
     ELSE \/ Return(-1) /\ UNCHANGED digest       \* the stream failed
          \/ digest' = TRUE /\ pc' = "exact" /\ UNCHANGED result
  /\ UNCHANGED <<job, registry, recorded, next, missing, upload>>

ExactBlob ==
  /\ pc = "exact"
  /\ \E e \in blobExists("dest", Size) :
       CASE e = "yes"   -> Reuse(Size)
         [] e = "no"    -> pc' = "post" /\ UNCHANGED <<recorded, result>>
         [] OTHER       -> Return(-1) /\ UNCHANGED recorded
  /\ UNCHANGED <<job, registry, next, missing, digest, upload>>

(* The upload is initiated, and the PATCH request with the body begins.    *)
Post ==
  /\ pc = "post"
  /\ \/ pc' = "patch" /\ transport' = "between" /\ UNCHANGED result
     \/ Return(-1) /\ UNCHANGED transport
  /\ UNCHANGED <<job, registry, recorded, next, missing, digest, pos, stream, lock, terminated, response>>

(* UploadReader.Read, called by the transport: first the lock ...          *)
ReadLock ==
  /\ transport = "between" /\ lock = "free"
  /\ IF terminated
     THEN transport' = "stopped" /\ UNCHANGED lock
     ELSE transport' = "reading" /\ lock' = "transport"
  /\ UNCHANGED <<job, registry, recorded, pc, next, missing, digest, result, pos, stream, terminated, response>>

(* ... then the stream, which may end, fail, or give the next chunk.       *)
ReadStream ==
  /\ transport = "reading"
  /\ lock' = "free"
  /\ \/ /\ pos < Size
        /\ pos' = pos + 1
        /\ transport' = "between"
        /\ UNCHANGED stream
     \/ /\ pos = Size
        /\ stream' = "EOF" /\ transport' = "sent"
        /\ UNCHANGED pos
     \/ /\ stream' = "error" /\ transport' = "stopped"
        /\ UNCHANGED pos
  /\ UNCHANGED <<job, registry, recorded, pc, next, missing, digest, result, terminated, response>>

(* client.Do returns: with success once the whole body was sent, with a    *)
(* failure at any time, even while the transport still reads the body.     *)
DoReturns ==
  /\ pc = "patch"
  /\ \/ transport = "sent" /\ response' = "success"
     \/ response' = "failure"
  /\ pc' = "terminate"
  /\ UNCHANGED <<job, registry, recorded, next, missing, digest, result, pos, stream, transport, lock, terminated>>

(* Mutation: Terminate does not wait for a Read in progress.               *)
TerminateFree == TRUE

(* Terminate gets the mutex                                                *)
MutexFree == lock = "free"

(* The deferred uploadReader.Terminate                                     *)
Terminate ==
  /\ pc = "terminate" /\ MutexFree
  /\ terminated' = TRUE
  /\ IF response = "success" THEN pc' = "commit" /\ UNCHANGED result ELSE Return(-1)
  /\ UNCHANGED <<job, registry, recorded, next, missing, digest, pos, stream, transport, lock, response>>

(* The digest the upload is committed under: the known one, or that of     *)
(* what was read (putblobdigest.DigestIfCanonicalUnknown).                 *)
blobDigest == IF digest THEN Size ELSE pos

(* PUT with the digest; the registry compares it with what it received.    *)
Commit ==
  /\ pc = "commit"
  /\ \/ /\ blobDigest = pos
        /\ registry' = [registry EXCEPT !["dest"] = @ \cup {blobDigest}]
        /\ Reuse(blobDigest)
     \/ Return(-1) /\ UNCHANGED <<registry, recorded>>
  /\ UNCHANGED <<job, next, missing, digest, upload>>

Finished ==
  /\ pc = "done" /\ transport # "between" /\ UNCHANGED vars

Next ==
  \/ TryExact \/ NextCandidate \/ CandidateExists \/ Mount \/ Collect
  \/ PutBlob \/ ExactBlob \/ Post \/ ReadLock \/ ReadStream \/ DoReturns \/ Terminate \/ Commit
  \/ Finished

Spec == Init /\ [][Next]_vars

-----------------------------------------------------------------------------
(* Once PutBlob has returned nobody reads the stream, which its caller may *)
(* close or reuse: not even a transport that was about to.                 *)
StreamIsReleased ==
  pc \in {"commit", "done"} => transport # "reading" /\ (transport = "between" => terminated)

(* What becomes visible in the repository is a whole blob, uploaded from a *)
(* stream that ended well, or one that was there.                          *)
VisibleBlobsAreComplete ==
  /\ registry["dest"] \subseteq {Size, Variant}
  /\ pc = "commit" => stream = "EOF"

(* A blob reported or recorded as stored is in the repository.             *)
ReportsAreTrue ==
  /\ recorded \subseteq registry["dest"]
  /\ result # -1 => result \in recorded

(* A push ends with a complete blob at the registry and the stream free.   *)
UploadsAreSound == TypeOK /\ StreamIsReleased /\ VisibleBlobsAreComplete /\ ReportsAreTrue
===============================================================================
