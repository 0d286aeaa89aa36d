------------------------------ MODULE CopyImages ------------------------------
(***************************************************************************)
(* Several concurrent copy.Image calls (copy/copy.go) that share the       *)
(* caller's ConcurrentBlobCopiesSemaphore, and in each of them the         *)
(* goroutines copyLayers starts (copy/single.go).                          *)
(*                                                                         *)
(* A call whose transports are thread-safe takes one unit of the shared    *)
(* semaphore per layer or config it copies.  Any other call holds one unit *)
(* of it from start to end, and serialises its blobs with a semaphore of   *)
(* its own.  A call copies Instances images, one after another; its layers *)
(* are numbered through all of them.                                       *)
(***************************************************************************)
EXTENDS Integers, Sequences, FiniteSets

CONSTANTS
  Copies,           \* calls of copy.Image
  ThreadSafe,       \* [Copies -> BOOLEAN]: HasThreadSafe{Put,Get}Blob of both ends
  Shared,           \* the caller's semaphore
  Capacity,         \* its size
  Instances,        \* images in a call (1, or more in copyMultipleImages)
  LayersPerImage,
  OtherCandidates   \* len(otherMIMETypeCandidates): manifest formats to retry with

ASSUME CopiesAssumption == IsFiniteSet(Copies) /\ Shared \notin Copies
ASSUME ThreadSafeAssumption == ThreadSafe \in [Copies -> BOOLEAN]
ASSUME CapacityAssumption == Capacity \in Nat \ {0}
ASSUME SizeAssumption ==
  /\ Instances \in Nat \ {0}
  /\ LayersPerImage \in Nat
  /\ OtherCandidates \in Nat

Layers == 1..(Instances * LayersPerImage)

(* The semaphores: the shared one, and one of size 1 per call for calls    *)
(* that cannot copy in parallel.                                           *)
Sems == {Shared} \cup Copies
Size(s) == IF s = Shared THEN Capacity ELSE 1

(* c.concurrentBlobCopiesSemaphore                                         *)
SemOf(c) == IF ThreadSafe[c] THEN Shared ELSE c

VARIABLES
  pc,         \* program counter of the goroutine running copy.Image
  cancelled,  \* the call's context is done
  instance,   \* the image being copied
  next,       \* the next layer copyLayers starts a goroutine for
  helper,     \* copyLayerHelper goroutines
  data,       \* copyLayers' data[i].err
  attempt,    \* manifest formats tried after the preferred one failed
  outer,      \* holds a unit of the shared semaphore for the whole call
  committed,  \* CommitWithOptions succeeded
  cur,        \* semaphore.Weighted: units taken
  waiters,    \* semaphore.Weighted: queue of Acquire calls
  ready       \* Acquire calls granted while waiting, not yet resumed

control == <<instance, next, attempt, committed>>
helpers == <<helper, data>>
sems == <<cur, waiters, ready>>
vars == <<pc, cancelled, outer, control, helpers, sems>>

Steps == {"image", "imageWait", "prepare", "layers", "layerWait", "spawn", "join",
          "config", "configWait", "configCopy", "manifest", "retry",
          "signatures", "next", "commit", "unwind", "done"}

(* A goroutine that is "copied" has called copyGroup.Done and will now     *)
(* release its unit of the semaphore: the deferred calls run in this order.*)
(* The layers of an image that is skipped are "finished" without one.      *)
HelperStates == {"idle", "copying", "copied", "finished"}

TypeOK ==
  /\ pc \in [Copies -> Steps]
  /\ cancelled \in [Copies -> BOOLEAN]
  /\ instance \in [Copies -> 1..Instances]
  /\ next \in [Copies -> 1..(Instances * LayersPerImage + 1)]
  /\ helper \in [Copies -> [Layers -> HelperStates]]
  /\ data \in [Copies -> [Layers -> {"unset", "ok", "err", "skipped"}]]
  /\ attempt \in [Copies -> 0..OtherCandidates]
  /\ outer \in [Copies -> BOOLEAN]
  /\ committed \in [Copies -> BOOLEAN]
  /\ cur \in [Sems -> Nat]
  /\ waiters \in [Sems -> Seq(Copies)]
  /\ ready \in [Sems -> SUBSET Copies]

Init ==
  /\ pc = [c \in Copies |-> "image"]
  /\ cancelled = [c \in Copies |-> FALSE]
  /\ instance = [c \in Copies |-> 1]
  /\ next = [c \in Copies |-> 1]
  /\ helper = [c \in Copies |-> [i \in Layers |-> "idle"]]
  /\ data = [c \in Copies |-> [i \in Layers |-> "unset"]]
  /\ attempt = [c \in Copies |-> 0]
  /\ outer = [c \in Copies |-> FALSE]
  /\ committed = [c \in Copies |-> FALSE]
  /\ cur = [s \in Sems |-> 0]
  /\ waiters = [s \in Sems |-> <<>>]
  /\ ready = [s \in Sems |-> {}]

Goto(c, step) == pc' = [pc EXCEPT ![c] = step]

-----------------------------------------------------------------------------
(* golang.org/x/sync/semaphore, for requests of one unit                   *)

(* Give back a unit, to the first waiter if there is one (notifyWaiters).  *)
(* rdy is the value of ready[s] before the grant.                          *)
GiveBack(s, rdy) ==
  IF waiters[s] = <<>>
  THEN /\ cur' = [cur EXCEPT ![s] = @ - 1]
       /\ ready' = [ready EXCEPT ![s] = rdy]
       /\ UNCHANGED waiters
  ELSE /\ ready' = [ready EXCEPT ![s] = rdy \cup {Head(waiters[s])}]
       /\ waiters' = [waiters EXCEPT ![s] = Tail(@)]
       /\ UNCHANGED cur

Release(s) == GiveBack(s, ready[s])

(* Acquire, up to where it returns or blocks.  It fails only if the        *)
(* context is done.                                                        *)
Acquire(c, s, granted, blocked, failed) ==
  \/ /\ cancelled[c]
     /\ Goto(c, failed)
     /\ UNCHANGED sems
  \/ /\ ~cancelled[c]
     /\ cur[s] < Size(s) /\ waiters[s] = <<>>
     /\ cur' = [cur EXCEPT ![s] = @ + 1]
     /\ Goto(c, granted)
     /\ UNCHANGED <<waiters, ready>>
  \/ /\ ~cancelled[c]
     /\ ~(cur[s] < Size(s) /\ waiters[s] = <<>>)
     /\ waiters' = [waiters EXCEPT ![s] = Append(@, c)]
     /\ Goto(c, blocked)
     /\ UNCHANGED <<cur, ready>>

Without(q, k) == [j \in 1..(Len(q) - 1) |-> IF j < k THEN q[j] ELSE q[j + 1]]

(* Mutation: a unit granted after the context was done is kept.            *)
ResumeLeaking(c, s, granted, failed) ==
  /\ c \in ready[s]
  /\ ready' = [ready EXCEPT ![s] = @ \ {c}]
  /\ Goto(c, IF cancelled[c] THEN failed ELSE granted)
  /\ UNCHANGED <<cur, waiters>>

(* The rest of a blocked Acquire: a unit granted after the context was     *)
(* done is given back.                                                     *)
Resume(c, s, granted, failed) ==
  \/ /\ ~cancelled[c] /\ c \in ready[s]
     /\ ready' = [ready EXCEPT ![s] = @ \ {c}]
     /\ Goto(c, granted)
     /\ UNCHANGED <<cur, waiters>>
  \/ /\ cancelled[c] /\ c \in ready[s]
     /\ GiveBack(s, ready[s] \ {c})
     /\ Goto(c, failed)
  \/ /\ cancelled[c] /\ c \notin ready[s]
     /\ \E k \in 1..Len(waiters[s]) :
          /\ waiters[s][k] = c
          /\ waiters' = [waiters EXCEPT ![s] = Without(@, k)]
     /\ Goto(c, failed)
     /\ UNCHANGED <<cur, ready>>

-----------------------------------------------------------------------------
(* copy.Image, from opening the transports to holding the semaphore        *)

(* Opening the transports or checking the options fails.                   *)
ImageFails(c) ==
  /\ pc[c] = "image"
  /\ Goto(c, "unwind")
  /\ UNCHANGED <<cancelled, outer, control, helpers, sems>>

(* Mutation: a call that copies one blob at a time takes no shared unit.   *)
ImageWithoutSharedUnit(c) ==
  /\ pc[c] = "image"
  /\ Goto(c, "prepare")
  /\ UNCHANGED <<cancelled, outer, control, helpers, sems>>

Image(c) ==
  /\ pc[c] = "image"
  /\ IF ThreadSafe[c]
     THEN Goto(c, "prepare") /\ UNCHANGED sems
     ELSE Acquire(c, Shared, "prepare", "imageWait", "unwind")
  /\ outer' = [outer EXCEPT ![c] = ~ThreadSafe[c] /\ pc'[c] = "prepare"]
  /\ UNCHANGED <<cancelled, control, helpers>>

ImageResumes(c) ==
  /\ pc[c] = "imageWait"
  /\ Resume(c, Shared, "prepare", "unwind")
  /\ outer' = [outer EXCEPT ![c] = pc'[c] = "prepare"]
  /\ UNCHANGED <<cancelled, control, helpers>>

-----------------------------------------------------------------------------
(* copySingleImage: copyLayers *)

LastLayer(c) == instance[c] * LayersPerImage

(* Policy, manifest and option checks before any blob is copied; with      *)
(* success, copyLayers reaches its loop.                                   *)
Prepare(c) ==
  /\ pc[c] = "prepare"
  /\ \/ Goto(c, "layers") \/ Goto(c, "unwind")
  /\ UNCHANGED <<cancelled, outer, control, helpers, sems>>

(* OptimizeDestinationImageAlreadyExists: the destination has this image,  *)
(* copySingleImage returns and none of its layers is copied.               *)
SkipImage(c) ==
  LET skipped == next[c]..LastLayer(c)
  IN /\ pc[c] = "prepare"
     /\ helper' = [helper EXCEPT ![c] =
          [i \in Layers |-> IF i \in skipped THEN "finished" ELSE @[i]]]
     /\ data' = [data EXCEPT ![c] =
          [i \in Layers |-> IF i \in skipped THEN "skipped" ELSE @[i]]]
     /\ next' = [next EXCEPT ![c] = LastLayer(c) + 1]
     /\ Goto(c, "next")
     /\ UNCHANGED <<cancelled, outer, instance, attempt, committed, sems>>

(* Mutation: an error returns without waiting for the goroutines.          *)
LayerLoopReturning(c) ==
  /\ pc[c] = "layers"
  /\ IF next[c] <= LastLayer(c)
     THEN Acquire(c, SemOf(c), "spawn", "layerWait", "unwind")
     ELSE Goto(c, "join") /\ UNCHANGED sems
  /\ UNCHANGED <<cancelled, outer, control, helpers>>

LayerLoop(c) ==
  /\ pc[c] = "layers"
  /\ IF next[c] <= LastLayer(c)
     THEN Acquire(c, SemOf(c), "spawn", "layerWait", "join")
     ELSE Goto(c, "join") /\ UNCHANGED sems
  /\ UNCHANGED <<cancelled, outer, control, helpers>>

LayerResumes(c) ==
  /\ pc[c] = "layerWait"
  /\ Resume(c, SemOf(c), "spawn", "join")
  /\ UNCHANGED <<cancelled, outer, control, helpers>>

(* copyGroup.Add(1); go copyLayerHelper(...)                               *)
Spawn(c) ==
  /\ pc[c] = "spawn"
  /\ helper' = [helper EXCEPT ![c][next[c]] = "copying"]
  /\ next' = [next EXCEPT ![c] = @ + 1]
  /\ Goto(c, "layers")
  /\ UNCHANGED <<cancelled, outer, instance, attempt, committed, data, sems>>

(* copyLayerHelper: the layer is copied, reused, skipped or fails; then    *)
(* copyGroup.Done.                                                         *)
CopyLayerHelper(c, i) ==
  /\ helper[c][i] = "copying"
  /\ \E outcome \in {"ok", "err"} : data' = [data EXCEPT ![c][i] = outcome]
  /\ helper' = [helper EXCEPT ![c][i] = "copied"]
  /\ UNCHANGED <<pc, cancelled, outer, control, sems>>

ReleaseLayer(c, i) ==
  /\ helper[c][i] = "copied"
  /\ Release(SemOf(c))
  /\ helper' = [helper EXCEPT ![c][i] = "finished"]
  /\ UNCHANGED <<pc, cancelled, outer, control, data>>

(* Mutation: an Acquire that failed is forgotten, the layers that were     *)
(* never started count as copied.                                          *)
LayersCopiedSoFar(c) ==
  \A i \in (LastLayer(c) - LayersPerImage + 1)..LastLayer(c) : data[c][i] # "err"

(* copyGroup.Wait, then the errors of all layers.  If an Acquire failed,   *)
(* the loop ended early and data is not looked at.                         *)
LayersCopied(c) ==
  /\ next[c] > LastLayer(c)
  /\ \A i \in (LastLayer(c) - LayersPerImage + 1)..LastLayer(c) : data[c][i] # "err"

Join(c) ==
  /\ pc[c] = "join"
  /\ \A i \in Layers : helper[c][i] # "copying"
  /\ Goto(c, IF LayersCopied(c) THEN "config" ELSE "unwind")
  /\ attempt' = [attempt EXCEPT ![c] = 0]
  /\ UNCHANGED <<cancelled, outer, instance, next, committed, helpers, sems>>

-----------------------------------------------------------------------------
(* copyUpdatedConfigAndManifest and the loop over manifest formats         *)

(* A failure leads to the next format; but the first attempt is only       *)
(* followed by another one if the format was the reason.                   *)
AfterFailure(c, formatRejected) ==
  IF attempt[c] > 0 \/ formatRejected THEN "retry" ELSE "unwind"

(* UpdatedImage fails, e.g. with ManifestLayerCompressionIncompatibility-  *)
(* Error, or there is no config to copy, or its copy begins.               *)
UpdateImage(c) ==
  /\ pc[c] = "config"
  /\ \/ \E rejected \in BOOLEAN : Goto(c, AfterFailure(c, rejected)) /\ UNCHANGED sems
     \/ Goto(c, "manifest") /\ UNCHANGED sems
     \/ Acquire(c, SemOf(c), "configCopy", "configWait", AfterFailure(c, FALSE))
  /\ UNCHANGED <<cancelled, outer, control, helpers>>

ConfigResumes(c) ==
  /\ pc[c] = "configWait"
  /\ Resume(c, SemOf(c), "configCopy", AfterFailure(c, FALSE))
  /\ UNCHANGED <<cancelled, outer, control, helpers>>

CopyConfig(c) ==
  /\ pc[c] = "configCopy"
  /\ \/ Goto(c, "manifest") \/ Goto(c, AfterFailure(c, FALSE))
  /\ Release(SemOf(c))
  /\ UNCHANGED <<cancelled, outer, control, helpers>>

PutManifest(c) ==
  /\ pc[c] = "manifest"
  /\ \/ Goto(c, "signatures")
     \/ \E rejected \in BOOLEAN : Goto(c, AfterFailure(c, rejected))
  /\ UNCHANGED <<cancelled, outer, control, helpers, sems>>

RetryFormat(c) ==
  /\ pc[c] = "retry"
  /\ IF attempt[c] < OtherCandidates
     THEN /\ attempt' = [attempt EXCEPT ![c] = @ + 1]
          /\ Goto(c, "config")
     ELSE Goto(c, "unwind") /\ UNCHANGED attempt
  /\ UNCHANGED <<cancelled, outer, instance, next, committed, helpers, sems>>

(* createSignatures, PutSignaturesWithFormat                               *)
PutSignatures(c) ==
  /\ pc[c] = "signatures"
  /\ Goto(c, "next") \/ Goto(c, "unwind")
  /\ UNCHANGED <<cancelled, outer, control, helpers, sems>>

(* copySingleImage has returned: copyMultipleImages goes on to the next    *)
(* image, if there is one.                                                 *)
NextImage(c) ==
  /\ pc[c] = "next"
  /\ IF instance[c] < Instances
     THEN /\ instance' = [instance EXCEPT ![c] = @ + 1]
          /\ Goto(c, "prepare")
     ELSE Goto(c, "commit") /\ UNCHANGED instance
  /\ UNCHANGED <<cancelled, outer, next, attempt, committed, helpers, sems>>

(* The list manifest and its signatures, if any, and CommitWithOptions.    *)
Commit(c) ==
  /\ pc[c] = "commit"
  /\ \E ok \in BOOLEAN : committed' = [committed EXCEPT ![c] = ok]
  /\ Goto(c, "unwind")
  /\ UNCHANGED <<cancelled, outer, instance, next, attempt, helpers, sems>>

(* Mutation: the unit of a serial call is never given back.                *)
UnwindKeepingUnit(c) ==
  /\ pc[c] = "unwind"
  /\ Goto(c, "done")
  /\ UNCHANGED <<cancelled, outer, control, helpers, sems>>

(* The deferred calls: the shared semaphore, then the cache and transports *)
(* are closed.                                                             *)
Unwind(c) ==
  /\ pc[c] = "unwind"
  /\ IF outer[c] THEN Release(Shared) ELSE UNCHANGED sems
  /\ outer' = [outer EXCEPT ![c] = FALSE]
  /\ Goto(c, "done")
  /\ UNCHANGED <<cancelled, control, helpers>>

-----------------------------------------------------------------------------
(* The caller cancels the context.                                         *)
Cancel(c) ==
  /\ ~cancelled[c] /\ pc[c] # "done"
  /\ cancelled' = [cancelled EXCEPT ![c] = TRUE]
  /\ UNCHANGED <<pc, outer, control, helpers, sems>>

Main(c) ==
  \/ ImageFails(c) \/ Image(c) \/ ImageResumes(c)
  \/ Prepare(c) \/ SkipImage(c) \/ LayerLoop(c) \/ LayerResumes(c) \/ Spawn(c) \/ Join(c)
  \/ UpdateImage(c) \/ ConfigResumes(c) \/ CopyConfig(c) \/ PutManifest(c)
  \/ RetryFormat(c) \/ PutSignatures(c) \/ NextImage(c) \/ Commit(c) \/ Unwind(c)

Helper(c, i) == CopyLayerHelper(c, i) \/ ReleaseLayer(c, i)

(* Every call has returned and every goroutine has ended.                  *)
AllDone ==
  /\ \A c \in Copies : pc[c] = "done"
  /\ \A c \in Copies, i \in Layers : helper[c][i] \in {"idle", "finished"}

Terminated == AllDone /\ UNCHANGED vars

Next ==
  \/ \E c \in Copies : Main(c) \/ Cancel(c)
  \/ \E c \in Copies, i \in Layers : Helper(c, i)
  \/ Terminated

Spec == Init /\ [][Next]_vars

(* The Go scheduler runs every goroutine, and reading from and writing to  *)
(* the transports ends; nobody has to cancel.                              *)
Fairness ==
  /\ \A c \in Copies : WF_vars(Main(c))
  /\ \A c \in Copies, i \in Layers : WF_vars(Helper(c, i))

FairSpec == Spec /\ Fairness
-----------------------------------------------------------------------------
(* Properties *)

(* Who holds a unit of semaphore s: the goroutine of layer i, the call     *)
(* itself for the blob at hand (i = 0: it is about to start a goroutine,   *)
(* copies its config, or was granted a unit without having noticed), and   *)
(* the call as a whole (i = -1).                                           *)
Holds(c, i, s) ==
  \/ i = -1 /\ s = Shared /\ outer[c]
  \/ i = 0 /\ (c \in ready[s] \/ (SemOf(c) = s /\ pc[c] \in {"spawn", "configCopy"}))
  \/ i \in Layers /\ SemOf(c) = s /\ helper[c][i] \in {"copying", "copied"}

Slots == -1..(Instances * LayersPerImage)

Holders(s) == {t \in Copies \X Slots : Holds(t[1], t[2], s)}

(* No unit of a semaphore leaks or is given back twice, whatever fails and *)
(* whenever the context is cancelled: the units taken are exactly those    *)
(* somebody holds, never more than there are, and nobody waits while one   *)
(* is free.                                                                *)
TokensAccounted ==
  \A s \in Sems : /\ cur[s] = Cardinality(Holders(s))
                  /\ cur[s] <= Size(s)
                  /\ waiters[s] # <<>> => cur[s] = Size(s)

(* The blobs that are being read from a source and written to a            *)
(* destination; a config is <<c, 0>>.                                      *)
InFlight(c, i) ==
  \/ i = 0 /\ pc[c] = "configCopy"
  \/ i \in Layers /\ helper[c][i] = "copying"

BlobsInFlight == {t \in Copies \X Slots : InFlight(t[1], t[2])}

(* The shared semaphore limits "the amount of concurrently copied layers   *)
(* and configs", over all calls that use it, thread-safe or not.           *)
InFlightBounded == Cardinality(BlobsInFlight) <= Capacity

(* A call whose transports are not thread-safe (HasThreadSafePutBlob or    *)
(* HasThreadSafeGetBlob is false) never copies two blobs at a time, though *)
(* each of its layers has a goroutine of its own.                          *)
SerialUnlessThreadSafe ==
  \A t, u \in BlobsInFlight : t[1] = u[1] /\ t # u => ThreadSafe[t[1]]

(* A manifest is written, and the image committed, only when every layer   *)
(* of the images so far was copied without error, or its image skipped as  *)
(* already present at the destination: a goroutine that has not reported   *)
(* yet leaves a zero copyLayerData, which looks like success.              *)
ManifestNeedsAllLayers ==
  \A c \in Copies :
    \/ pc[c] \in {"config", "configWait", "configCopy", "manifest", "retry",
                  "signatures", "next", "commit"}
    \/ committed[c]
    => \A i \in 1..LastLayer(c) : data[c][i] \in {"ok", "skipped"}

(* No layer is being copied once the call closes the blob info cache and   *)
(* the transports its goroutines use.                                      *)
NoCopyAfterClose ==
  \A c \in Copies : pc[c] \in {"unwind", "done"} =>
    \A i \in Layers : helper[c][i] # "copying"

(* Every call returns, whichever calls it shares the semaphore with, and   *)
(* whether they fail, are cancelled or succeed.                            *)
EveryCallReturns == \A c \in Copies : <>(pc[c] = "done")

(* In the end every unit of every semaphore is free again.                 *)
AllTokensReturned == <>[](\A s \in Sems : cur[s] = 0)

(* Every unit is accounted for, in every state of calls and helpers.       *)
UnitsAreAccounted == TypeOK /\ TokensAccounted

(* Concurrency is bounded by the semaphore, and by the transports.         *)
ConcurrencyIsBounded == InFlightBounded /\ SerialUnlessThreadSafe

(* Every call returns, and leaves nothing behind in the semaphores.        *)
CallsEndWithoutLeaks == EveryCallReturns /\ AllTokensReturned
==============================================================================
