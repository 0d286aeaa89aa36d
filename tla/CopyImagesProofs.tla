-------------------------- MODULE CopyImagesProofs --------------------------
(***************************************************************************)
(* Proofs about concurrent copy.Image calls, for every finite set of calls *)
(* with any mix of thread-safe and serial transports, any capacity of the  *)
(* shared semaphore and any number of images and layers.                   *)
(*                                                                         *)
(* The first part is about the control of one call: how far its layers are *)
(* when it is at a given step.  The second part is about the semaphores:   *)
(* who holds their units and who waits for them.                           *)
(***************************************************************************)
EXTENDS CopyImages, FiniteSetTheorems, TLAPS

N == Instances * LayersPerImage

DataStates == {"unset", "ok", "err", "skipped"}
(* The layer is at the destination.                                        *)
Stored == {"ok", "skipped"}

(* The variables have their types; cur is only known to be an integer: it  *)
(* is never negative because units are accounted for.                      *)
ControlTyped ==
  /\ pc \in [Copies -> Steps]
  /\ cancelled \in [Copies -> BOOLEAN]
  /\ instance \in [Copies -> 1..Instances]
  /\ next \in [Copies -> 1..(N + 1)]
  /\ helper \in [Copies -> [Layers -> HelperStates]]
  /\ data \in [Copies -> [Layers -> DataStates]]
  /\ attempt \in [Copies -> 0..OtherCandidates]
  /\ outer \in [Copies -> BOOLEAN]
  /\ committed \in [Copies -> BOOLEAN]

SemsTyped ==
  /\ cur \in [Sems -> Int]
  /\ waiters \in [Sems -> Seq(Copies)]
  /\ ready \in [Sems -> SUBSET Copies]

(* Steps of an image before, while and after its layers are copied.        *)
BeforeLayers == {"image", "imageWait", "prepare"}
CopyingLayers == {"layers", "layerWait", "spawn", "join"}
AfterLayers == {"config", "configWait", "configCopy", "manifest", "retry",
                "signatures", "next", "commit"}

(* How far the goroutines of a call are.                                   *)
LayersInv(c) ==
  /\ \A i \in Layers : helper[c][i] = "idle" <=> i >= next[c]
  /\ \A i \in Layers : helper[c][i] \in {"idle", "copying"} => data[c][i] = "unset"
  /\ \A i \in Layers : helper[c][i] \in {"copied", "finished"} => data[c][i] \in {"ok", "err", "skipped"}
  /\ pc[c] \notin CopyingLayers => \A i \in Layers : helper[c][i] # "copying"

(* Which layers are known to be copied at each step.                       *)
ProgressInv(c) ==
  /\ pc[c] \in BeforeLayers => next[c] = LastLayer(c) - LayersPerImage + 1
  /\ pc[c] \in CopyingLayers => next[c] <= LastLayer(c) + 1
  /\ pc[c] \in {"layerWait", "spawn"} => next[c] <= LastLayer(c)
  /\ pc[c] \in AfterLayers => next[c] = LastLayer(c) + 1
  /\ pc[c] \in BeforeLayers \cup CopyingLayers =>
       \A i \in 1..(LastLayer(c) - LayersPerImage) : data[c][i] \in Stored
  /\ pc[c] \in AfterLayers \/ committed[c] =>
       \A i \in 1..LastLayer(c) : data[c][i] \in Stored
  /\ committed[c] => pc[c] \in {"unwind", "done"}

(* A call that is not thread-safe holds a unit of the shared semaphore     *)
(* while it works.                                                         *)
OuterInv(c) ==
  /\ outer[c] => pc[c] \notin {"image", "imageWait", "done"}
  /\ ~ThreadSafe[c] /\ pc[c] \notin {"image", "imageWait", "unwind", "done"} => outer[c]
  /\ pc[c] = "imageWait" => ~ThreadSafe[c]
  /\ outer[c] => ~ThreadSafe[c]

LocalInv(c) == LayersInv(c) /\ ProgressInv(c) /\ OuterInv(c)

ControlInv ==
  /\ ControlTyped
  /\ SemsTyped
  /\ \A c \in Copies : LocalInv(c)

-----------------------------------------------------------------------------
(* Arithmetic *)

(* The numbers of layers and images are natural.                           *)
LEMMA NIsNat == N \in Nat /\ LayersPerImage \in Nat /\ Instances \in Nat
BY SizeAssumption DEF N

(* The last layer of the k-th image: within all layers, and one image      *)
(* further than that of the image before.                                  *)
LEMMA LastLayerBounds ==
  ASSUME NEW k \in 1..Instances
  PROVE  /\ k * LayersPerImage \in Nat
         /\ k * LayersPerImage >= LayersPerImage
         /\ k * LayersPerImage <= N
         /\ (k + 1) * LayersPerImage = k * LayersPerImage + LayersPerImage
<1> DEFINE L == LayersPerImage
<1>1. L \in Nat /\ Instances \in Nat /\ k \in Nat /\ k >= 1 /\ Instances - k \in Nat
  BY SizeAssumption
<1>2. (k - 1) * L \in Nat /\ (Instances - k) * L \in Nat
  <2>1. \A a, b \in Nat : a * b \in Nat
    OBVIOUS
  <2>2. k - 1 \in Nat
    BY <1>1
  <2> HIDE DEF L
  <2> QED
    BY <1>1, <2>1, <2>2
<1>3. k * L = (k - 1) * L + L /\ Instances * L = k * L + (Instances - k) * L
  BY <1>1
<1>4. (k + 1) * L = k * L + L
  BY <1>1
<1> QED
  BY <1>1, <1>2, <1>3, <1>4 DEF N

(* LastLayer for the image a call is at.                                   *)
LEMMA LastLayerTyped ==
  ASSUME ControlTyped, NEW c \in Copies
  PROVE  /\ LastLayer(c) \in Nat
         /\ LastLayer(c) >= LayersPerImage
         /\ LastLayer(c) <= N
BY LastLayerBounds DEF LastLayer, ControlTyped

-----------------------------------------------------------------------------
(* What the semaphore operations do to types and control *)

(* A call copies its blobs under one of the semaphores.                    *)
LEMMA SemOfIsSem == \A c \in Copies : SemOf(c) \in Sems
BY DEF SemOf, Sems

(* Removing a waiter leaves a queue of calls, one shorter.                 *)
LEMMA WithoutTyped ==
  ASSUME NEW q \in Seq(Copies), NEW k \in 1..Len(q)
  PROVE  /\ Without(q, k) \in Seq(Copies)
         /\ Len(Without(q, k)) = Len(q) - 1
<1>1. Len(q) - 1 \in Nat
  OBVIOUS
<1>2. \A j \in 1..(Len(q) - 1) : (IF j < k THEN q[j] ELSE q[j + 1]) \in Copies
  OBVIOUS
<1>3. Without(q, k) \in [1..(Len(q) - 1) -> Copies]
  BY <1>2 DEF Without
<1>4. Without(q, k) \in Seq(Copies)
  BY <1>1, <1>3
<1> QED
  BY <1>1, <1>3, <1>4

(* Giving a unit back keeps the types.                                     *)
LEMMA GiveBackTyped ==
  ASSUME SemsTyped, NEW s \in Sems, NEW rdy \in SUBSET Copies, GiveBack(s, rdy)
  PROVE  SemsTyped'
<1>1. CASE waiters[s] = <<>>
  <2>1. cur[s] - 1 \in Int
    BY DEF SemsTyped
  <2>2. cur' = [cur EXCEPT ![s] = cur[s] - 1] /\ ready' = [ready EXCEPT ![s] = rdy]
        /\ waiters' = waiters
    BY <1>1 DEF GiveBack
  <2> QED
    BY <2>1, <2>2 DEF SemsTyped
<1>2. CASE waiters[s] # <<>>
  <2>1. Head(waiters[s]) \in Copies /\ Tail(waiters[s]) \in Seq(Copies)
    BY <1>2 DEF SemsTyped
  <2>2. /\ ready' = [ready EXCEPT ![s] = rdy \cup {Head(waiters[s])}]
        /\ waiters' = [waiters EXCEPT ![s] = Tail(waiters[s])]
        /\ cur' = cur
    BY <1>2 DEF GiveBack
  <2> QED
    BY <2>1, <2>2 DEF SemsTyped
<1> QED
  BY <1>1, <1>2

(* Acquire keeps the types, and leads to one of its three outcomes.        *)
LEMMA AcquireTyped ==
  ASSUME SemsTyped, NEW c \in Copies, NEW s \in Sems, NEW granted, NEW blocked,
         NEW failed, Acquire(c, s, granted, blocked, failed)
  PROVE  /\ SemsTyped'
         /\ \/ Goto(c, granted) \/ Goto(c, blocked) \/ Goto(c, failed)
<1>1. CASE cancelled[c] /\ Goto(c, failed) /\ UNCHANGED sems
  BY <1>1 DEF SemsTyped, sems
<1>2. CASE /\ cur' = [cur EXCEPT ![s] = @ + 1]
           /\ Goto(c, granted)
           /\ UNCHANGED <<waiters, ready>>
  <2>1. cur[s] + 1 \in Int
    BY DEF SemsTyped
  <2> QED
    BY <1>2, <2>1 DEF SemsTyped
<1>3. CASE /\ waiters' = [waiters EXCEPT ![s] = Append(@, c)]
           /\ Goto(c, blocked)
           /\ UNCHANGED <<cur, ready>>
  <2>1. Append(waiters[s], c) \in Seq(Copies)
    BY DEF SemsTyped
  <2> QED
    BY <1>3, <2>1 DEF SemsTyped
<1> QED
  BY <1>1, <1>2, <1>3 DEF Acquire

(* Resuming a blocked Acquire keeps the types, and leads to one of its two *)
(* outcomes.                                                               *)
LEMMA ResumeTyped ==
  ASSUME SemsTyped, NEW c \in Copies, NEW s \in Sems, NEW granted, NEW failed,
         Resume(c, s, granted, failed)
  PROVE  /\ SemsTyped'
         /\ Goto(c, granted) \/ Goto(c, failed)
<1>1. CASE ~cancelled[c] /\ c \in ready[s]
  BY <1>1 DEF Resume, SemsTyped
<1>2. CASE cancelled[c] /\ c \in ready[s]
  <2>1. ready[s] \ {c} \in SUBSET Copies
    BY DEF SemsTyped
  <2> QED
    BY <1>2, <2>1, GiveBackTyped DEF Resume
<1>3. CASE cancelled[c] /\ c \notin ready[s]
  <2>1. PICK k \in 1..Len(waiters[s]) :
          waiters' = [waiters EXCEPT ![s] = Without(@, k)]
    BY <1>3 DEF Resume
  <2>2. Without(waiters[s], k) \in Seq(Copies)
    BY WithoutTyped DEF SemsTyped
  <2> QED
    BY <1>3, <2>1, <2>2 DEF Resume, SemsTyped
<1> QED
  BY <1>1, <1>2, <1>3 DEF Resume

-----------------------------------------------------------------------------
(* Control: what one call does leaves the others alone *)

Same(d) ==
  /\ pc'[d] = pc[d] /\ instance'[d] = instance[d] /\ next'[d] = next[d]
  /\ helper'[d] = helper[d] /\ data'[d] = data[d]
  /\ outer'[d] = outer[d] /\ committed'[d] = committed[d]

(* A step that changes one call only has to be checked for that call.      *)
LEMMA Frame ==
  ASSUME ControlInv, NEW c \in Copies, ControlTyped', SemsTyped', LocalInv(c)',
         \A d \in Copies : d # c => Same(d)
  PROVE  ControlInv'
<1> SUFFICES ASSUME NEW d \in Copies, d # c PROVE LocalInv(d)'
  BY DEF ControlInv
<1>1. Same(d) /\ LocalInv(d)
  BY DEF ControlInv
<1>2. LayersInv(d)'
  BY <1>1 DEF LocalInv, LayersInv, Same
<1>3. ProgressInv(d)'
  BY <1>1 DEF LocalInv, ProgressInv, LastLayer, Same
<1>4. OuterInv(d)'
  BY <1>1 DEF LocalInv, OuterInv, Same
<1> QED
  BY <1>2, <1>3, <1>4 DEF LocalInv

(* A step that only moves the program counter, between steps of the same   *)
(* phase or to a phase that asks for no more.                              *)
LEMMA Move ==
  ASSUME ControlInv, SemsTyped', NEW c \in Copies, NEW step \in Steps, Goto(c, step),
         UNCHANGED <<outer, helpers>>, UNCHANGED <<instance, next, committed>>,
         ControlTyped',
         step \in BeforeLayers => pc[c] \in BeforeLayers,
         step \in CopyingLayers => pc[c] \in BeforeLayers \cup CopyingLayers,
         step \in {"layerWait", "spawn"} => next[c] <= LastLayer(c),
         step \in AfterLayers => pc[c] \in AfterLayers,
         step \notin CopyingLayers => pc[c] \notin CopyingLayers,
         pc[c] \notin {"unwind", "done"},
         step \notin {"image", "imageWait", "done"},
         pc[c] \in {"image", "imageWait"} => ThreadSafe[c] \/ step = "unwind"
  PROVE  ControlInv'
<1>1. pc' = [pc EXCEPT ![c] = step] /\ pc'[c] = step
  BY DEF Goto, ControlInv, ControlTyped
<1>2. \A d \in Copies : d # c => Same(d)
  BY <1>1 DEF Same, helpers, ControlInv, ControlTyped
<1>3. LocalInv(c) /\ LastLayer(c)' = LastLayer(c)
  BY DEF ControlInv, LastLayer
<1>4. LayersInv(c)'
  BY <1>1, <1>3 DEF LocalInv, LayersInv, helpers
<1>5. ProgressInv(c)'
  <2> USE <1>1, <1>3 DEF LocalInv, helpers
  <2>1. LastLayer(c) \in Nat /\ LastLayer(c) >= LayersPerImage /\ next[c] \in Nat
        /\ LayersPerImage \in Nat
    BY LastLayerTyped, SizeAssumption DEF ControlInv, ControlTyped
  <2>2. (pc[c] \in BeforeLayers => next[c] = LastLayer(c) - LayersPerImage + 1)'
    BY DEF ProgressInv
  <2>3. (pc[c] \in CopyingLayers => next[c] <= LastLayer(c) + 1)'
    BY <2>1 DEF ProgressInv
  <2>4. (pc[c] \in {"layerWait", "spawn"} => next[c] <= LastLayer(c))'
    BY DEF ProgressInv
  <2>5. (pc[c] \in AfterLayers => next[c] = LastLayer(c) + 1)'
    BY DEF ProgressInv
  <2>6. (pc[c] \in BeforeLayers \cup CopyingLayers =>
           \A i \in 1..(LastLayer(c) - LayersPerImage) : data[c][i] \in Stored)'
    BY DEF ProgressInv
  <2>7. (pc[c] \in AfterLayers \/ committed[c] =>
           \A i \in 1..LastLayer(c) : data[c][i] \in Stored)'
    BY DEF ProgressInv
  <2>8. (committed[c] => pc[c] \in {"unwind", "done"})'
    BY DEF ProgressInv
  <2> QED
    BY <2>2, <2>3, <2>4, <2>5, <2>6, <2>7, <2>8 DEF ProgressInv
<1>6. OuterInv(c)'
  BY <1>1, <1>3 DEF LocalInv, OuterInv
<1> QED
  BY <1>2, <1>4, <1>5, <1>6, Frame DEF LocalInv

(* The steps of copy.Image that decide whether the call holds a unit of    *)
(* the shared semaphore.                                                   *)
LEMMA MoveImage ==
  ASSUME ControlInv, SemsTyped', NEW c \in Copies,
         NEW step \in {"prepare", "imageWait", "unwind"}, Goto(c, step),
         outer' = [outer EXCEPT ![c] = ~ThreadSafe[c] /\ step = "prepare"],
         UNCHANGED <<cancelled, control, helpers>>,
         pc[c] \in {"image", "imageWait"},
         step = "imageWait" => ~ThreadSafe[c]
  PROVE  ControlInv'
<1>1. pc' = [pc EXCEPT ![c] = step] /\ pc'[c] = step
  BY DEF Goto, ControlInv, ControlTyped
<1>2. outer'[c] = (~ThreadSafe[c] /\ step = "prepare")
  BY DEF ControlInv, ControlTyped
<1>3. ControlTyped'
  BY <1>1 DEF ControlInv, ControlTyped, Steps, control, helpers
<1>4. \A d \in Copies : d # c => Same(d)
  BY <1>1 DEF Same, control, helpers, ControlInv, ControlTyped
<1>5. LocalInv(c) /\ LastLayer(c)' = LastLayer(c)
  BY DEF ControlInv, LastLayer, control
<1>6. LayersInv(c)'
  BY <1>1, <1>5 DEF LocalInv, LayersInv, control, helpers, CopyingLayers
<1>7. ProgressInv(c)'
  BY <1>1, <1>5 DEF LocalInv, ProgressInv, control, helpers, BeforeLayers,
                    CopyingLayers, AfterLayers
<1>8. OuterInv(c)'
  BY <1>1, <1>2, ThreadSafeAssumption DEF OuterInv
<1> QED
  BY <1>3, <1>4, <1>6, <1>7, <1>8, Frame DEF LocalInv

(* An image that is at the destination already is skipped.                 *)
LEMMA ControlSkip ==
  ASSUME ControlInv, NEW c \in Copies, SkipImage(c)
  PROVE  ControlInv'
<1> DEFINE n == next[c]
           Last == LastLayer(c)
<1>1. LocalInv(c) /\ LastLayer(c)' = Last
  BY DEF ControlInv, LastLayer, SkipImage
<1>2. /\ Last \in Nat /\ Last <= N /\ N \in Nat /\ n \in Nat
      /\ LayersPerImage \in Nat /\ Last + 1 \in 1..(N + 1)
      /\ n = Last - LayersPerImage + 1
  BY <1>1, LastLayerTyped, NIsNat
     DEF ControlInv, ControlTyped, LocalInv, ProgressInv, SkipImage, BeforeLayers
<1>3. pc' = [pc EXCEPT ![c] = "next"] /\ next' = [next EXCEPT ![c] = Last + 1]
  BY DEF SkipImage, Goto
<1>4. /\ helper' = [helper EXCEPT ![c] =
           [i \in Layers |-> IF i \in n..Last THEN "finished" ELSE helper[c][i]]]
      /\ data' = [data EXCEPT ![c] =
           [i \in Layers |-> IF i \in n..Last THEN "skipped" ELSE data[c][i]]]
  BY DEF SkipImage
<1>5. ControlTyped'
  <2>1. [i \in Layers |-> IF i \in n..Last THEN "finished" ELSE helper[c][i]]
          \in [Layers -> HelperStates]
    BY DEF ControlInv, ControlTyped, HelperStates
  <2>2. [i \in Layers |-> IF i \in n..Last THEN "skipped" ELSE data[c][i]]
          \in [Layers -> DataStates]
    BY DEF ControlInv, ControlTyped, DataStates
  <2>3. helper' \in [Copies -> [Layers -> HelperStates]]
        /\ data' \in [Copies -> [Layers -> DataStates]]
    BY <1>4, <2>1, <2>2 DEF ControlInv, ControlTyped
  <2> QED
    BY <1>2, <1>3, <2>3 DEF ControlInv, ControlTyped, SkipImage, Steps
<1>6. SemsTyped'
  BY DEF ControlInv, SemsTyped, SkipImage, sems
<1>7. \A d \in Copies : d # c => Same(d)
  BY <1>3, <1>4 DEF Same, SkipImage, ControlInv, ControlTyped
<1>8. /\ pc'[c] = "next" /\ next'[c] = Last + 1
      /\ \A i \in Layers : helper'[c][i] = IF i \in n..Last THEN "finished" ELSE helper[c][i]
      /\ \A i \in Layers : data'[c][i] = IF i \in n..Last THEN "skipped" ELSE data[c][i]
  BY <1>3, <1>4 DEF ControlInv, ControlTyped
<1>9. \A i \in Layers : i \in Int /\ 1 <= i /\ i <= N
  BY NIsNat DEF Layers, N
<1>10. LayersInv(c)'
  <2>1. LayersInv(c) /\ pc[c] = "prepare"
    BY <1>1 DEF LocalInv, SkipImage
  <2>2. \A i \in Layers : helper'[c][i] = "idle" <=> i >= next'[c]
    BY <1>2, <1>8, <1>9, <2>1 DEF LayersInv
  <2> QED
    BY <1>8, <2>1, <2>2 DEF LayersInv, CopyingLayers
<1>11. ProgressInv(c)'
  <2>1. \A i \in 1..Last : data'[c][i] \in Stored
    <3> SUFFICES ASSUME NEW i \in 1..Last PROVE data'[c][i] \in Stored
      OBVIOUS
    <3>1. i \in Layers
      BY <1>2 DEF Layers, N
    <3>2. CASE i \in n..Last
      BY <1>8, <3>1, <3>2 DEF Stored
    <3>3. CASE i \notin n..Last
      <4>1. i \in 1..(Last - LayersPerImage)
        BY <1>2, <3>3
      <4> QED
        BY <1>1, <1>8, <3>1, <3>3, <4>1
           DEF LocalInv, ProgressInv, SkipImage, BeforeLayers
    <3> QED
      BY <3>2, <3>3
  <2>2. ~committed'[c]
    BY <1>1 DEF LocalInv, ProgressInv, SkipImage
  <2> QED
    BY <1>1, <1>8, <2>1, <2>2 DEF ProgressInv, BeforeLayers, CopyingLayers, AfterLayers
<1>12. OuterInv(c)'
  BY <1>1, <1>8 DEF LocalInv, OuterInv, SkipImage
<1> QED
  BY <1>5, <1>6, <1>7, <1>10, <1>11, <1>12, Frame DEF LocalInv

(* Starting a goroutine.                                                   *)
LEMMA ControlSpawn ==
  ASSUME ControlInv, NEW c \in Copies, Spawn(c)
  PROVE  ControlInv'
<1> DEFINE n == next[c]
<1>1. LocalInv(c) /\ LastLayer(c)' = LastLayer(c)
  BY DEF ControlInv, LastLayer, Spawn
<1>2. n \in Layers /\ n + 1 <= LastLayer(c) + 1 /\ LastLayer(c) \in Nat /\ n \in Nat
  BY <1>1, LastLayerTyped, NIsNat
     DEF ControlInv, ControlTyped, LocalInv, ProgressInv, Spawn, Layers, N
<1>3. pc' = [pc EXCEPT ![c] = "layers"] /\ next' = [next EXCEPT ![c] = n + 1]
      /\ helper' = [helper EXCEPT ![c] = [helper[c] EXCEPT ![n] = "copying"]]
  BY DEF Spawn, Goto
<1>4. n + 1 \in 1..(N + 1)
  BY <1>2, NIsNat DEF Layers, N
<1>5. ControlTyped'
  <2>1. [helper[c] EXCEPT ![n] = "copying"] \in [Layers -> HelperStates]
    BY <1>2 DEF ControlInv, ControlTyped, HelperStates
  <2> QED
    BY <1>3, <1>4, <2>1 DEF ControlInv, ControlTyped, Spawn, Steps
<1>6. SemsTyped'
  BY DEF ControlInv, SemsTyped, Spawn, sems
<1>7. \A d \in Copies : d # c => Same(d)
  BY <1>3 DEF Same, Spawn, ControlInv, ControlTyped
<1>8. /\ pc'[c] = "layers" /\ next'[c] = n + 1 /\ data' = data
      /\ \A i \in Layers : helper'[c][i] = IF i = n THEN "copying" ELSE helper[c][i]
  BY <1>2, <1>3 DEF ControlInv, ControlTyped, Spawn
<1>9. LayersInv(c)'
  <2>1. \A i \in Layers : i \in Int
    BY NIsNat DEF Layers
  <2>2. LayersInv(c)
    BY <1>1 DEF LocalInv
  <2>3. helper[c][n] = "idle" /\ data[c][n] = "unset"
    BY <1>2, <2>2 DEF LayersInv
  <2>4. \A i \in Layers : helper'[c][i] = "idle" <=> i >= next'[c]
    BY <1>2, <1>8, <2>1, <2>2 DEF LayersInv
  <2> QED
    BY <1>8, <2>2, <2>3, <2>4 DEF LayersInv, CopyingLayers
<1>10. ProgressInv(c)'
  BY <1>1, <1>2, <1>8 DEF LocalInv, ProgressInv, Spawn, BeforeLayers, CopyingLayers,
                          AfterLayers
<1>11. OuterInv(c)'
  BY <1>1, <1>8 DEF LocalInv, OuterInv, Spawn
<1> QED
  BY <1>5, <1>6, <1>7, <1>9, <1>10, <1>11, Frame DEF LocalInv

(* After copyGroup.Wait, a layer without an error has been copied.         *)
LEMMA ControlJoin ==
  ASSUME ControlInv, NEW c \in Copies, Join(c)
  PROVE  ControlInv'
<1> DEFINE step == IF LayersCopied(c) THEN "config" ELSE "unwind"
<1>1. LocalInv(c) /\ LastLayer(c)' = LastLayer(c)
  BY DEF ControlInv, LastLayer, Join
<1>2. pc' = [pc EXCEPT ![c] = step] /\ pc'[c] = step
  BY DEF Join, Goto, ControlInv, ControlTyped
<1>3. ControlTyped' /\ SemsTyped'
  BY <1>2, SizeAssumption
     DEF ControlInv, ControlTyped, SemsTyped, Join, Steps, helpers, sems
<1>4. \A d \in Copies : d # c => Same(d)
  BY <1>2 DEF Same, Join, helpers, ControlInv, ControlTyped
<1>5. LayersInv(c)'
  BY <1>1, <1>2 DEF LocalInv, LayersInv, Join, helpers, CopyingLayers
<1>6. LastLayer(c) \in Nat /\ LastLayer(c) >= LayersPerImage /\ LastLayer(c) <= N
      /\ next[c] \in Nat /\ LayersPerImage \in Nat /\ N \in Nat
  BY LastLayerTyped, NIsNat DEF ControlInv, ControlTyped
<1>7. ASSUME LayersCopied(c)
      PROVE  next[c] = LastLayer(c) + 1 /\ \A i \in 1..LastLayer(c) : data[c][i] \in Stored
  <2>1. next[c] = LastLayer(c) + 1
    BY <1>1, <1>6, <1>7 DEF LayersCopied, LocalInv, ProgressInv, Join, CopyingLayers
  <2>2. ASSUME NEW i \in 1..LastLayer(c), i > LastLayer(c) - LayersPerImage
        PROVE  data[c][i] \in Stored
    <3>1. i \in Layers /\ i < next[c]
      BY <1>6, <2>1 DEF Layers, N
    <3>2. helper[c][i] \in {"copied", "finished"}
      BY <1>1, <1>6, <3>1 DEF LocalInv, LayersInv, Join, ControlInv, ControlTyped, HelperStates
    <3>3. data[c][i] \in {"ok", "err", "skipped"}
      BY <1>1, <3>1, <3>2 DEF LocalInv, LayersInv
    <3> QED
      BY <1>6, <1>7, <2>2, <3>3 DEF LayersCopied, Stored
  <2>3. ASSUME NEW i \in 1..LastLayer(c), ~(i > LastLayer(c) - LayersPerImage)
        PROVE  data[c][i] \in Stored
    <3>1. i \in 1..(LastLayer(c) - LayersPerImage)
      BY <1>6, <2>3
    <3> QED
      BY <1>1, <3>1 DEF LocalInv, ProgressInv, Join, CopyingLayers
  <2> QED
    BY <2>1, <2>2, <2>3
<1>8. ProgressInv(c)'
  <2>1. CASE LayersCopied(c)
    BY <1>1, <1>2, <1>7, <2>1 DEF LocalInv, ProgressInv, Join, helpers, BeforeLayers,
                                  CopyingLayers, AfterLayers
  <2>2. CASE ~LayersCopied(c)
    BY <1>1, <1>2, <2>2 DEF LocalInv, ProgressInv, Join, helpers, BeforeLayers,
                            CopyingLayers, AfterLayers
  <2> QED
    BY <2>1, <2>2
<1>9. OuterInv(c)'
  BY <1>1, <1>2 DEF LocalInv, OuterInv, Join
<1> QED
  BY <1>3, <1>4, <1>5, <1>8, <1>9, Frame DEF LocalInv

(* Going on to the next image.                                             *)
LEMMA ControlNextImage ==
  ASSUME ControlInv, NEW c \in Copies, pc[c] = "next", instance[c] < Instances,
         instance' = [instance EXCEPT ![c] = @ + 1], Goto(c, "prepare"),
         UNCHANGED <<cancelled, outer, next, attempt, committed, helpers, sems>>
  PROVE  ControlInv'
<1>1. LocalInv(c)
  BY DEF ControlInv
<1>2. instance[c] \in 1..Instances /\ instance[c] + 1 \in 1..Instances
  BY SizeAssumption DEF ControlInv, ControlTyped
<1>3. pc' = [pc EXCEPT ![c] = "prepare"] /\ pc'[c] = "prepare"
      /\ instance'[c] = instance[c] + 1
  BY DEF Goto, ControlInv, ControlTyped
<1>4. ControlTyped' /\ SemsTyped'
  BY <1>2, <1>3 DEF ControlInv, ControlTyped, SemsTyped, Steps, helpers, sems
<1>5. \A d \in Copies : d # c => Same(d)
  BY <1>3 DEF Same, helpers, ControlInv, ControlTyped
<1>6. LastLayer(c)' = LastLayer(c) + LayersPerImage
  BY <1>2, <1>3, LastLayerBounds DEF LastLayer
<1>7. LayersInv(c)'
  BY <1>1, <1>3 DEF LocalInv, LayersInv, helpers, CopyingLayers
<1>8. LastLayer(c) \in Nat /\ LayersPerImage \in Nat
      /\ LastLayer(c) + LayersPerImage - LayersPerImage = LastLayer(c)
  BY LastLayerTyped, NIsNat DEF ControlInv
<1>9. ProgressInv(c)'
  BY <1>1, <1>3, <1>6, <1>8 DEF LocalInv, ProgressInv, helpers, BeforeLayers,
                                CopyingLayers, AfterLayers
<1>10. OuterInv(c)'
  BY <1>1, <1>3 DEF LocalInv, OuterInv
<1> QED
  BY <1>4, <1>5, <1>7, <1>9, <1>10, Frame DEF LocalInv

(* CommitWithOptions, which is reached only with every layer stored.       *)
LEMMA ControlCommit ==
  ASSUME ControlInv, NEW c \in Copies, Commit(c)
  PROVE  ControlInv'
<1>1. LocalInv(c) /\ LastLayer(c)' = LastLayer(c)
  BY DEF ControlInv, LastLayer, Commit
<1>2. pc' = [pc EXCEPT ![c] = "unwind"] /\ pc'[c] = "unwind"
  BY DEF Commit, Goto, ControlInv, ControlTyped
<1>3. ControlTyped' /\ SemsTyped'
  BY <1>2 DEF ControlInv, ControlTyped, SemsTyped, Commit, Steps, helpers, sems
<1>4. \A d \in Copies : d # c => Same(d)
  BY <1>2 DEF Same, Commit, helpers, ControlInv, ControlTyped
<1>5. LayersInv(c)'
  BY <1>1, <1>2 DEF LocalInv, LayersInv, Commit, helpers, CopyingLayers
<1>6. ProgressInv(c)'
  BY <1>1, <1>2 DEF LocalInv, ProgressInv, Commit, helpers, BeforeLayers,
                    CopyingLayers, AfterLayers
<1>7. OuterInv(c)'
  BY <1>1, <1>2 DEF LocalInv, OuterInv, Commit
<1> QED
  BY <1>3, <1>4, <1>5, <1>6, <1>7, Frame DEF LocalInv

(* The deferred calls, which run when no goroutine copies.                 *)
LEMMA ControlUnwind ==
  ASSUME ControlInv, NEW c \in Copies, Unwind(c)
  PROVE  ControlInv'
<1>1. LocalInv(c) /\ LastLayer(c)' = LastLayer(c)
  BY DEF ControlInv, LastLayer, Unwind, control
<1>2. pc' = [pc EXCEPT ![c] = "done"] /\ pc'[c] = "done" /\ outer'[c] = FALSE
  BY DEF Unwind, Goto, ControlInv, ControlTyped
<1>3. SemsTyped'
  <2>1. CASE outer[c]
    <3>1. Shared \in Sems /\ ready[Shared] \in SUBSET Copies
      BY DEF Sems, ControlInv, SemsTyped
    <3> QED
      BY <2>1, <3>1, GiveBackTyped DEF Unwind, Release, ControlInv
  <2>2. CASE ~outer[c]
    BY <2>2 DEF Unwind, ControlInv, SemsTyped, sems
  <2> QED
    BY <2>1, <2>2
<1>4. ControlTyped'
  BY <1>2 DEF ControlInv, ControlTyped, Unwind, Steps, control, helpers
<1>5. \A d \in Copies : d # c => Same(d)
  BY <1>2 DEF Same, Unwind, control, helpers, ControlInv, ControlTyped
<1>6. LayersInv(c)'
  BY <1>1, <1>2 DEF LocalInv, LayersInv, Unwind, control, helpers, CopyingLayers
<1>7. ProgressInv(c)'
  BY <1>1, <1>2 DEF LocalInv, ProgressInv, Unwind, control, helpers, BeforeLayers,
                    CopyingLayers, AfterLayers
<1>8. OuterInv(c)'
  BY <1>2 DEF OuterInv
<1> QED
  BY <1>3, <1>4, <1>5, <1>6, <1>7, <1>8, Frame DEF LocalInv

(* A goroutine reports, while its call still copies layers.                *)
LEMMA ControlHelper ==
  ASSUME ControlInv, NEW c \in Copies, NEW i \in Layers, CopyLayerHelper(c, i)
  PROVE  ControlInv'
<1>1. LocalInv(c) /\ LastLayer(c)' = LastLayer(c)
  BY DEF ControlInv, LastLayer, CopyLayerHelper, control
<1>2. PICK outcome \in {"ok", "err"} : data' = [data EXCEPT ![c][i] = outcome]
  BY DEF CopyLayerHelper
<1>3. /\ \A j \in Layers : helper'[c][j] = IF j = i THEN "copied" ELSE helper[c][j]
      /\ \A j \in Layers : data'[c][j] = IF j = i THEN outcome ELSE data[c][j]
  BY <1>2 DEF CopyLayerHelper, ControlInv, ControlTyped
<1>4. ControlTyped'
  <2>1. [helper[c] EXCEPT ![i] = "copied"] \in [Layers -> HelperStates]
    BY DEF ControlInv, ControlTyped, HelperStates
  <2>2. [data[c] EXCEPT ![i] = outcome] \in [Layers -> DataStates]
    BY <1>2 DEF ControlInv, ControlTyped, DataStates
  <2> QED
    BY <1>2, <2>1, <2>2 DEF ControlInv, ControlTyped, CopyLayerHelper, control
<1>5. SemsTyped'
  BY DEF ControlInv, SemsTyped, CopyLayerHelper, sems
<1>6. \A d \in Copies : d # c => Same(d)
  BY <1>2 DEF Same, CopyLayerHelper, control, ControlInv, ControlTyped
<1>7. helper[c][i] = "copying" /\ data[c][i] = "unset" /\ pc[c] \in CopyingLayers
      /\ ~(i >= next[c])
  BY <1>1 DEF LocalInv, LayersInv, CopyLayerHelper
<1>8. LayersInv(c)'
  BY <1>1, <1>2, <1>3, <1>7 DEF LocalInv, LayersInv, CopyLayerHelper, control
<1>9. ProgressInv(c)'
  <2>1. LastLayer(c) \in Nat /\ LayersPerImage \in Nat /\ LastLayer(c) <= N /\ N \in Nat
        /\ LastLayer(c) >= LayersPerImage
    BY LastLayerTyped, NIsNat DEF ControlInv
  <2>2. \A j \in 1..(LastLayer(c) - LayersPerImage) : j \in Layers /\ data[c][j] \in Stored
    BY <1>1, <1>7, <2>1 DEF LocalInv, ProgressInv, Layers, N
  <2>3. \A j \in 1..(LastLayer(c) - LayersPerImage) : data'[c][j] \in Stored
    BY <1>3, <1>7, <2>2 DEF Stored
  <2> QED
    BY <1>1, <1>7, <2>3 DEF LocalInv, ProgressInv, CopyLayerHelper, control,
                            BeforeLayers, CopyingLayers, AfterLayers
<1>10. OuterInv(c)'
  BY <1>1 DEF LocalInv, OuterInv, CopyLayerHelper
<1> QED
  BY <1>4, <1>5, <1>6, <1>8, <1>9, <1>10, Frame DEF LocalInv

(* A goroutine releases its unit, at any later time.                       *)
LEMMA ControlRelease ==
  ASSUME ControlInv, NEW c \in Copies, NEW i \in Layers, ReleaseLayer(c, i)
  PROVE  ControlInv'
<1>1. LocalInv(c) /\ LastLayer(c)' = LastLayer(c)
  BY DEF ControlInv, LastLayer, ReleaseLayer, control
<1>2. \A j \in Layers : helper'[c][j] = IF j = i THEN "finished" ELSE helper[c][j]
  BY DEF ReleaseLayer, ControlInv, ControlTyped
<1>3. ControlTyped'
  <2>1. [helper[c] EXCEPT ![i] = "finished"] \in [Layers -> HelperStates]
    BY DEF ControlInv, ControlTyped, HelperStates
  <2> QED
    BY <2>1 DEF ControlInv, ControlTyped, ReleaseLayer, control
<1>4. SemsTyped'
  <2>1. SemOf(c) \in Sems /\ ready[SemOf(c)] \in SUBSET Copies
    BY SemOfIsSem DEF ControlInv, SemsTyped
  <2> QED
    BY <2>1, GiveBackTyped DEF ReleaseLayer, Release, ControlInv
<1>5. \A d \in Copies : d # c => Same(d)
  BY DEF Same, ReleaseLayer, control, ControlInv, ControlTyped
<1>6. LayersInv(c)'
  BY <1>1, <1>2 DEF LocalInv, LayersInv, ReleaseLayer, control
<1>7. ProgressInv(c)'
  BY <1>1 DEF LocalInv, ProgressInv, ReleaseLayer, control
<1>8. OuterInv(c)'
  BY <1>1 DEF LocalInv, OuterInv, ReleaseLayer
<1> QED
  BY <1>3, <1>4, <1>5, <1>6, <1>7, <1>8, Frame DEF LocalInv

(* Everything a call does itself.                                          *)
LEMMA ControlMain ==
  ASSUME ControlInv, NEW c \in Copies, Main(c)
  PROVE  ControlInv'
<1> DEFINE Untouched == UNCHANGED <<cancelled, outer, control, helpers>>
<1>1. SemOf(c) \in Sems /\ Shared \in Sems
  BY SemOfIsSem DEF Sems
<1>2. LocalInv(c) /\ ThreadSafe[c] \in BOOLEAN
  BY ThreadSafeAssumption DEF ControlInv
<1>3. ASSUME UNCHANGED sems PROVE SemsTyped'
  BY <1>3 DEF ControlInv, SemsTyped, sems
<1>4. ASSUME NEW step \in Steps, Goto(c, step), Untouched
      PROVE  ControlTyped'
  BY <1>4 DEF ControlInv, ControlTyped, Goto, control, helpers
<1>5. ASSUME NEW step \in Steps, Goto(c, step), Untouched, SemsTyped',
             step \in BeforeLayers => pc[c] \in BeforeLayers,
             step \in CopyingLayers => pc[c] \in BeforeLayers \cup CopyingLayers,
             step \in {"layerWait", "spawn"} => next[c] <= LastLayer(c),
             step \in AfterLayers => pc[c] \in AfterLayers,
             step \notin CopyingLayers => pc[c] \notin CopyingLayers,
             pc[c] \notin {"unwind", "done"},
             step \notin {"image", "imageWait", "done"},
             pc[c] \in {"image", "imageWait"} => ThreadSafe[c] \/ step = "unwind"
      PROVE  ControlInv'
  BY <1>4, <1>5, Move DEF control
<1>6. ASSUME NEW step \in AfterLayers \cup {"unwind"}, Goto(c, step), Untouched, SemsTyped',
             pc[c] \in AfterLayers
      PROVE  ControlInv'
  BY <1>5, <1>6 DEF Steps, BeforeLayers, CopyingLayers, AfterLayers
<1>7. \A b \in BOOLEAN : AfterFailure(c, b) \in {"retry", "unwind"}
  BY DEF AfterFailure
<1>8. {"config", "configWait", "configCopy", "manifest", "retry", "signatures",
       "next", "commit"} \subseteq AfterLayers
  BY DEF AfterLayers
<1>10. CASE ImageFails(c)
  BY <1>3, <1>5, <1>10 DEF ImageFails, Steps, BeforeLayers, CopyingLayers, AfterLayers
<1>11. CASE Image(c)
  <2>1. CASE ThreadSafe[c]
    <3>1. Goto(c, "prepare") /\ SemsTyped' /\ pc'[c] = "prepare"
      BY <1>3, <1>11, <2>1 DEF Image, Goto, ControlInv, ControlTyped
    <3> QED
      BY <1>11, <2>1, <3>1, MoveImage DEF Image
  <2>2. CASE ~ThreadSafe[c]
    <3>1. Acquire(c, Shared, "prepare", "imageWait", "unwind")
      BY <1>11, <2>2 DEF Image
    <3>2. SemsTyped' /\ \E step \in {"prepare", "imageWait", "unwind"} : Goto(c, step)
      BY <1>1, <3>1, AcquireTyped DEF ControlInv
    <3>3. PICK step \in {"prepare", "imageWait", "unwind"} : Goto(c, step)
      BY <3>2
    <3>4. pc'[c] = step
      BY <3>3 DEF Goto, ControlInv, ControlTyped
    <3> QED
      BY <1>11, <2>2, <3>2, <3>3, <3>4, MoveImage DEF Image
  <2> QED
    BY <2>1, <2>2
<1>12. CASE ImageResumes(c)
  <2>1. SemsTyped' /\ \E step \in {"prepare", "unwind"} : Goto(c, step)
    BY <1>1, <1>12, ResumeTyped DEF ImageResumes, ControlInv
  <2>2. PICK step \in {"prepare", "unwind"} : Goto(c, step)
    BY <2>1
  <2>3. pc'[c] = step /\ ~ThreadSafe[c]
    BY <1>2, <1>12, <2>2 DEF Goto, ControlInv, ControlTyped, ImageResumes, LocalInv, OuterInv
  <2>4. outer' = [outer EXCEPT ![c] = ~ThreadSafe[c] /\ step = "prepare"]
    BY <1>12, <2>3 DEF ImageResumes
  <2> QED
    BY <1>12, <2>1, <2>2, <2>3, <2>4, MoveImage DEF ImageResumes
<1>13. CASE Prepare(c)
  BY <1>3, <1>5, <1>13 DEF Prepare, Steps, BeforeLayers, CopyingLayers, AfterLayers
<1>14. CASE LayerLoop(c)
  <2>1. SemsTyped' /\ \E step \in {"spawn", "layerWait", "join"} :
          Goto(c, step) /\ (step # "join" => next[c] <= LastLayer(c))
    <3>1. CASE next[c] <= LastLayer(c)
      BY <1>1, <1>14, <3>1, AcquireTyped DEF LayerLoop, ControlInv
    <3>2. CASE ~(next[c] <= LastLayer(c))
      BY <1>3, <1>14, <3>2 DEF LayerLoop
    <3> QED
      BY <3>1, <3>2
  <2> QED
    BY <1>5, <1>14, <2>1 DEF LayerLoop, Steps, BeforeLayers, CopyingLayers, AfterLayers
<1>15. CASE LayerResumes(c)
  <2>1. SemsTyped' /\ \E step \in {"spawn", "join"} : Goto(c, step)
    BY <1>1, <1>15, ResumeTyped DEF LayerResumes, ControlInv
  <2>2. next[c] <= LastLayer(c)
    BY <1>2, <1>15 DEF LayerResumes, LocalInv, ProgressInv
  <2> QED
    BY <1>5, <1>15, <2>1, <2>2 DEF LayerResumes, Steps, BeforeLayers, CopyingLayers,
                                   AfterLayers
<1>16. CASE UpdateImage(c)
  <2>1. SemsTyped' /\ \E step \in AfterLayers \cup {"unwind"} : Goto(c, step)
    <3>1. CASE \E rejected \in BOOLEAN : Goto(c, AfterFailure(c, rejected)) /\ UNCHANGED sems
      BY <1>3, <1>7, <1>8, <3>1
    <3>2. CASE Goto(c, "manifest") /\ UNCHANGED sems
      BY <1>3, <1>8, <3>2
    <3>3. CASE Acquire(c, SemOf(c), "configCopy", "configWait", AfterFailure(c, FALSE))
      BY <1>1, <1>7, <1>8, <3>3, AcquireTyped DEF ControlInv
    <3> QED
      BY <1>16, <3>1, <3>2, <3>3 DEF UpdateImage
  <2> QED
    BY <1>6, <1>8, <1>16, <2>1 DEF UpdateImage
<1>17. CASE ConfigResumes(c)
  <2>1. SemsTyped' /\ \E step \in AfterLayers \cup {"unwind"} : Goto(c, step)
    BY <1>1, <1>7, <1>8, <1>17, ResumeTyped DEF ConfigResumes, ControlInv
  <2> QED
    BY <1>6, <1>8, <1>17, <2>1 DEF ConfigResumes
<1>18. CASE CopyConfig(c)
  <2>1. SemsTyped'
    <3>1. ready[SemOf(c)] \in SUBSET Copies
      BY <1>1 DEF ControlInv, SemsTyped
    <3> QED
      BY <1>1, <1>18, <3>1, GiveBackTyped DEF CopyConfig, Release, ControlInv
  <2>2. \E step \in AfterLayers \cup {"unwind"} : Goto(c, step)
    BY <1>7, <1>8, <1>18 DEF CopyConfig
  <2> QED
    BY <1>6, <1>8, <1>18, <2>1, <2>2 DEF CopyConfig
<1>19. CASE PutManifest(c)
  <2>1. \E step \in AfterLayers \cup {"unwind"} : Goto(c, step)
    BY <1>7, <1>8, <1>19 DEF PutManifest
  <2> QED
    BY <1>3, <1>6, <1>8, <1>19, <2>1 DEF PutManifest
<1>20. CASE RetryFormat(c)
  <2>1. PICK step \in {"config", "unwind"} : Goto(c, step)
    BY <1>20 DEF RetryFormat
  <2>2. ControlTyped'
    <3>1. attempt' \in [Copies -> 0..OtherCandidates]
      BY <1>20, SizeAssumption DEF RetryFormat, ControlInv, ControlTyped
    <3> QED
      BY <1>20, <2>1, <3>1 DEF RetryFormat, ControlInv, ControlTyped, Goto, Steps, helpers
  <2> QED
    BY <1>3, <1>20, <2>1, <2>2, Move DEF RetryFormat, Steps, BeforeLayers,
                                         CopyingLayers, AfterLayers
<1>21. CASE PutSignatures(c)
  BY <1>3, <1>6, <1>8, <1>21 DEF PutSignatures
<1>22. CASE NextImage(c)
  <2>1. CASE instance[c] < Instances
    BY <1>22, <2>1, ControlNextImage DEF NextImage
  <2>2. CASE ~(instance[c] < Instances)
    BY <1>3, <1>6, <1>8, <1>22, <2>2 DEF NextImage, control
  <2> QED
    BY <2>1, <2>2
<1> QED
  BY <1>10, <1>11, <1>12, <1>13, <1>14, <1>15, <1>16, <1>17, <1>18, <1>19, <1>20,
     <1>21, <1>22, ControlSkip, ControlSpawn, ControlJoin, ControlCommit, ControlUnwind
     DEF Main

(* The control invariant holds in every reachable state.                   *)
LEMMA ControlInvHolds == Spec => []ControlInv
<1>1. Init => ControlInv
  <2> SUFFICES ASSUME Init PROVE ControlInv
    OBVIOUS
  <2>1. ControlTyped
    BY SizeAssumption, NIsNat DEF Init, ControlTyped, Steps, HelperStates, DataStates
  <2>2. SemsTyped
    BY DEF Init, SemsTyped
  <2>3. ASSUME NEW c \in Copies PROVE LocalInv(c)
    <3>1. LastLayer(c) = LayersPerImage /\ LayersPerImage \in Nat
      BY SizeAssumption DEF Init, LastLayer
    <3>2. LayersInv(c)
      BY NIsNat DEF Init, LayersInv, Layers
    <3>3. ProgressInv(c)
      BY <3>1 DEF Init, ProgressInv, CopyingLayers, AfterLayers
    <3>4. OuterInv(c)
      BY DEF Init, OuterInv
    <3> QED
      BY <3>2, <3>3, <3>4 DEF LocalInv
  <2> QED
    BY <2>1, <2>2, <2>3 DEF ControlInv
<1>2. ControlInv /\ [Next]_vars => ControlInv'
  <2> SUFFICES ASSUME ControlInv, [Next]_vars PROVE ControlInv'
    OBVIOUS
  <2>1. ASSUME NEW c \in Copies, Cancel(c) PROVE ControlInv'
    <3>1. ControlTyped' /\ SemsTyped'
      BY <2>1 DEF ControlInv, ControlTyped, SemsTyped, Cancel, control, helpers, sems
    <3>2. \A d \in Copies : LocalInv(d)'
      BY <2>1 DEF ControlInv, LocalInv, LayersInv, ProgressInv, OuterInv, LastLayer,
                  Cancel, control, helpers
    <3> QED
      BY <3>1, <3>2 DEF ControlInv
  <2>2. CASE UNCHANGED vars
    <3>1. ControlTyped' /\ SemsTyped'
      BY <2>2 DEF ControlInv, ControlTyped, SemsTyped, vars, control, helpers, sems
    <3>2. \A d \in Copies : LocalInv(d)'
      BY <2>2 DEF ControlInv, LocalInv, LayersInv, ProgressInv, OuterInv, LastLayer,
                  vars, control, helpers
    <3> QED
      BY <3>1, <3>2 DEF ControlInv
  <2> QED
    BY <2>1, <2>2, ControlMain, ControlHelper, ControlRelease
       DEF Next, Helper, Terminated
<1> QED
  BY <1>1, <1>2, PTL DEF Spec

-----------------------------------------------------------------------------
(* A manifest is written and an image committed only when every layer so   *)
(* far was copied without error, for any number of goroutines that finish  *)
(* in any order.                                                           *)
THEOREM ManifestsAreComplete == Spec => []ManifestNeedsAllLayers
<1>1. ControlInv => ManifestNeedsAllLayers
  BY DEF ControlInv, LocalInv, ProgressInv, AfterLayers, Stored, ManifestNeedsAllLayers
<1> QED
  BY <1>1, ControlInvHolds, PTL

(* No goroutine uses the transports or the cache after they are closed.    *)
THEOREM ClosedMeansUnused == Spec => []NoCopyAfterClose
<1>1. ControlInv => NoCopyAfterClose
  BY DEF ControlInv, LocalInv, LayersInv, CopyingLayers, NoCopyAfterClose
<1> QED
  BY <1>1, ControlInvHolds, PTL

-----------------------------------------------------------------------------
(* The semaphores *)

(* The call is blocked in Acquire on semaphore s.                          *)
Waiting(c, s) ==
  \/ pc[c] = "imageWait" /\ s = Shared
  \/ pc[c] \in {"layerWait", "configWait"} /\ s = SemOf(c)

(* Units somebody holds and knows of.                                      *)
Own(c, i, s) ==
  \/ i = -1 /\ s = Shared /\ outer[c]
  \/ i = 0 /\ SemOf(c) = s /\ pc[c] \in {"spawn", "configCopy"}
  \/ i \in Layers /\ SemOf(c) = s /\ helper[c][i] \in {"copying", "copied"}

(* The queue holds every blocked call at most once, and not the ones that  *)
(* were granted a unit; nobody else was granted one.                       *)
QueueInv(s) ==
  /\ \A k \in 1..Len(waiters[s]) :
       Waiting(waiters[s][k], s) /\ waiters[s][k] \notin ready[s]
  /\ \A j, k \in 1..Len(waiters[s]) : waiters[s][j] = waiters[s][k] => j = k
  /\ \A c \in ready[s] : Waiting(c, s)

CountInv(s) ==
  /\ cur[s] = Cardinality(Holders(s))
  /\ cur[s] <= Size(s)
  /\ waiters[s] # <<>> => cur[s] = Size(s)

SemInv == \A s \in Sems : QueueInv(s) /\ CountInv(s)

(* The size of a semaphore is natural.                                     *)
LEMMA SizeTyped == \A s \in Sems : Size(s) \in Nat
BY CapacityAssumption DEF Size

(* The slots of a call: the call, the blob at hand, its layers.            *)
LEMMA SlotsTyped == -1 \in Slots /\ 0 \in Slots /\ Layers \subseteq Slots /\ Slots \subseteq Int
                    /\ 0 \notin Layers /\ -1 \notin Layers
BY NIsNat DEF Slots, Layers, N

(* A unit that is held is either known to its holder, or was granted to a  *)
(* call that has not resumed.                                              *)
LEMMA HoldsIffOwn ==
  ASSUME NEW c, NEW i, NEW s
  PROVE  Holds(c, i, s) <=> Own(c, i, s) \/ (i = 0 /\ c \in ready[s])
BY DEF Holds, Own

(* Finitely many units are held, so they can be counted.                   *)
LEMMA HoldersFinite ==
  ASSUME NEW s
  PROVE  IsFiniteSet(Holders(s)) /\ Cardinality(Holders(s)) \in Nat
<1>1. IsFiniteSet(Slots)
  BY NIsNat, FS_Interval DEF Slots, N
<1>2. IsFiniteSet(Copies \X Slots)
  BY <1>1, CopiesAssumption, FS_Product
<1>3. IsFiniteSet(Holders(s))
  BY <1>2, FS_Subset DEF Holders
<1> QED
  BY <1>3, FS_CardinalityType

(* How the number of holders changes with the set of holders.              *)
LEMMA HoldersSame ==
  ASSUME NEW s, \A c \in Copies, i \in Slots : Holds(c, i, s)' <=> Holds(c, i, s)
  PROVE  Holders(s)' = Holders(s)
<1>1. \A t \in Copies \X Slots : t[1] \in Copies /\ t[2] \in Slots
  OBVIOUS
<1>2. \A t \in Copies \X Slots : Holds(t[1], t[2], s)' <=> Holds(t[1], t[2], s)
  BY <1>1
<1> QED
  BY <1>2 DEF Holders

(* One more holder: the count grows by one.                                *)
LEMMA HoldersMore ==
  ASSUME NEW s, NEW c0 \in Copies, NEW i0 \in Slots, ~Holds(c0, i0, s),
         \A c \in Copies, i \in Slots :
           Holds(c, i, s)' <=> Holds(c, i, s) \/ (c = c0 /\ i = i0)
  PROVE  Cardinality(Holders(s))' = Cardinality(Holders(s)) + 1
<1> DEFINE x == <<c0, i0>>
<1>1. \A t \in Copies \X Slots :
        /\ t[1] \in Copies /\ t[2] \in Slots
        /\ t = x <=> t[1] = c0 /\ t[2] = i0
  OBVIOUS
<1>2. x \in Copies \X Slots /\ x[1] = c0 /\ x[2] = i0
  OBVIOUS
<1>3. \A t \in Copies \X Slots :
        Holds(t[1], t[2], s)' <=> Holds(t[1], t[2], s) \/ t = x
  BY <1>1
<1>4. Holders(s)' = Holders(s) \cup {x} /\ x \notin Holders(s)
  BY <1>2, <1>3 DEF Holders
<1> QED
  BY <1>4, HoldersFinite, FS_AddElement

(* One holder less: the count shrinks by one.                              *)
LEMMA HoldersLess ==
  ASSUME NEW s, NEW c0 \in Copies, NEW i0 \in Slots, Holds(c0, i0, s),
         \A c \in Copies, i \in Slots :
           Holds(c, i, s)' <=> Holds(c, i, s) /\ ~(c = c0 /\ i = i0)
  PROVE  Cardinality(Holders(s))' = Cardinality(Holders(s)) - 1
<1> DEFINE x == <<c0, i0>>
<1>1. \A t \in Copies \X Slots :
        /\ t[1] \in Copies /\ t[2] \in Slots
        /\ t = x <=> t[1] = c0 /\ t[2] = i0
  OBVIOUS
<1>2. x \in Copies \X Slots /\ x[1] = c0 /\ x[2] = i0
  OBVIOUS
<1>3. \A t \in Copies \X Slots :
        Holds(t[1], t[2], s)' <=> Holds(t[1], t[2], s) /\ t # x
  BY <1>1
<1>4. Holders(s)' = Holders(s) \ {x} /\ x \in Holders(s)
  BY <1>2, <1>3 DEF Holders
<1> QED
  BY <1>4, HoldersFinite, FS_RemoveElement

(* One holder in the place of another: the count stays.                    *)
LEMMA HoldersSwap ==
  ASSUME NEW s, NEW c0 \in Copies, NEW i0 \in Slots, Holds(c0, i0, s),
         NEW c1 \in Copies, NEW i1 \in Slots, ~Holds(c1, i1, s),
         \A c \in Copies, i \in Slots :
           Holds(c, i, s)' <=> (Holds(c, i, s) /\ ~(c = c0 /\ i = i0)) \/ (c = c1 /\ i = i1)
  PROVE  Cardinality(Holders(s))' = Cardinality(Holders(s))
<1> DEFINE x == <<c0, i0>>
           y == <<c1, i1>>
<1>1. \A t \in Copies \X Slots :
        /\ t[1] \in Copies /\ t[2] \in Slots
        /\ t = x <=> t[1] = c0 /\ t[2] = i0
        /\ t = y <=> t[1] = c1 /\ t[2] = i1
  OBVIOUS
<1>2. /\ x \in Copies \X Slots /\ x[1] = c0 /\ x[2] = i0
      /\ y \in Copies \X Slots /\ y[1] = c1 /\ y[2] = i1
  OBVIOUS
<1>3. \A t \in Copies \X Slots :
        Holds(t[1], t[2], s)' <=> (Holds(t[1], t[2], s) /\ t # x) \/ t = y
  BY <1>1
<1>4. x \in Holders(s) /\ y \notin Holders(s)
  BY <1>2 DEF Holders
<1>5. Holders(s)' = (Holders(s) \ {x}) \cup {y}
  BY <1>2, <1>3 DEF Holders
<1>6. IsFiniteSet(Holders(s) \ {x})
      /\ Cardinality(Holders(s) \ {x}) = Cardinality(Holders(s)) - 1
  BY <1>4, HoldersFinite, FS_RemoveElement
<1>7. Cardinality((Holders(s) \ {x}) \cup {y}) = Cardinality(Holders(s) \ {x}) + 1
  BY <1>4, <1>6, FS_AddElement
<1> QED
  BY <1>5, <1>6, <1>7, HoldersFinite

(* A semaphore a step does not touch.                                      *)
LEMMA Elsewhere ==
  ASSUME SemsTyped, NEW s \in Sems, QueueInv(s), CountInv(s),
         cur'[s] = cur[s], waiters'[s] = waiters[s], ready'[s] = ready[s],
         \A c \in Copies, i \in Slots : Own(c, i, s)' <=> Own(c, i, s),
         \A c \in Copies : Waiting(c, s) => Waiting(c, s)'
  PROVE  QueueInv(s)' /\ CountInv(s)'
<1>1. Holders(s)' = Holders(s)
  <2>1. \A c \in Copies, i \in Slots : Holds(c, i, s)' <=> Holds(c, i, s)
    BY DEF Holds, Own
  <2> QED
    BY <2>1, HoldersSame
<1>2. CountInv(s)'
  BY <1>1 DEF CountInv, Size
<1>3. /\ \A k \in 1..Len(waiters[s]) : waiters[s][k] \in Copies
      /\ \A c \in ready[s] : c \in Copies
  BY DEF SemsTyped
<1>4. QueueInv(s)'
  BY <1>3 DEF QueueInv
<1> QED
  BY <1>2, <1>4

-----------------------------------------------------------------------------
(* One lemma for each thing a step can do with a semaphore *)

OwnSame == \A d \in Copies, i \in Slots, r \in Sems : Own(d, i, r)' <=> Own(d, i, r)
OwnGains(c, i0, s) ==
  \A d \in Copies, i \in Slots, r \in Sems :
    Own(d, i, r)' <=> Own(d, i, r) \/ (d = c /\ i = i0 /\ r = s)
WaitingSame == \A d \in Copies, r \in Sems : Waiting(d, r)' <=> Waiting(d, r)

(* Nothing.                                                                *)
LEMMA SemsUntouched ==
  ASSUME SemsTyped, SemInv, UNCHANGED sems, OwnSame, WaitingSame
  PROVE  SemInv'
<1> SUFFICES ASSUME NEW r \in Sems PROVE QueueInv(r)' /\ CountInv(r)'
  BY DEF SemInv
<1> QED
  BY Elsewhere DEF SemInv, sems, OwnSame, WaitingSame

(* A unit changes hands within a call: the goroutine takes it over.        *)
LEMMA HandedOver ==
  ASSUME SemsTyped, SemInv, NEW c \in Copies, NEW s \in Sems,
         NEW i0 \in Slots, NEW i1 \in Slots, Own(c, i0, s), ~Holds(c, i1, s), i0 # i1,
         i0 = 0 => c \notin ready[s],
         UNCHANGED sems, WaitingSame,
         \A d \in Copies, i \in Slots, r \in Sems :
           Own(d, i, r)' <=> (Own(d, i, r) /\ ~(d = c /\ i = i0 /\ r = s))
                             \/ (d = c /\ i = i1 /\ r = s)
  PROVE  SemInv'
<1> SUFFICES ASSUME NEW r \in Sems PROVE QueueInv(r)' /\ CountInv(r)'
  BY DEF SemInv
<1>1. CASE r # s
  BY <1>1, Elsewhere DEF SemInv, sems, WaitingSame
<1>2. CASE r = s
  <2>1. \A d \in Copies, i \in Slots :
          Holds(d, i, s)' <=> (Holds(d, i, s) /\ ~(d = c /\ i = i0)) \/ (d = c /\ i = i1)
    <3> SUFFICES ASSUME NEW d \in Copies, NEW i \in Slots
                 PROVE  Holds(d, i, s)' <=>
                          (Holds(d, i, s) /\ ~(d = c /\ i = i0)) \/ (d = c /\ i = i1)
      OBVIOUS
    <3>1. Holds(d, i, s) <=> Own(d, i, s) \/ (i = 0 /\ d \in ready[s])
      BY DEF Holds, Own
    <3>2. Holds(d, i, s)' <=> Own(d, i, s)' \/ (i = 0 /\ d \in ready[s])
      BY DEF Holds, Own, sems
    <3> QED
      BY <3>1, <3>2
  <2>2. Holds(c, i0, s)
    BY HoldsIffOwn
  <2>3. Cardinality(Holders(s))' = Cardinality(Holders(s))
    BY <2>1, <2>2, HoldersSwap
  <2>4. CountInv(s)'
    BY <2>3 DEF SemInv, CountInv, Size, sems
  <2>5. /\ \A k \in 1..Len(waiters[s]) : waiters[s][k] \in Copies
        /\ \A d \in ready[s] : d \in Copies
    BY DEF SemsTyped
  <2>6. QueueInv(s)'
    BY <2>5 DEF SemInv, QueueInv, WaitingSame, sems
  <2> QED
    BY <1>2, <2>4, <2>6
<1> QED
  BY <1>1, <1>2

(* Acquire returns at once with a unit.                                    *)
LEMMA Acquired ==
  ASSUME SemsTyped, SemInv, NEW c \in Copies, NEW s \in Sems, NEW i0 \in Slots,
         ~Holds(c, i0, s), cur[s] < Size(s), waiters[s] = <<>>,
         cur' = [cur EXCEPT ![s] = @ + 1], UNCHANGED <<waiters, ready>>, WaitingSame,
         OwnGains(c, i0, s)
  PROVE  SemInv'
<1> SUFFICES ASSUME NEW r \in Sems PROVE QueueInv(r)' /\ CountInv(r)'
  BY DEF SemInv
<1>1. CASE r # s
  <2>1. cur'[r] = cur[r]
    BY <1>1 DEF SemsTyped
  <2> QED
    BY <1>1, <2>1, Elsewhere DEF SemInv, WaitingSame, OwnGains
<1>2. CASE r = s
  <2>1. \A d \in Copies, i \in Slots :
          Holds(d, i, s)' <=> Holds(d, i, s) \/ (d = c /\ i = i0)
    <3> SUFFICES ASSUME NEW d \in Copies, NEW i \in Slots
                 PROVE  Holds(d, i, s)' <=> Holds(d, i, s) \/ (d = c /\ i = i0)
      OBVIOUS
    <3>1. Holds(d, i, s) <=> Own(d, i, s) \/ (i = 0 /\ d \in ready[s])
      BY DEF Holds, Own
    <3>2. Holds(d, i, s)' <=> Own(d, i, s)' \/ (i = 0 /\ d \in ready[s])
      BY DEF Holds, Own
    <3> QED
      BY <3>1, <3>2 DEF OwnGains
  <2>2. Cardinality(Holders(s))' = Cardinality(Holders(s)) + 1
    BY <2>1, HoldersMore
  <2>3. cur'[s] = cur[s] + 1 /\ cur[s] \in Int /\ Size(s) \in Nat
    BY SizeTyped DEF SemsTyped
  <2>4. CountInv(s)'
    BY <2>2, <2>3 DEF SemInv, CountInv, Size
  <2>5. /\ \A k \in 1..Len(waiters[s]) : waiters[s][k] \in Copies
        /\ \A d \in ready[s] : d \in Copies
    BY DEF SemsTyped
  <2>6. QueueInv(s)'
    BY <2>5 DEF SemInv, QueueInv, WaitingSame
  <2> QED
    BY <1>2, <2>4, <2>6
<1> QED
  BY <1>1, <1>2

(* Acquire blocks.                                                         *)
LEMMA Blocked ==
  ASSUME SemsTyped, SemInv, NEW c \in Copies, NEW s \in Sems,
         ~(cur[s] < Size(s) /\ waiters[s] = <<>>),
         waiters' = [waiters EXCEPT ![s] = Append(@, c)], UNCHANGED <<cur, ready>>,
         \A r \in Sems : ~Waiting(c, r), OwnSame,
         \A d \in Copies, r \in Sems :
           Waiting(d, r)' <=> Waiting(d, r) \/ (d = c /\ r = s)
  PROVE  SemInv'
<1> SUFFICES ASSUME NEW r \in Sems PROVE QueueInv(r)' /\ CountInv(r)'
  BY DEF SemInv
<1>1. CASE r # s
  <2>1. waiters'[r] = waiters[r]
    BY <1>1 DEF SemsTyped
  <2> QED
    BY <1>1, <2>1, Elsewhere DEF SemInv, OwnSame
<1>2. CASE r = s
  <2> DEFINE q == waiters[s]
  <2>1. q \in Seq(Copies) /\ waiters'[s] = Append(q, c) /\ ready[s] \in SUBSET Copies
    BY DEF SemsTyped
  <2>2. Holders(s)' = Holders(s)
    <3>1. \A d \in Copies, i \in Slots : Holds(d, i, s)' <=> Holds(d, i, s)
      BY DEF Holds, Own, OwnSame
    <3> QED
      BY <3>1, HoldersSame
  <2>3. CountInv(s)'
    <3>1. cur[s] \in Int /\ Size(s) \in Nat
      BY SizeTyped DEF SemsTyped
    <3> QED
      BY <2>2, <3>1 DEF SemInv, CountInv, Size
  <2>4. /\ \A k \in 1..Len(q) : q[k] \in Copies /\ Waiting(q[k], s) /\ q[k] \notin ready[s]
        /\ \A j, k \in 1..Len(q) : q[j] = q[k] => j = k
        /\ \A d \in ready[s] : Waiting(d, s)
    BY <2>1 DEF SemInv, QueueInv
  <2>5. c \notin ready[s] /\ \A k \in 1..Len(q) : q[k] # c
    BY <2>4
  <2>6. /\ Len(waiters'[s]) = Len(q) + 1 /\ Len(q) \in Nat
        /\ waiters'[s][Len(q) + 1] = c
        /\ \A k \in 1..Len(q) : waiters'[s][k] = q[k]
    BY <2>1
  <2>7. \A k \in 1..Len(waiters'[s]) : k = Len(q) + 1 \/ k \in 1..Len(q)
    BY <2>6
  <2>8. (\A k \in 1..Len(waiters[s]) :
           Waiting(waiters[s][k], s) /\ waiters[s][k] \notin ready[s])'
    <3>1. \A k \in 1..Len(waiters'[s]) :
            /\ waiters'[s][k] \in Copies /\ waiters'[s][k] \notin ready'[s]
            /\ Waiting(waiters'[s][k], s) \/ waiters'[s][k] = c
      BY <2>4, <2>5, <2>6, <2>7
    <3> QED
      BY <3>1
  <2>9. \A j, k \in 1..Len(waiters'[s]) : waiters'[s][j] = waiters'[s][k] => j = k
    BY <2>4, <2>5, <2>6, <2>7
  <2>10. \A d \in ready'[s] : Waiting(d, s)'
    BY <2>1, <2>4
  <2>11. QueueInv(s)'
    BY <2>8, <2>9, <2>10 DEF QueueInv
  <2> QED
    BY <1>2, <2>3, <2>11
<1> QED
  BY <1>1, <1>2

(* A blocked Acquire notices that it was granted a unit.                   *)
LEMMA Granted ==
  ASSUME SemsTyped, SemInv, NEW c \in Copies, NEW s \in Sems, NEW i0 \in Slots, i0 = -1 \/ i0 = 0,
         c \in ready[s], ready' = [ready EXCEPT ![s] = @ \ {c}], UNCHANGED <<cur, waiters>>,
         \A r \in Sems : r # s => ~Waiting(c, r), ~Own(c, i0, s), ~Own(c, 0, s),
         \A d \in Copies, r \in Sems : Waiting(d, r)' <=> Waiting(d, r) /\ d # c,
         OwnGains(c, i0, s)
  PROVE  SemInv'
<1> SUFFICES ASSUME NEW r \in Sems PROVE QueueInv(r)' /\ CountInv(r)'
  BY DEF SemInv
<1>1. CASE r # s
  <2>1. ready'[r] = ready[r]
    BY <1>1 DEF SemsTyped
  <2> QED
    BY <1>1, <2>1, Elsewhere DEF SemInv, OwnGains
<1>2. CASE r = s
  <2>1. ready'[s] = ready[s] \ {c} /\ ready[s] \in SUBSET Copies
        /\ waiters[s] \in Seq(Copies)
    BY DEF SemsTyped
  <2>2. Cardinality(Holders(s))' = Cardinality(Holders(s))
    <3>1. ASSUME NEW d \in Copies, NEW i \in Slots
          PROVE  /\ Holds(d, i, s) <=> Own(d, i, s) \/ (i = 0 /\ d \in ready[s])
                 /\ Holds(d, i, s)' <=> Own(d, i, s)' \/ (i = 0 /\ d \in ready'[s])
      BY DEF Holds, Own
    <3>2. CASE i0 = 0
      <4>1. \A d \in Copies, i \in Slots : Holds(d, i, s)' <=> Holds(d, i, s)
        BY <2>1, <3>1, <3>2 DEF OwnGains
      <4> QED
        BY <4>1, HoldersSame
    <3>3. CASE i0 = -1
      <4>1. \A d \in Copies, i \in Slots :
              Holds(d, i, s)' <=>
                (Holds(d, i, s) /\ ~(d = c /\ i = 0)) \/ (d = c /\ i = -1)
        BY <2>1, <3>1, <3>3 DEF OwnGains
      <4>2. Holds(c, 0, s) /\ ~Holds(c, -1, s)
        BY <3>1, <3>3, SlotsTyped
      <4> QED
        BY <4>1, <4>2, HoldersSwap, SlotsTyped
    <3> QED
      BY <3>2, <3>3
  <2>3. CountInv(s)'
    BY <2>2 DEF SemInv, CountInv, Size
  <2>4. QueueInv(s)'
    <3>1. \A k \in 1..Len(waiters[s]) :
            waiters[s][k] \in Copies /\ Waiting(waiters[s][k], s)
            /\ waiters[s][k] \notin ready[s] /\ waiters[s][k] # c
      BY <2>1 DEF SemInv, QueueInv
    <3> QED
      BY <2>1, <3>1 DEF SemInv, QueueInv
  <2> QED
    BY <1>2, <2>3, <2>4
<1> QED
  BY <1>1, <1>2

(* A blocked Acquire gives up before it was granted a unit.                *)
LEMMA Withdrawn ==
  ASSUME SemsTyped, SemInv, NEW c \in Copies, NEW s \in Sems, c \notin ready[s],
         NEW n \in 1..Len(waiters[s]), waiters[s][n] = c,
         waiters' = [waiters EXCEPT ![s] = Without(@, n)], UNCHANGED <<cur, ready>>,
         \A r \in Sems : r # s => ~Waiting(c, r), OwnSame,
         \A d \in Copies, r \in Sems : Waiting(d, r)' <=> Waiting(d, r) /\ d # c
  PROVE  SemInv'
<1> SUFFICES ASSUME NEW r \in Sems PROVE QueueInv(r)' /\ CountInv(r)'
  BY DEF SemInv
<1>1. CASE r # s
  <2>1. waiters'[r] = waiters[r]
    BY <1>1 DEF SemsTyped
  <2> QED
    BY <1>1, <2>1, Elsewhere DEF SemInv, OwnSame
<1>2. CASE r = s
  <2> DEFINE q == waiters[s]
             p == waiters'[s]
  <2>1. q \in Seq(Copies) /\ p = Without(q, n) /\ ready[s] \in SUBSET Copies
    BY DEF SemsTyped
  <2>2. Holders(s)' = Holders(s)
    <3>1. \A d \in Copies, i \in Slots : Holds(d, i, s)' <=> Holds(d, i, s)
      BY DEF Holds, Own, OwnSame
    <3> QED
      BY <3>1, HoldersSame
  <2>3. CountInv(s)'
    <3>1. q # <<>>
      BY <2>1
    <3> QED
      BY <2>2, <3>1 DEF SemInv, CountInv, Size
  <2>4. /\ \A k \in 1..Len(q) : q[k] \in Copies /\ Waiting(q[k], s) /\ q[k] \notin ready[s]
        /\ \A j, k \in 1..Len(q) : q[j] = q[k] => j = k
        /\ \A d \in ready[s] : Waiting(d, s)
    BY <2>1 DEF SemInv, QueueInv
  <2>5. Len(p) = Len(q) - 1 /\ Len(q) \in Nat
    BY <2>1, WithoutTyped
  <2> DEFINE old(k) == IF k < n THEN k ELSE k + 1
  <2>6. \A k \in 1..Len(p) : p[k] = q[old(k)] /\ old(k) \in 1..Len(q) /\ old(k) # n
    <3>1. \A k \in 1..Len(p) : p[k] = IF k < n THEN q[k] ELSE q[k + 1]
      BY <2>1, <2>5 DEF Without
    <3> QED
      BY <2>5, <3>1
  <2>7. \A j, k \in 1..Len(p) : old(j) = old(k) => j = k
    BY <2>5
  <2>8. (\A k \in 1..Len(waiters[s]) :
           Waiting(waiters[s][k], s) /\ waiters[s][k] \notin ready[s])'
    <3>1. \A k \in 1..Len(p) : p[k] \in Copies /\ Waiting(p[k], s)
                               /\ p[k] \notin ready'[s] /\ p[k] # c
      BY <2>4, <2>6
    <3> QED
      BY <3>1
  <2>9. \A j, k \in 1..Len(p) : p[j] = p[k] => j = k
    BY <2>4, <2>6, <2>7
  <2>10. \A d \in ready'[s] : Waiting(d, s)'
    BY <2>1, <2>4
  <2>11. QueueInv(s)'
    BY <2>8, <2>9, <2>10 DEF QueueInv
  <2> QED
    BY <1>2, <2>3, <2>11
<1> QED
  BY <1>1, <1>2

(* A unit is given back, and granted to the first call in the queue.       *)
LEMMA GivenBack ==
  ASSUME SemsTyped, SemInv, NEW c \in Copies, NEW s \in Sems, NEW i0 \in Slots,
         NEW rdy \in SUBSET ready[s], GiveBack(s, rdy), Holds(c, i0, s),
         \A d \in Copies, i \in Slots :
           Own(d, i, s)' \/ (i = 0 /\ d \in rdy) <=> Holds(d, i, s) /\ ~(d = c /\ i = i0),
         \A r \in Sems : r # s =>
           \A d \in Copies, i \in Slots : Own(d, i, r)' <=> Own(d, i, r),
         \A r \in Sems : r # s => \A d \in Copies : Waiting(d, r) => Waiting(d, r)',
         \A d \in Copies : Waiting(d, s) /\ (d \in rdy \/ d \notin ready[s]) => Waiting(d, s)'
  PROVE  SemInv'
<1> SUFFICES ASSUME NEW r \in Sems PROVE QueueInv(r)' /\ CountInv(r)'
  BY DEF SemInv
<1>1. CASE r # s
  <2>1. waiters'[r] = waiters[r] /\ cur'[r] = cur[r] /\ ready'[r] = ready[r]
    <3>1. CASE waiters[s] = <<>>
      BY <1>1, <3>1 DEF SemsTyped, GiveBack
    <3>2. CASE waiters[s] # <<>>
      BY <1>1, <3>2 DEF SemsTyped, GiveBack
    <3> QED
      BY <3>1, <3>2
  <2> QED
    BY <1>1, <2>1, Elsewhere DEF SemInv
<1>2. ASSUME NEW d \in Copies, NEW i \in Slots
      PROVE  Holds(d, i, s)' <=> Own(d, i, s)' \/ (i = 0 /\ d \in ready'[s])
  BY DEF Holds, Own
<1>3. /\ \A k \in 1..Len(waiters[s]) : Waiting(waiters[s][k], s)
                                       /\ waiters[s][k] \notin ready[s]
      /\ \A j, k \in 1..Len(waiters[s]) : waiters[s][j] = waiters[s][k] => j = k
      /\ \A d \in ready[s] : Waiting(d, s)
  BY DEF SemInv, QueueInv
<1>4. waiters[s] \in Seq(Copies) /\ ready[s] \in SUBSET Copies /\ cur[s] \in Int
      /\ Size(s) \in Nat
  BY SizeTyped DEF SemsTyped
<1>5. CASE r = s /\ waiters[s] = <<>>
  <2>1. cur'[s] = cur[s] - 1 /\ ready'[s] = rdy /\ waiters'[s] = <<>>
    BY <1>5 DEF GiveBack, SemsTyped
  <2>2. \A d \in Copies, i \in Slots :
          Holds(d, i, s)' <=> Holds(d, i, s) /\ ~(d = c /\ i = i0)
    BY <1>2, <2>1
  <2>3. Cardinality(Holders(s))' = Cardinality(Holders(s)) - 1
    BY <2>2, HoldersLess
  <2>4. CountInv(s)'
    BY <1>4, <2>1, <2>3 DEF SemInv, CountInv, Size
  <2>5. QueueInv(s)'
    <3>1. \A d \in ready'[s] : Waiting(d, s)'
      BY <1>3, <1>4, <2>1
    <3> QED
      BY <2>1, <3>1 DEF QueueInv
  <2> QED
    BY <1>5, <2>4, <2>5
<1>6. CASE r = s /\ waiters[s] # <<>>
  <2> DEFINE h == Head(waiters[s])
             p == waiters'[s]
  <2>1. cur'[s] = cur[s] /\ ready'[s] = rdy \cup {h} /\ p = Tail(waiters[s])
    BY <1>6 DEF GiveBack, SemsTyped
  <2>2. /\ h = waiters[s][1] /\ 1 \in 1..Len(waiters[s]) /\ h \in Copies
        /\ Len(p) = Len(waiters[s]) - 1 /\ Len(waiters[s]) \in Nat
        /\ \A k \in 1..Len(p) : p[k] = waiters[s][k + 1] /\ k + 1 \in 1..Len(waiters[s])
    BY <1>4, <1>6, <2>1
  <2>3. Waiting(h, s) /\ h \notin ready[s]
    BY <1>3, <2>2
  <2>4. ~Holds(h, 0, s)
    BY <2>3, SlotsTyped DEF Holds, Waiting
  <2>5. \A d \in Copies, i \in Slots :
          Holds(d, i, s)' <=> (Holds(d, i, s) /\ ~(d = c /\ i = i0)) \/ (d = h /\ i = 0)
    BY <1>2, <2>1
  <2>6. Cardinality(Holders(s))' = Cardinality(Holders(s))
    BY <2>2, <2>4, <2>5, HoldersSwap, SlotsTyped
  <2>7. CountInv(s)'
    BY <1>6, <2>1, <2>6 DEF SemInv, CountInv, Size
  <2>8. (\A k \in 1..Len(waiters[s]) :
           Waiting(waiters[s][k], s) /\ waiters[s][k] \notin ready[s])'
    <3>1. \A k \in 1..Len(p) : p[k] \in Copies /\ Waiting(p[k], s) /\ p[k] \notin ready[s]
                               /\ p[k] # h
      BY <1>3, <1>4, <2>2
    <3>2. \A k \in 1..Len(p) : p[k] \notin ready'[s]
      BY <2>1, <3>1
    <3> QED
      BY <3>1, <3>2
  <2>9. \A j, k \in 1..Len(p) : p[j] = p[k] => j = k
    BY <1>3, <2>2
  <2>10. \A d \in ready'[s] : Waiting(d, s)'
    BY <1>3, <1>4, <2>1, <2>2, <2>3
  <2>11. QueueInv(s)'
    BY <2>8, <2>9, <2>10 DEF QueueInv
  <2> QED
    BY <1>6, <2>7, <2>11
<1> QED
  BY <1>1, <1>5, <1>6

-----------------------------------------------------------------------------
(* The steps of a call *)

(* A call's step does not concern the others.                              *)
LEMMA Others ==
  ASSUME ControlTyped, NEW c \in Copies, NEW step, Goto(c, step),
         NEW d \in Copies, d # c, helper'[d] = helper[d], outer'[d] = outer[d]
  PROVE  /\ \A i \in Slots, r \in Sems : Own(d, i, r)' <=> Own(d, i, r)
         /\ \A r \in Sems : Waiting(d, r)' <=> Waiting(d, r)
<1>1. pc'[d] = pc[d]
  BY DEF Goto, ControlTyped
<1> QED
  BY <1>1 DEF Own, Waiting

(* Acquire by a call that does not wait yet.                               *)
LEMMA AcquireSems ==
  ASSUME ControlInv, SemInv, NEW c \in Copies, NEW s \in Sems, NEW i0 \in Slots, i0 = -1 \/ i0 = 0,
         NEW granted, NEW blocked, NEW failed, Acquire(c, s, granted, blocked, failed),
         helper' = helper, \A d \in Copies : d # c => outer'[d] = outer[d],
         \A r \in Sems : ~Waiting(c, r), ~Own(c, i0, s),
         pc'[c] = granted =>
           /\ \A r \in Sems : ~Waiting(c, r)'
           /\ \A i \in Slots, r \in Sems :
                Own(c, i, r)' <=> Own(c, i, r) \/ (i = i0 /\ r = s),
         pc'[c] = blocked =>
           /\ \A r \in Sems : Waiting(c, r)' <=> r = s
           /\ \A i \in Slots, r \in Sems : Own(c, i, r)' <=> Own(c, i, r),
         pc'[c] = failed =>
           /\ \A r \in Sems : ~Waiting(c, r)'
           /\ \A i \in Slots, r \in Sems : Own(c, i, r)' <=> Own(c, i, r)
  PROVE  SemInv'
<1> USE DEF ControlInv
<1>1. ASSUME NEW step, Goto(c, step)
      PROVE  /\ pc'[c] = step
             /\ \A d \in Copies, i \in Slots, r \in Sems :
                  d # c => (Own(d, i, r)' <=> Own(d, i, r))
             /\ \A d \in Copies, r \in Sems :
                  d # c => (Waiting(d, r)' <=> Waiting(d, r))
  <2>1. pc'[c] = step
    BY <1>1 DEF Goto, ControlTyped
  <2> QED
    BY <1>1, <2>1, Others
<1>2. CASE cancelled[c] /\ Goto(c, failed) /\ UNCHANGED sems
  <2>1. OwnSame /\ WaitingSame
    BY <1>1, <1>2 DEF OwnSame, WaitingSame
  <2> QED
    BY <1>2, <2>1, SemsUntouched
<1>3. CASE /\ cur[s] < Size(s) /\ waiters[s] = <<>>
           /\ cur' = [cur EXCEPT ![s] = @ + 1]
           /\ Goto(c, granted)
           /\ UNCHANGED <<waiters, ready>>
  <2>1. c \notin ready[s] /\ i0 \in Slots
    BY SlotsTyped DEF SemInv, QueueInv
  <2>2. ~Holds(c, i0, s)
    BY <2>1, HoldsIffOwn
  <2>3. WaitingSame
    BY <1>1, <1>3 DEF WaitingSame
  <2>4. OwnGains(c, i0, s)
    BY <1>1, <1>3 DEF OwnGains
  <2>5. /\ cur[s] < Size(s) /\ waiters[s] = <<>> /\ SemsTyped
        /\ cur' = [cur EXCEPT ![s] = @ + 1]
        /\ UNCHANGED <<waiters, ready>>
    BY <1>3
  <2> HIDE DEF ControlInv
  <2> QED
    BY <2>1, <2>2, <2>3, <2>4, <2>5, Acquired
<1>4. CASE /\ ~(cur[s] < Size(s) /\ waiters[s] = <<>>)
           /\ waiters' = [waiters EXCEPT ![s] = Append(@, c)]
           /\ Goto(c, blocked)
           /\ UNCHANGED <<cur, ready>>
  <2>1. OwnSame
    BY <1>1, <1>4 DEF OwnSame
  <2>2. \A d \in Copies, r \in Sems :
          Waiting(d, r)' <=> Waiting(d, r) \/ (d = c /\ r = s)
    BY <1>1, <1>4
  <2> QED
    BY <1>4, <2>1, <2>2, Blocked
<1> QED
  BY <1>2, <1>3, <1>4 DEF Acquire

(* A blocked Acquire resumes, with the unit it was granted, or giving it   *)
(* back, or leaving the queue.                                             *)
LEMMA ResumeSems ==
  ASSUME ControlInv, SemInv, NEW c \in Copies, NEW s \in Sems, NEW i0 \in Slots, i0 = -1 \/ i0 = 0,
         NEW granted, NEW failed, Resume(c, s, granted, failed),
         helper' = helper, \A d \in Copies : d # c => outer'[d] = outer[d],
         \A r \in Sems : r # s => ~Waiting(c, r), ~Own(c, i0, s), ~Own(c, 0, s),
         \A r \in Sems : ~Waiting(c, r)',
         pc'[c] = granted => \A i \in Slots, r \in Sems :
           Own(c, i, r)' <=> Own(c, i, r) \/ (i = i0 /\ r = s),
         pc'[c] = failed => \A i \in Slots, r \in Sems : Own(c, i, r)' <=> Own(c, i, r)
  PROVE  SemInv'
<1> USE DEF ControlInv
<1>1. ASSUME NEW step, Goto(c, step)
      PROVE  /\ pc'[c] = step
             /\ \A d \in Copies, i \in Slots, r \in Sems :
                  d # c => (Own(d, i, r)' <=> Own(d, i, r))
             /\ \A d \in Copies, r \in Sems : Waiting(d, r)' <=> Waiting(d, r) /\ d # c
  <2>1. pc'[c] = step
    BY <1>1 DEF Goto, ControlTyped
  <2>2. \A d \in Copies : d # c =>
          /\ \A i \in Slots, r \in Sems : Own(d, i, r)' <=> Own(d, i, r)
          /\ \A r \in Sems : Waiting(d, r)' <=> Waiting(d, r)
    BY <1>1, Others
  <2> QED
    BY <2>1, <2>2
<1>2. CASE /\ c \in ready[s]
           /\ ready' = [ready EXCEPT ![s] = @ \ {c}]
           /\ Goto(c, granted)
           /\ UNCHANGED <<cur, waiters>>
  <2>1. OwnGains(c, i0, s)
    BY <1>1, <1>2 DEF OwnGains
  <2>2. \A d \in Copies, r \in Sems : Waiting(d, r)' <=> Waiting(d, r) /\ d # c
    BY <1>1, <1>2
  <2>3. /\ ready' = [ready EXCEPT ![s] = @ \ {c}] /\ c \in ready[s]
        /\ UNCHANGED <<cur, waiters>> /\ SemsTyped
    BY <1>2
  <2> HIDE DEF ControlInv
  <2> QED
    BY <2>1, <2>2, <2>3, Granted
<1>3. CASE c \in ready[s] /\ GiveBack(s, ready[s] \ {c}) /\ Goto(c, failed)
  <2>1. Holds(c, 0, s) /\ 0 \in Slots
    BY <1>3, HoldsIffOwn, SlotsTyped
  <2>2. OwnSame
    BY <1>1, <1>3 DEF OwnSame
  <2>3. \A d \in Copies, i \in Slots :
          Own(d, i, s)' \/ (i = 0 /\ d \in ready[s] \ {c})
            <=> Holds(d, i, s) /\ ~(d = c /\ i = 0)
    BY <2>2, HoldsIffOwn DEF OwnSame
  <2>4. \A r \in Sems : r # s => \A d \in Copies : Waiting(d, r) => Waiting(d, r)'
    BY <1>1, <1>3
  <2>5. \A d \in Copies : Waiting(d, s) /\ (d \in ready[s] \ {c} \/ d \notin ready[s])
          => Waiting(d, s)'
    BY <1>1, <1>3
  <2>6. \A r \in Sems : r # s =>
          \A d \in Copies, i \in Slots : Own(d, i, r)' <=> Own(d, i, r)
    BY <2>2 DEF OwnSame
  <2> DEFINE rdy == ready[s] \ {c}
  <2>7. rdy \in SUBSET ready[s]
    OBVIOUS
  <2>8. GiveBack(s, rdy)
    BY <1>3
  <2> HIDE DEF rdy
  <2> QED
    BY <2>1, <2>3, <2>4, <2>5, <2>6, <2>7, <2>8, GivenBack DEF rdy
<1>4. CASE /\ c \notin ready[s]
           /\ \E n \in 1..Len(waiters[s]) :
                /\ waiters[s][n] = c
                /\ waiters' = [waiters EXCEPT ![s] = Without(@, n)]
           /\ Goto(c, failed)
           /\ UNCHANGED <<cur, ready>>
  <2>1. OwnSame
    BY <1>1, <1>4 DEF OwnSame
  <2> QED
    BY <1>1, <1>4, <2>1, Withdrawn
<1> QED
  BY <1>2, <1>3, <1>4 DEF Resume

(* A call, or one of its goroutines, releases a unit it knows of.          *)
LEMMA ReleaseSems ==
  ASSUME ControlInv, SemInv, NEW c \in Copies, NEW s \in Sems, NEW i0 \in Slots,
         Release(s), Own(c, i0, s), i0 = 0 => \A r \in Sems : ~Waiting(c, r),
         WaitingSame,
         \A d \in Copies, i \in Slots, r \in Sems :
           Own(d, i, r)' <=> Own(d, i, r) /\ ~(d = c /\ i = i0 /\ r = s)
  PROVE  SemInv'
<1>1. Holds(c, i0, s)
  BY HoldsIffOwn
<1>2. i0 = 0 => c \notin ready[s]
  BY DEF SemInv, QueueInv
<1>3. \A d \in Copies, i \in Slots :
        Own(d, i, s)' \/ (i = 0 /\ d \in ready[s]) <=> Holds(d, i, s) /\ ~(d = c /\ i = i0)
  BY <1>2, HoldsIffOwn
<1> QED
  BY <1>1, <1>3, GivenBack DEF Release, ControlInv, WaitingSame

(* Steps at which a call waits for a unit or holds one it acquired itself. *)
Busy == {"imageWait", "layerWait", "configWait", "spawn", "configCopy"}

(* A step at which the call neither waits for a unit nor holds one of its  *)
(* own, before and after.                                                  *)
LEMMA QuietMove ==
  ASSUME ControlInv, SemInv, NEW c \in Copies, NEW step, Goto(c, step), UNCHANGED sems,
         helper' = helper, outer' = outer, pc[c] \notin Busy, step \notin Busy
  PROVE  SemInv'
<1>1. pc'[c] = step
  BY DEF Goto, ControlInv, ControlTyped
<1>2. ASSUME NEW d \in Copies
      PROVE  /\ \A i \in Slots, r \in Sems : Own(d, i, r)' <=> Own(d, i, r)
             /\ \A r \in Sems : Waiting(d, r)' <=> Waiting(d, r)
  <2>1. CASE d = c
    BY <1>1, <2>1 DEF Own, Waiting, Busy
  <2>2. CASE d # c
    BY <2>2, Others DEF ControlInv
  <2> QED
    BY <2>1, <2>2
<1>3. OwnSame /\ WaitingSame
  BY <1>2 DEF OwnSame, WaitingSame
<1> QED
  BY <1>3, SemsUntouched DEF ControlInv

(* Starting a goroutine hands the unit over to it.                         *)
LEMMA SemsSpawn ==
  ASSUME ControlInv, SemInv, NEW c \in Copies, Spawn(c)
  PROVE  SemInv'
<1> DEFINE s == SemOf(c)
           n == next[c]
<1>1. LocalInv(c) /\ s \in Sems
  BY SemOfIsSem DEF ControlInv
<1>2. n \in Layers /\ helper[c][n] = "idle" /\ n \in Slots /\ n # 0 /\ 0 \in Slots /\ n # -1
  <2>1. n \in Layers
    BY <1>1, LastLayerTyped, NIsNat
       DEF ControlInv, ControlTyped, LocalInv, ProgressInv, Spawn, Layers, N
  <2>2. n >= n
    BY DEF ControlInv, ControlTyped
  <2> QED
    BY <1>1, <2>1, <2>2, SlotsTyped DEF LocalInv, LayersInv
<1>3. pc[c] = "spawn" /\ pc'[c] = "layers" /\ outer' = outer /\ UNCHANGED sems
      /\ \A i \in Layers : helper'[c][i] = IF i = n THEN "copying" ELSE helper[c][i]
  BY <1>2 DEF Spawn, Goto, ControlInv, ControlTyped
<1>4. \A r \in Sems : ~Waiting(c, r) /\ ~Waiting(c, r)'
  BY <1>3 DEF Waiting
<1>5. c \notin ready[s]
  BY <1>1, <1>4 DEF SemInv, QueueInv
<1>6. Own(c, 0, s) /\ ~Holds(c, n, s)
  BY <1>2, <1>3 DEF Own, Holds
<1>7. \A i \in Slots, r \in Sems :
        Own(c, i, r)' <=> (Own(c, i, r) /\ ~(i = 0 /\ r = s)) \/ (i = n /\ r = s)
  <2> SUFFICES ASSUME NEW i \in Slots, NEW r \in Sems
               PROVE  Own(c, i, r)' <=>
                        (Own(c, i, r) /\ ~(i = 0 /\ r = s)) \/ (i = n /\ r = s)
    OBVIOUS
  <2>1. CASE i \in Layers
    BY <1>2, <1>3, <2>1, SlotsTyped DEF Own
  <2>2. CASE i \notin Layers
    BY <1>2, <1>3, <2>2 DEF Own
  <2> QED
    BY <2>1, <2>2
<1>8. \A d \in Copies : d # c =>
        /\ \A i \in Slots, r \in Sems : Own(d, i, r)' <=> Own(d, i, r)
        /\ \A r \in Sems : Waiting(d, r)' <=> Waiting(d, r)
  <2>1. \A d \in Copies : d # c => helper'[d] = helper[d]
    BY DEF Spawn, ControlInv, ControlTyped
  <2> QED
    BY <1>3, <2>1, Others DEF Spawn, ControlInv
<1>9. WaitingSame
  BY <1>4, <1>8 DEF WaitingSame
<1>10. \A d \in Copies, i \in Slots, r \in Sems :
         Own(d, i, r)' <=> (Own(d, i, r) /\ ~(d = c /\ i = 0 /\ r = s))
                           \/ (d = c /\ i = n /\ r = s)
  BY <1>7, <1>8
<1>11. SemsTyped
  BY DEF ControlInv
<1> HIDE DEF s, n
<1> QED
  BY <1>1, <1>2, <1>3, <1>5, <1>6, <1>9, <1>10, <1>11, HandedOver

(* A goroutine that reports keeps its unit.                                *)
LEMMA SemsHelper ==
  ASSUME ControlInv, SemInv, NEW c \in Copies, NEW i \in Layers, CopyLayerHelper(c, i)
  PROVE  SemInv'
<1>1. \A d \in Copies, j \in Layers :
        helper'[d][j] = IF d = c /\ j = i THEN "copied" ELSE helper[d][j]
  BY DEF CopyLayerHelper, ControlInv, ControlTyped
<1>2. OwnSame /\ WaitingSame
  BY <1>1 DEF OwnSame, WaitingSame, Own, Waiting, CopyLayerHelper
<1> QED
  BY <1>2, SemsUntouched DEF ControlInv, CopyLayerHelper

(* Skipping an image moves no unit: its layers had no goroutine.           *)
LEMMA SemsSkip ==
  ASSUME ControlInv, SemInv, NEW c \in Copies, SkipImage(c)
  PROVE  SemInv'
<1> DEFINE Skipped == next[c]..LastLayer(c)
<1>1. LocalInv(c) /\ pc[c] = "prepare" /\ pc' = [pc EXCEPT ![c] = "next"]
      /\ outer' = outer /\ UNCHANGED sems
  BY DEF ControlInv, SkipImage, Goto
<1>2. \A d \in Copies, j \in Layers :
        helper'[d][j] = IF d = c /\ j \in Skipped THEN "finished" ELSE helper[d][j]
  BY DEF SkipImage, ControlInv, ControlTyped
<1>3. \A j \in Layers : j \in Skipped => helper[c][j] = "idle"
  <2>1. next[c] \in Int /\ LastLayer(c) \in Int
    BY LastLayerTyped, NIsNat DEF ControlInv, ControlTyped
  <2> QED
    BY <1>1, <2>1 DEF LocalInv, LayersInv
<1> HIDE DEF Skipped
<1>4. \A d \in Copies : pc'[d] = IF d = c THEN "next" ELSE pc[d]
  BY <1>1 DEF ControlInv, ControlTyped
<1>5. OwnSame
  BY <1>1, <1>2, <1>3, <1>4 DEF OwnSame, Own
<1>6. WaitingSame
  BY <1>1, <1>4 DEF WaitingSame, Waiting
<1> QED
  BY <1>1, <1>5, <1>6, SemsUntouched DEF ControlInv

(* A goroutine's unit is given back when it ends.                          *)
LEMMA SemsRelease ==
  ASSUME ControlInv, SemInv, NEW c \in Copies, NEW i \in Layers, ReleaseLayer(c, i)
  PROVE  SemInv'
<1> DEFINE s == SemOf(c)
<1>1. s \in Sems /\ i \in Slots /\ i # 0 /\ i # -1
  BY SemOfIsSem, SlotsTyped
<1>2. \A d \in Copies, j \in Layers :
        helper'[d][j] = IF d = c /\ j = i THEN "finished" ELSE helper[d][j]
  BY DEF ReleaseLayer, ControlInv, ControlTyped
<1>3. Own(c, i, s)
  BY DEF Own, ReleaseLayer
<1>4. \A d \in Copies, j \in Slots, r \in Sems :
        Own(d, j, r)' <=> Own(d, j, r) /\ ~(d = c /\ j = i /\ r = s)
  <2> SUFFICES ASSUME NEW d \in Copies, NEW j \in Slots, NEW r \in Sems
               PROVE  Own(d, j, r)' <=> Own(d, j, r) /\ ~(d = c /\ j = i /\ r = s)
    OBVIOUS
  <2>1. CASE j \in Layers
    BY <1>1, <1>2, <2>1, SlotsTyped DEF Own, ReleaseLayer
  <2>2. CASE j \notin Layers
    BY <2>2 DEF Own, ReleaseLayer
  <2> QED
    BY <2>1, <2>2
<1>5. WaitingSame
  BY DEF WaitingSame, Waiting, ReleaseLayer
<1>6. Release(s)
  BY DEF ReleaseLayer
<1> HIDE DEF s
<1> QED
  BY <1>1, <1>3, <1>4, <1>5, <1>6, ReleaseSems

(* The config's unit is given back, whether its copy failed or not.        *)
LEMMA SemsCopyConfig ==
  ASSUME ControlInv, SemInv, NEW c \in Copies, CopyConfig(c)
  PROVE  SemInv'
<1> DEFINE s == SemOf(c)
<1>1. s \in Sems /\ 0 \in Slots /\ 0 \notin Layers
  BY SemOfIsSem, SlotsTyped
<1>2. PICK step \in {"manifest", "retry", "unwind"} : Goto(c, step)
  BY DEF CopyConfig, AfterFailure
<1>3. pc[c] = "configCopy" /\ pc'[c] = step /\ helper' = helper /\ outer' = outer
  BY <1>2 DEF CopyConfig, Goto, ControlInv, ControlTyped, helpers
<1>4. Own(c, 0, s) /\ \A r \in Sems : ~Waiting(c, r) /\ ~Waiting(c, r)'
  BY <1>3 DEF Own, Waiting
<1>5. \A j \in Slots, r \in Sems : Own(c, j, r)' <=> Own(c, j, r) /\ ~(j = 0 /\ r = s)
  BY <1>1, <1>3 DEF Own
<1>6. \A d \in Copies : d # c =>
        /\ \A i \in Slots, r \in Sems : Own(d, i, r)' <=> Own(d, i, r)
        /\ \A r \in Sems : Waiting(d, r)' <=> Waiting(d, r)
  BY <1>2, <1>3, Others DEF ControlInv
<1>7. WaitingSame
  BY <1>4, <1>6 DEF WaitingSame
<1>8. \A d \in Copies, j \in Slots, r \in Sems :
        Own(d, j, r)' <=> Own(d, j, r) /\ ~(d = c /\ j = 0 /\ r = s)
  BY <1>5, <1>6
<1>9. Release(s)
  BY DEF CopyConfig
<1> HIDE DEF s
<1> QED
  BY <1>1, <1>4, <1>7, <1>8, <1>9, ReleaseSems

(* The unit a call holds as a whole is given back when it returns.         *)
LEMMA SemsUnwind ==
  ASSUME ControlInv, SemInv, NEW c \in Copies, Unwind(c)
  PROVE  SemInv'
<1>1. pc[c] = "unwind" /\ pc'[c] = "done" /\ helper' = helper /\ ~outer'[c]
      /\ Goto(c, "done") /\ \A d \in Copies : d # c => outer'[d] = outer[d]
  BY DEF Unwind, Goto, ControlInv, ControlTyped, helpers
<1>2. CASE ~outer[c]
  <2>1. outer' = outer /\ UNCHANGED sems
    BY <1>2 DEF Unwind, ControlInv, ControlTyped
  <2> QED
    BY <1>1, <2>1, QuietMove DEF Busy
<1>3. CASE outer[c]
  <2>1. Shared \in Sems /\ -1 \in Slots /\ -1 \notin Layers
    BY SlotsTyped DEF Sems
  <2>2. Own(c, -1, Shared) /\ \A r \in Sems : ~Waiting(c, r) /\ ~Waiting(c, r)'
    BY <1>1, <1>3 DEF Own, Waiting
  <2>3. \A j \in Slots, r \in Sems :
          Own(c, j, r)' <=> Own(c, j, r) /\ ~(j = -1 /\ r = Shared)
    BY <1>1, <2>1 DEF Own
  <2>4. \A d \in Copies : d # c =>
          /\ \A i \in Slots, r \in Sems : Own(d, i, r)' <=> Own(d, i, r)
          /\ \A r \in Sems : Waiting(d, r)' <=> Waiting(d, r)
    BY <1>1, Others DEF ControlInv
  <2>5. WaitingSame
    BY <2>2, <2>4 DEF WaitingSame
  <2>6. \A d \in Copies, j \in Slots, r \in Sems :
          Own(d, j, r)' <=> Own(d, j, r) /\ ~(d = c /\ j = -1 /\ r = Shared)
    BY <2>3, <2>4
  <2>7. Release(Shared)
    BY <1>3 DEF Unwind
  <2> QED
    BY <2>1, <2>2, <2>5, <2>6, <2>7, ReleaseSems
<1> QED
  BY <1>2, <1>3 DEF ControlInv, ControlTyped

(* copy.Image acquires a unit for the whole call, if it has to.            *)
LEMMA SemsImage ==
  ASSUME ControlInv, SemInv, NEW c \in Copies, Image(c)
  PROVE  SemInv'
<1>1. LocalInv(c) /\ pc[c] = "image" /\ ~outer[c] /\ helper' = helper
      /\ \A d \in Copies : d # c => outer'[d] = outer[d]
  BY DEF ControlInv, ControlTyped, LocalInv, OuterInv, Image, helpers
<1>2. outer'[c] = (~ThreadSafe[c] /\ pc'[c] = "prepare")
  BY DEF Image, ControlInv, ControlTyped
<1>3. CASE ThreadSafe[c]
  <2>1. outer' = outer
    BY <1>1, <1>3 DEF Image, ControlInv, ControlTyped
  <2> QED
    BY <1>1, <1>3, <2>1, QuietMove DEF Image, Busy
<1>4. CASE ~ThreadSafe[c]
  <2>1. Acquire(c, Shared, "prepare", "imageWait", "unwind")
    BY <1>4 DEF Image
  <2>2. Shared \in Sems /\ -1 \in Slots /\ -1 \notin Layers
    BY SlotsTyped DEF Sems
  <2>3. ~Own(c, -1, Shared) /\ \A r \in Sems : ~Waiting(c, r)
    BY <1>1, <2>2 DEF Own, Waiting
  <2>4. pc'[c] = "prepare" =>
          /\ \A r \in Sems : ~Waiting(c, r)'
          /\ \A i \in Slots, r \in Sems :
               Own(c, i, r)' <=> Own(c, i, r) \/ (i = -1 /\ r = Shared)
    BY <1>1, <1>2, <1>4, <2>2 DEF Own, Waiting
  <2>5. pc'[c] = "imageWait" =>
          /\ \A r \in Sems : Waiting(c, r)' <=> r = Shared
          /\ \A i \in Slots, r \in Sems : Own(c, i, r)' <=> Own(c, i, r)
    BY <1>1, <1>2, <1>4, <2>2 DEF Own, Waiting
  <2>6. pc'[c] = "unwind" =>
          /\ \A r \in Sems : ~Waiting(c, r)'
          /\ \A i \in Slots, r \in Sems : Own(c, i, r)' <=> Own(c, i, r)
    BY <1>1, <1>2, <1>4, <2>2 DEF Own, Waiting
  <2> QED
    BY <1>1, <2>1, <2>2, <2>3, <2>4, <2>5, <2>6, AcquireSems
<1> QED
  BY <1>3, <1>4

(* A blocked copy.Image resumes.                                           *)
LEMMA SemsImageResumes ==
  ASSUME ControlInv, SemInv, NEW c \in Copies, ImageResumes(c)
  PROVE  SemInv'
<1>1. LocalInv(c) /\ pc[c] = "imageWait" /\ ~outer[c] /\ helper' = helper
      /\ \A d \in Copies : d # c => outer'[d] = outer[d]
  BY DEF ControlInv, ControlTyped, LocalInv, OuterInv, ImageResumes, helpers
<1>2. outer'[c] = (pc'[c] = "prepare")
  BY DEF ImageResumes, ControlInv, ControlTyped
<1>3. Shared \in Sems /\ -1 \in Slots /\ -1 \notin Layers /\ 0 \notin Layers
  BY SlotsTyped DEF Sems
<1>4. Resume(c, Shared, "prepare", "unwind")
  BY DEF ImageResumes
<1>5. pc'[c] \in {"prepare", "unwind"}
  BY <1>3, <1>4, ResumeTyped DEF Goto, ControlInv, ControlTyped
<1>6. ~Own(c, -1, Shared) /\ ~Own(c, 0, Shared)
      /\ \A r \in Sems : r # Shared => ~Waiting(c, r)
  BY <1>1, <1>3 DEF Own, Waiting
<1>7. \A r \in Sems : ~Waiting(c, r)'
  BY <1>5 DEF Waiting
<1>8. pc'[c] = "prepare" => \A i \in Slots, r \in Sems :
        Own(c, i, r)' <=> Own(c, i, r) \/ (i = -1 /\ r = Shared)
  BY <1>1, <1>2, <1>3 DEF Own
<1>9. pc'[c] = "unwind" => \A i \in Slots, r \in Sems : Own(c, i, r)' <=> Own(c, i, r)
  BY <1>1, <1>2, <1>3 DEF Own
<1> QED
  BY <1>1, <1>3, <1>4, <1>6, <1>7, <1>8, <1>9, ResumeSems

(* Acquiring a unit for a blob, which copyLayers and copyConfig do alike.  *)
LEMMA SemsBlob ==
  ASSUME ControlInv, SemInv, NEW c \in Copies, helper' = helper, outer' = outer,
         NEW granted \in {"spawn", "configCopy"}, NEW blocked \in {"layerWait", "configWait"},
         NEW failed, failed \notin Busy, pc[c] \notin Busy,
         Acquire(c, SemOf(c), granted, blocked, failed)
  PROVE  SemInv'
<1> DEFINE s == SemOf(c)
<1>1. s \in Sems /\ 0 \in Slots /\ 0 \notin Layers
  BY SemOfIsSem, SlotsTyped
<1>2. ~Own(c, 0, s) /\ \A r \in Sems : ~Waiting(c, r)
  BY <1>1 DEF Own, Waiting, Busy
<1>3. pc'[c] = granted =>
        /\ \A r \in Sems : ~Waiting(c, r)'
        /\ \A i \in Slots, r \in Sems :
             Own(c, i, r)' <=> Own(c, i, r) \/ (i = 0 /\ r = s)
  BY <1>1 DEF Own, Waiting, Busy
<1>4. pc'[c] = blocked =>
        /\ \A r \in Sems : Waiting(c, r)' <=> r = s
        /\ \A i \in Slots, r \in Sems : Own(c, i, r)' <=> Own(c, i, r)
  BY <1>1 DEF Own, Waiting, Busy
<1>5. pc'[c] = failed =>
        /\ \A r \in Sems : ~Waiting(c, r)'
        /\ \A i \in Slots, r \in Sems : Own(c, i, r)' <=> Own(c, i, r)
  BY <1>1 DEF Own, Waiting, Busy
<1>6. Acquire(c, s, granted, blocked, failed)
  OBVIOUS
<1> HIDE DEF s
<1> QED
  BY <1>1, <1>2, <1>3, <1>4, <1>5, <1>6, AcquireSems

(* A blocked copyLayers or copyConfig resumes.                             *)
LEMMA SemsBlobResumes ==
  ASSUME ControlInv, SemInv, NEW c \in Copies, helper' = helper, outer' = outer,
         NEW granted \in {"spawn", "configCopy"}, NEW failed, failed \notin Busy,
         pc[c] \in {"layerWait", "configWait"}, Resume(c, SemOf(c), granted, failed)
  PROVE  SemInv'
<1> DEFINE s == SemOf(c)
<1>1. s \in Sems /\ 0 \in Slots /\ 0 \notin Layers
  BY SemOfIsSem, SlotsTyped
<1>2. pc'[c] \in {granted, failed}
  BY <1>1, ResumeTyped DEF Goto, ControlInv, ControlTyped
<1>3. ~Own(c, 0, s) /\ \A r \in Sems : r # s => ~Waiting(c, r)
  BY <1>1 DEF Own, Waiting
<1>4. \A r \in Sems : ~Waiting(c, r)'
  BY <1>2 DEF Waiting, Busy
<1>5. pc'[c] = granted => \A i \in Slots, r \in Sems :
        Own(c, i, r)' <=> Own(c, i, r) \/ (i = 0 /\ r = s)
  BY <1>1 DEF Own
<1>6. pc'[c] = failed => \A i \in Slots, r \in Sems : Own(c, i, r)' <=> Own(c, i, r)
  BY <1>1 DEF Own, Busy
<1>7. Resume(c, s, granted, failed)
  OBVIOUS
<1> HIDE DEF s
<1> QED
  BY <1>1, <1>3, <1>4, <1>5, <1>6, <1>7, ResumeSems

(* Everything a call does itself keeps the semaphore invariant.            *)
LEMMA SemsMain ==
  ASSUME ControlInv, SemInv, NEW c \in Copies, Main(c)
  PROVE  SemInv'
<1>1. \A b \in BOOLEAN : AfterFailure(c, b) \in {"retry", "unwind"}
  BY DEF AfterFailure
<1>2. \A b \in BOOLEAN : AfterFailure(c, b) \notin Busy
  BY <1>1 DEF Busy
<1>3. CASE ImageFails(c)
  BY <1>3, QuietMove DEF ImageFails, Busy, helpers
<1>4. CASE Prepare(c)
  BY <1>4, QuietMove DEF Prepare, Busy, helpers
<1>5. CASE LayerLoop(c)
  <2>1. CASE next[c] <= LastLayer(c)
    BY <1>5, <2>1, SemsBlob DEF LayerLoop, Busy, helpers
  <2>2. CASE ~(next[c] <= LastLayer(c))
    BY <1>5, <2>2, QuietMove DEF LayerLoop, Busy, helpers
  <2> QED
    BY <2>1, <2>2
<1>6. CASE LayerResumes(c)
  BY <1>6, SemsBlobResumes DEF LayerResumes, Busy, helpers
<1>7. CASE Join(c)
  BY <1>7, QuietMove DEF Join, Busy, helpers
<1>8. CASE UpdateImage(c)
  <2>1. pc[c] = "config" /\ helper' = helper /\ outer' = outer /\ pc[c] \notin Busy
    BY <1>8 DEF UpdateImage, helpers, Busy
  <2>2. CASE \E rejected \in BOOLEAN : Goto(c, AfterFailure(c, rejected)) /\ UNCHANGED sems
    BY <1>2, <2>1, <2>2, QuietMove
  <2>3. CASE Goto(c, "manifest") /\ UNCHANGED sems
    BY <2>1, <2>3, QuietMove DEF Busy
  <2>4. CASE Acquire(c, SemOf(c), "configCopy", "configWait", AfterFailure(c, FALSE))
    <3>1. AfterFailure(c, FALSE) \notin Busy
      BY <1>2
    <3> QED
      BY <2>1, <2>4, <3>1, SemsBlob
  <2> QED
    BY <1>8, <2>2, <2>3, <2>4 DEF UpdateImage
<1>9. CASE ConfigResumes(c)
  <2>1. AfterFailure(c, FALSE) \notin Busy
    BY <1>2
  <2> QED
    BY <1>9, <2>1, SemsBlobResumes DEF ConfigResumes, helpers
<1>10. CASE PutManifest(c)
  <2>1. \E step : step \notin Busy /\ Goto(c, step)
    BY <1>2, <1>10 DEF PutManifest, Busy
  <2> QED
    BY <1>10, <2>1, QuietMove DEF PutManifest, Busy, helpers
<1>11. CASE RetryFormat(c)
  BY <1>11, QuietMove DEF RetryFormat, Busy, helpers
<1>12. CASE PutSignatures(c)
  BY <1>12, QuietMove DEF PutSignatures, Busy, helpers
<1>13. CASE Commit(c)
  BY <1>13, QuietMove DEF Commit, Busy, helpers
<1>14. CASE NextImage(c)
  BY <1>14, QuietMove DEF NextImage, Busy, helpers
<1> QED
  BY <1>3, <1>4, <1>5, <1>6, <1>7, <1>8, <1>9, <1>10, <1>11, <1>12, <1>13,
     <1>14, SemsSkip, SemsImage, SemsImageResumes, SemsSpawn, SemsCopyConfig, SemsUnwind DEF Main

(* The semaphore invariant holds in every reachable state.                 *)
LEMMA SemInvHolds == Spec => []SemInv
<1>1. Init => SemInv
  <2> SUFFICES ASSUME Init, NEW s \in Sems PROVE QueueInv(s) /\ CountInv(s)
    BY DEF SemInv
  <2>1. QueueInv(s)
    BY DEF Init, QueueInv
  <2>2. Holders(s) = {}
    <3>1. \A t \in Copies \X Slots : t[1] \in Copies /\ t[2] \in Slots
      OBVIOUS
    <3>2. \A c \in Copies, i \in Slots : ~Holds(c, i, s)
      BY DEF Init, Holds
    <3> QED
      BY <3>1, <3>2 DEF Holders
  <2>3. CountInv(s)
    BY <2>2, FS_EmptySet, SizeTyped DEF Init, CountInv
  <2> QED
    BY <2>1, <2>3
<1>2. ControlInv /\ SemInv /\ [Next]_vars => SemInv'
  <2> SUFFICES ASSUME ControlInv, SemInv, [Next]_vars PROVE SemInv'
    OBVIOUS
  <2>1. ASSUME NEW c \in Copies, Cancel(c) PROVE SemInv'
    <3>1. OwnSame /\ WaitingSame
      BY <2>1 DEF OwnSame, WaitingSame, Own, Waiting, Cancel, helpers
    <3> QED
      BY <2>1, <3>1, SemsUntouched DEF ControlInv, Cancel
  <2>2. CASE UNCHANGED vars
    <3>1. OwnSame /\ WaitingSame
      BY <2>2 DEF OwnSame, WaitingSame, Own, Waiting, vars, helpers
    <3> QED
      BY <2>2, <3>1, SemsUntouched DEF ControlInv, vars
  <2> QED
    BY <2>1, <2>2, SemsMain, SemsHelper, SemsRelease DEF Next, Helper, Terminated
<1> QED
  BY <1>1, <1>2, ControlInvHolds, PTL DEF Spec

-----------------------------------------------------------------------------
(* The units of every semaphore are exactly those somebody holds, they are *)
(* never more than its size, and nobody waits while one is free: Acquire,  *)
(* cancelled Acquire and Release balance on every path.                    *)
THEOREM UnitsBalance == Spec => []TokensAccounted
<1>1. SemInv => TokensAccounted
  BY DEF SemInv, CountInv, TokensAccounted
<1> QED
  BY <1>1, SemInvHolds, PTL

(* The variables have their types; in particular no semaphore is ever      *)
(* released more often than it was acquired, which would panic.            *)
THEOREM TypeCorrect == Spec => []TypeOK
<1>1. ControlInv /\ SemInv => TypeOK
  <2> SUFFICES ASSUME ControlInv, SemInv PROVE TypeOK
    OBVIOUS
  <2>1. cur \in [Sems -> Nat]
    <3>1. \A s \in Sems : cur[s] \in Nat
      BY HoldersFinite DEF SemInv, CountInv
    <3> QED
      BY <3>1 DEF ControlInv, SemsTyped
  <2> QED
    BY <2>1 DEF ControlInv, ControlTyped, SemsTyped, TypeOK, N, DataStates
<1> QED
  BY <1>1, ControlInvHolds, SemInvHolds, PTL

(* A call whose transports are not thread-safe copies one blob at a time.  *)
LEMMA SerialFromUnits ==
  ControlInv /\ SemInv => SerialUnlessThreadSafe
<1> SUFFICES ASSUME ControlInv, SemInv, NEW t \in BlobsInFlight, NEW u \in BlobsInFlight,
                    t[1] = u[1], t # u, ~ThreadSafe[t[1]]
             PROVE  FALSE
  BY DEF SerialUnlessThreadSafe
<1> DEFINE c == t[1]
<1>1. t \in Copies \X Slots /\ u \in Copies \X Slots /\ c \in Copies
      /\ InFlight(t[1], t[2]) /\ InFlight(u[1], u[2])
  BY DEF BlobsInFlight
<1>2. SemOf(c) = c /\ c \in Sems /\ c # Shared
  BY <1>1, CopiesAssumption DEF SemOf, Sems
<1>3. t \in Holders(c) /\ u \in Holders(c)
  BY <1>1, <1>2 DEF Holders, Holds, InFlight
<1>4. Cardinality(Holders(c)) <= 1
  BY <1>2 DEF SemInv, CountInv, Size
<1>5. IsFiniteSet({t, u}) /\ Cardinality({t, u}) = 2
  <2>1. IsFiniteSet({t}) /\ Cardinality({t}) = 1
    BY FS_Singleton
  <2>2. Cardinality({t} \cup {u}) = Cardinality({t}) + 1 /\ IsFiniteSet({t} \cup {u})
    BY <2>1, FS_AddElement
  <2>3. {t} \cup {u} = {t, u}
    OBVIOUS
  <2> QED
    BY <2>1, <2>2, <2>3
<1>6. Cardinality({t, u}) <= Cardinality(Holders(c))
  <2>1. {t, u} \subseteq Holders(c)
    BY <1>3
  <2> QED
    BY <2>1, HoldersFinite, FS_Subset
<1>7. Cardinality(Holders(c)) \in Nat
  BY HoldersFinite
<1> QED
  BY <1>4, <1>5, <1>6, <1>7

(* A call whose transports are not thread-safe never copies two blobs at a *)
(* time, however many goroutines it has.                                   *)
THEOREM SerialCalls == Spec => []SerialUnlessThreadSafe
BY SerialFromUnits, ControlInvHolds, SemInvHolds, PTL

(* Every blob that is being copied is paid for by a unit of the shared     *)
(* semaphore of its own: the blob's unit if the call is thread-safe, the   *)
(* call's if it is not, and then the blob is the only one of the call.     *)
LEMMA InFlightFromUnits ==
  ControlInv /\ SemInv => InFlightBounded
<1> SUFFICES ASSUME ControlInv, SemInv PROVE InFlightBounded
  OBVIOUS
<1> DEFINE Payer(t) == IF ThreadSafe[t[1]] THEN t ELSE <<t[1], -1>>
           f == [t \in BlobsInFlight |-> Payer(t)]
<1>1. SerialUnlessThreadSafe
  BY SerialFromUnits
<1>2. \A t \in BlobsInFlight :
        t \in Copies \X Slots /\ t[1] \in Copies /\ t[2] \in Slots /\ InFlight(t[1], t[2])
  BY DEF BlobsInFlight
<1>3. -1 \in Slots /\ -1 \notin Layers /\ 0 \notin Layers
  BY SlotsTyped
<1>4. ASSUME NEW t \in BlobsInFlight PROVE Payer(t) \in Holders(Shared)
  <2>1. CASE ThreadSafe[t[1]]
    <3>1. Holds(t[1], t[2], Shared)
      BY <1>2, <2>1 DEF Holds, InFlight, SemOf
    <3> QED
      BY <1>2, <2>1, <3>1 DEF Holders
  <2>2. CASE ~ThreadSafe[t[1]]
    <3>1. LocalInv(t[1])
      BY <1>2 DEF ControlInv
    <3>2. pc[t[1]] \in CopyingLayers \cup {"configCopy"}
      BY <1>2, <3>1 DEF InFlight, LocalInv, LayersInv
    <3>3. outer[t[1]]
      BY <2>2, <3>1, <3>2 DEF LocalInv, OuterInv, CopyingLayers
    <3>4. <<t[1], -1>> \in Copies \X Slots /\ Holds(t[1], -1, Shared)
      BY <1>2, <1>3, <3>3 DEF Holds
    <3> QED
      BY <2>2, <3>4 DEF Holders
  <2> QED
    BY <2>1, <2>2
<1>5. ASSUME NEW t \in BlobsInFlight, NEW u \in BlobsInFlight, Payer(t) = Payer(u)
      PROVE  t = u
  <2>1. t[2] # -1 /\ u[2] # -1
    BY <1>2, <1>3 DEF InFlight
  <2>2. t[1] = u[1]
    BY <1>2, <1>5
  <2>3. CASE ThreadSafe[t[1]]
    BY <1>5, <2>2, <2>3
  <2>4. CASE ~ThreadSafe[t[1]]
    BY <1>1, <2>2, <2>4 DEF SerialUnlessThreadSafe
  <2> QED
    BY <2>3, <2>4
<1>6. f \in Injection(BlobsInFlight, Holders(Shared))
  <2> HIDE DEF Payer
  <2> QED
    BY <1>4, <1>5 DEF Injection, IsInjective
<1>7. Shared \in Sems /\ Size(Shared) = Capacity
  BY DEF Sems, Size
<1>8. IsFiniteSet(BlobsInFlight) /\ Cardinality(BlobsInFlight) <= Cardinality(Holders(Shared))
  <2> HIDE DEF f
  <2> QED
    BY <1>6, HoldersFinite, FS_Injection
<1>9. Cardinality(BlobsInFlight) \in Nat /\ Cardinality(Holders(Shared)) \in Nat
  BY <1>8, HoldersFinite, FS_CardinalityType
<1> QED
  BY <1>7, <1>8, <1>9, CapacityAssumption DEF SemInv, CountInv, InFlightBounded

(* All the calls that share a semaphore together copy no more blobs at a   *)
(* time than it has units, whatever the mix of transports.                 *)
THEOREM InFlightLimit == Spec => []InFlightBounded
BY InFlightFromUnits, ControlInvHolds, SemInvHolds, PTL

(* Semaphore units are neither lost nor invented, in any interleaving of   *)
(* copy.Image's callers and layer goroutines.                              *)
THEOREM UnitsAccounted == Spec => []UnitsAreAccounted
BY TypeCorrect, UnitsBalance, PTL DEF UnitsAreAccounted

(* The shared semaphore limits the blobs in flight, and a call whose       *)
(* transports are not thread safe copies one blob at a time.               *)
THEOREM ConcurrencyBounded == Spec => []ConcurrencyIsBounded
BY InFlightLimit, SerialCalls, PTL DEF ConcurrencyIsBounded
=============================================================================
