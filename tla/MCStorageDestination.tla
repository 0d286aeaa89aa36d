------------------------ MODULE MCStorageDestination ------------------------
EXTENDS StorageDestination

MCLayerBlob == [i \in Index |-> IF i = 1 THEN "plain" ELSE "chunked"]
MCBlobDiffID == [b \in Blobs |-> IF b = "chunked" THEN "d1" ELSE "d2"]
MCBlobTOC == [b \in Blobs |-> IF b = "chunked" THEN "t1" ELSE None]

(* The config lists the tar view of the layers, or of all but the last, or *)
(* nothing.  Configs that list the same layers differ in other fields.     *)
Claimed == [k \in 1..N |-> MCBlobDiffID[MCLayerBlob[k - 1]]]
Env(noted, id, empty, als, verify, sizeKnown, view) ==
  [noted |-> noted, configID |-> id,
   config |-> CASE id = "unlisted" -> <<>>
                [] id = "short"    -> SubSeq(Claimed, 1, N - 1)
                [] OTHER           -> Claimed,
   empty |-> empty, als |-> als, verify |-> verify, sizeKnown |-> sizeKnown,
   tocView |-> [t \in TOCs |-> view]]

(* Images copied with their config noted first, those of other callers,    *)
(* and schema1 images.                                                     *)
MCEnvironments ==
  {Env(TRUE, id, {}, als, verify, verify, view) :
     id \in {"c1", "unlisted"}, als \in {{}, TOCs}, verify \in BOOLEAN, view \in DiffIDs}
  \cup {Env(TRUE, "c2", {}, {}, TRUE, FALSE, view) : view \in DiffIDs}
  \cup {Env(FALSE, "c1", {}, {}, TRUE, TRUE, view) : view \in DiffIDs}
  \cup {Env(noted, "short", {}, {}, TRUE, TRUE, "d1") : noted \in BOOLEAN}
  \cup {Env(FALSE, "unlisted", empty, {}, TRUE, TRUE, view) :
     empty \in {{}, {0}}, view \in DiffIDs}

(* Two configs that list the same layers.                                  *)
ConfigEnvironments ==
  {Env(TRUE, id, {}, {}, verify, TRUE, view) :
     id \in {"c1", "c2"}, verify \in BOOLEAN, view \in DiffIDs}
  \cup {Env(FALSE, "c1", {}, {}, TRUE, TRUE, view) : view \in DiffIDs}

(* An empty store, or one where another image left the plain layer, or the *)
(* chunked layer in the view of its TOC.                                   *)
FromFile == [id |-> <<<<"d2", FALSE>>>>, diffID |-> "d2", toc |-> None, blob |-> "plain",
             content |-> "d2"]
FromTOC(e) == [id |-> <<<<"t1", TRUE>>>>, diffID |-> None, toc |-> "t1", blob |-> None,
               content |-> e.tocView["t1"]]
MCInitialStores(e) == {{}, {FromFile}, {FromTOC(e)}}
EmptyStore(e) == {{}}
=============================================================================
