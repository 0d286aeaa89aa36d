---------------------------- MODULE CopyingProofs ----------------------------
(***************************************************************************)
(* Proofs about the parts of MCCopying.  A behaviour is about one part, so *)
(* a part's invariant is an invariant of the whole if the part's Init      *)
(* establishes it and the part's Next preserves it.                        *)
(***************************************************************************)
EXTENDS MCCopying, FiniteSetTheorems, WellFoundedInduction, SequenceTheorems, TLAPS

-----------------------------------------------------------------------------
(* The decision of a policy about an image *)

PossibleLists == SignatureLists \cup {<<>>}
PossibleSignatures == UNION {ToSet(list) : list \in SignatureLists}
PossibleRequirements == Evaluation!RequirementLists \cup {<<>>}
PossibleManifests == Manifests \cup {None}

Calls == [op : Evaluation!Operations \cup {None}, reqs : PossibleRequirements, r : Nat, s : Nat,
          list : PossibleLists, accepted : Seq(PossibleSignatures), one : BOOLEAN]
Results == [op : Evaluation!Operations \cup {None}, allowed : BOOLEAN, reqs : PossibleRequirements,
            sigs : Seq(PossibleSignatures)]

DecisionTypes ==
  /\ policy \in Policies /\ checkedImage \in CheckedImages
  /\ source \in [manifest : Manifests, sigs : SignatureLists]
  /\ now \in Nat
  /\ cachedManifest \in PossibleManifests
  /\ cachedSignatures \in [known : BOOLEAN, list : PossibleLists]
  /\ call \in Calls
  /\ result \in Results
  /\ used \in PossibleManifests
  /\ pcState \in {"Ready", "InUse", "Destroyed"}
  /\ pcState = "InUse" <=> call.op # None

(* The manifest is the one asked for, and whatever signatures are looked   *)
(* at were returned by the source; the caller used the cached manifest.    *)
UnparsedImageIsCached ==
  /\ cachedManifest # None => Evaluation!expectedManifestDigest \in {None, cachedManifest}
  /\ cachedSignatures.known => ToSet(cachedSignatures.list) \subseteq served
  /\ ToSet(call.list) \subseteq served
  /\ used # None => used = cachedManifest

(* The requirement q allows the cached manifest.                           *)
Allows(q) ==
  /\ q.kind \notin {"reject", "signedBaseLayer"}
  /\ q.kind # "insecureAcceptAnything" =>
       cachedManifest # None /\ \E sig \in served : Evaluation!Vouches(q, sig, cachedManifest)

(* IsRunningImageAllowed has passed the first r requirements, and looks at *)
(* signatures only for one that needs them.                                *)
RequirementsAllow ==
  call.op = "IsRunningImageAllowed" =>
    /\ call.r <= Len(call.reqs)
    /\ \A k \in 1..call.r : Allows(call.reqs[k])
    /\ call.s # 0 => /\ call.r < Len(call.reqs)
                     /\ call.reqs[call.r + 1].kind \in {"signedBy", "sigstoreSigned"}

(* The requirement q does not refuse the signature sig.                    *)
Accepts(q, sig) ==
  /\ q.kind \notin {"reject", "sigstoreSigned"}
  /\ q.kind = "signedBy" => cachedManifest # None /\ Evaluation!Vouches(q, sig, cachedManifest)

Accepted(reqs, sig) ==
  /\ \E k \in 1..Len(reqs) : reqs[k].kind = "signedBy"
  /\ \A k \in 1..Len(reqs) : Accepts(reqs[k], sig)

(* GetSignaturesWithAcceptedAuthor has passed the first r requirements for *)
(* the current signature, and keeps the ones all requirements accept.      *)
SignaturesAccepted ==
  call.op = "GetSignaturesWithAcceptedAuthor" =>
    /\ call.r <= Len(call.reqs)
    /\ \A k \in 1..Len(call.accepted) : Accepted(call.reqs, call.accepted[k])
    /\ call.s = 0 => call.r = 0 /\ ~call.one
    /\ call.s \in 1..Len(call.list) => \A k \in 1..call.r : Accepts(call.reqs[k], call.list[call.s])
    /\ call.one => \E k \in 1..call.r : call.reqs[k].kind = "signedBy"

ResultIsDecided ==
  /\ result.allowed => /\ result.reqs # <<>>
                       /\ \A k \in 1..Len(result.reqs) : Allows(result.reqs[k])
  /\ \A k \in 1..Len(result.sigs) : Accepted(result.reqs, result.sigs[k])

DecisionInvariant ==
  /\ DecisionTypes /\ UnparsedImageIsCached
  /\ RequirementsAllow /\ SignaturesAccepted /\ ResultIsDecided

(* What decides about an image never changes its mind: the image stays,    *)
(* the cached manifest stays, signatures are added and time goes on.       *)
Evolves ==
  /\ checkedImage' = checkedImage
  /\ served \subseteq served'
  /\ now \in Nat /\ now' \in Nat /\ now <= now'
  /\ cachedManifest # None => cachedManifest' = cachedManifest

(* So what allows the image or accepts a signature goes on doing so.       *)
LEMMA VerdictsLast ==
  ASSUME Evolves
  PROVE  /\ \A q : Allows(q) => Allows(q)'
         /\ \A q, sig : Accepts(q, sig) => Accepts(q, sig)'
         /\ \A reqs, sig : Accepted(reqs, sig) => Accepted(reqs, sig)'
<1>1. \A q, sig, m : Evaluation!Vouches(q, sig, m) => Evaluation!Vouches(q, sig, m)'
  <2> SUFFICES ASSUME NEW q, NEW sig, NEW m, Evaluation!Vouches(q, sig, m)
               PROVE  Evaluation!Vouches(q, sig, m)'
    OBVIOUS
  <2> 0..now \subseteq 0..now' /\ checkedImage' = checkedImage
    BY DEF Evolves
  <2> QED
    BY DEF Evaluation!Vouches
<1>2. \A q : Allows(q) => Allows(q)'
  BY <1>1 DEF Evolves, Allows
<1>3. \A q, sig : Accepts(q, sig) => Accepts(q, sig)'
  BY <1>1 DEF Evolves, Accepts
<1>4. \A reqs, sig : Accepted(reqs, sig) => Accepted(reqs, sig)'
  BY <1>3 DEF Accepted
<1> QED
  BY <1>2, <1>3, <1>4

(* A set of natural numbers has a least element.                           *)
LEMMA LeastElement ==
  ASSUME NEW T, T \subseteq Nat, T # {}
  PROVE  \E x \in T : \A y \in T : x <= y
<1>1. IsWellFoundedOn(OpToRel(<, Nat), Nat)
  BY NatLessThanWellFounded
<1>2. PICK x \in T : \A y \in T : <<y, x>> \notin OpToRel(<, Nat)
  BY <1>1, WFMin
<1>3. \A y \in T : ~(y < x)
  BY <1>2 DEF OpToRel
<1> QED
  BY <1>3

(* The requirements of an image are those of a scope, or the default.      *)
LEMMA RequirementsAreFound ==
  ASSUME policy \in Policies, checkedImage \in CheckedImages
  PROVE  Evaluation!requirementsForImageRef(checkedImage.ref) \in Evaluation!RequirementLists
<1> DEFINE ref == checkedImage.ref
           name == ref.name
           prefixes == [k \in 1..Len(name) |-> SubSeq(name, 1, Len(name) + 1 - k)]
           named == <<Evaluation!DockerReferenceIdentity(ref)>> \o (prefixes \o Wildcards[name[1]])
           scopes == (IF Evaluation!Named(ref) THEN named ELSE <<>>) \o <<<<>>>>
           found == {k \in DOMAIN scopes : scopes[k] \in DOMAIN policy.scopes}
<1>1. ASSUME Evaluation!Named(ref) PROVE named \in Seq({named[k] : k \in DOMAIN named})
  <2>1. name \in Seq(ToSet(name)) /\ Wildcards[name[1]] \in Seq(ToSet(Wildcards[name[1]]))
    BY <1>1, DecisionAssumption DEF Evaluation!IsSequence, Evaluation!ToSet, ToSet
  <2> DEFINE P == {prefixes[k] : k \in 1..Len(name)}
             W == ToSet(Wildcards[name[1]])
             I == {Evaluation!DockerReferenceIdentity(ref)}
  <2>2. prefixes \in Seq(P)
    <3>1. Len(name) \in Nat
      BY <2>1
    <3> QED
      BY <3>1
  <2>3. prefixes \in Seq(P \cup W) /\ Wildcards[name[1]] \in Seq(P \cup W)
    <3> HIDE DEF prefixes, P, W
    <3> QED
      BY <2>1, <2>2 DEF W
  <2>4. prefixes \o Wildcards[name[1]] \in Seq(P \cup W)
    <3> HIDE DEF prefixes, P, W
    <3> QED
      BY <2>3
  <2>5. named \in Seq(I \cup P \cup W)
    <3> HIDE DEF prefixes, P, W
    <3> QED
      BY <2>4
  <2> QED
    <3> HIDE DEF named, I, P, W
    <3> QED
      BY <2>5
<1>2. DOMAIN scopes \subseteq Nat
  <2>1. CASE Evaluation!Named(ref)
    <3> HIDE DEF named
    <3>1. named \in Seq({named[k] : k \in DOMAIN named} \cup {<<>>})
      BY <1>1, <2>1
    <3> QED
      BY <3>1, <2>1
  <2>2. CASE ~Evaluation!Named(ref)
    <3> HIDE DEF named
    <3> QED
      BY <2>2
  <2> QED
    BY <2>1, <2>2
<1> HIDE DEF scopes
<1>3. Evaluation!requirementsForImageRef(ref)
        = IF found = {} THEN policy.default
          ELSE policy.scopes[scopes[CHOOSE k \in found : \A j \in found : k <= j]]
  BY DEF Evaluation!requirementsForImageRef, Evaluation!DockerReferenceNamespaces, scopes
<1>4. CASE found = {}
  BY <1>3, <1>4 DEF Evaluation!RequirementLists
<1>5. CASE found # {}
  <2>1. \E k \in found : \A j \in found : k <= j
    BY <1>2, <1>5, LeastElement
  <2> DEFINE first == CHOOSE k \in found : \A j \in found : k <= j
  <2>2. first \in found
    BY <2>1
  <2>3. Evaluation!requirementsForImageRef(ref) = policy.scopes[scopes[first]]
    BY <1>3, <1>5
  <2> HIDE DEF first
  <2> QED
    BY <2>2, <2>3 DEF Evaluation!RequirementLists
<1> QED
  BY <1>4, <1>5

(* A signature that passes the checks of a requirement vouches for the     *)
(* manifest it was checked with.                                           *)
LEMMA CheckedSignatureVouches ==
  ASSUME NEW q, NEW sig, NEW m, Evaluation!WellFormed(q), q.kind \in {"signedBy", "sigstoreSigned"},
         Evaluation!Considered(q.kind, sig), Evaluation!signerAccepted(q, sig),
         Evaluation!contentAccepted(q, sig, m), now \in Nat
  PROVE  Evaluation!Vouches(q, sig, m)
<1> now \in 0..now
  OBVIOUS
<1> USE DEF Evaluation!Vouches, Evaluation!Considered, Evaluation!signerAccepted,
        Evaluation!contentAccepted, Evaluation!WellFormed
<1>1. CASE q.kind = "signedBy"
  BY <1>1 DEF Evaluation!verifyAndExtractSignature
<1>2. CASE q.kind = "sigstoreSigned"
  <2>1. q.by \in {"keys", "fulcio", "pki"} /\ sig.key \in Evaluation!publicKeys(q, sig)
    BY <1>2 DEF Evaluation!verifySigstorePayloadBlobSignature
  <2>2. CASE q.by = "keys"
    BY <1>2, <2>1, <2>2 DEF Evaluation!publicKeys, Evaluation!VerifyRekorSET
  <2>3. CASE q.by = "fulcio"
    BY <1>2, <2>1, <2>3 DEF Evaluation!publicKeys, Evaluation!VerifyRekorSET,
       Evaluation!verifyFulcioCertificateAtTime, Evaluation!Verify
  <2>4. CASE q.by = "pki"
    BY <1>2, <2>1, <2>4 DEF Evaluation!publicKeys, Evaluation!verifyPKI, Evaluation!Verify
  <2> QED
    BY <2>1, <2>2, <2>3, <2>4
<1> QED
  BY <1>1, <1>2

(* A new evaluation satisfies the invariant.                               *)
LEMMA DecisionInit == Evaluation!Init => DecisionInvariant
<1> SUFFICES ASSUME Evaluation!Init PROVE DecisionInvariant
  OBVIOUS
<1> USE DEF Evaluation!Init, Evaluation!NoCall, Evaluation!NoResult, Evaluation!None, None
<1>1. DecisionTypes
  BY DEF DecisionTypes, Calls, Results, PossibleLists, PossibleRequirements, PossibleManifests
<1>2. UnparsedImageIsCached
  BY DEF UnparsedImageIsCached, ToSet
<1>3. RequirementsAllow /\ SignaturesAccepted /\ ResultIsDecided
  BY DEF RequirementsAllow, SignaturesAccepted, ResultIsDecided
<1> QED
  BY <1>1, <1>2, <1>3 DEF DecisionInvariant

(* The lists of requirements and of signatures are sequences.              *)
LEMMA ListsAreSequences ==
  /\ \A reqs \in PossibleRequirements :
       /\ Len(reqs) \in Nat /\ DOMAIN reqs = 1..Len(reqs)
       /\ \A k \in 1..Len(reqs) : Evaluation!WellFormed(reqs[k])
       /\ ToSet(reqs) = {reqs[k] : k \in 1..Len(reqs)}
  /\ \A list \in PossibleLists :
       /\ list \in Seq(PossibleSignatures)
       /\ ToSet(list) = {list[k] : k \in 1..Len(list)}
<1>1. \A reqs \in PossibleRequirements :
        /\ Len(reqs) \in Nat /\ DOMAIN reqs = 1..Len(reqs)
        /\ \A k \in 1..Len(reqs) : Evaluation!WellFormed(reqs[k])
  <2> SUFFICES ASSUME NEW reqs \in PossibleRequirements
               PROVE  /\ Len(reqs) \in Nat /\ DOMAIN reqs = 1..Len(reqs)
                      /\ \A k \in 1..Len(reqs) : Evaluation!WellFormed(reqs[k])
    OBVIOUS
  <2>1. CASE reqs = <<>>
    BY <2>1
  <2>2. CASE reqs # <<>>
    <3>1. reqs \in Seq(Evaluation!ToSet(reqs)) /\ \A k \in DOMAIN reqs : Evaluation!WellFormed(reqs[k])
      BY <2>2, DecisionAssumption DEF PossibleRequirements, Evaluation!IsSequence
    <3> QED
      BY <3>1
  <2> QED
    BY <2>1, <2>2
<1>2. \A list \in PossibleLists : list \in Seq(PossibleSignatures)
  <2> SUFFICES ASSUME NEW list \in PossibleLists PROVE list \in Seq(PossibleSignatures)
    OBVIOUS
  <2>1. CASE list = <<>>
    BY <2>1
  <2>2. CASE list # <<>>
    <3>1. list \in SignatureLists /\ list \in Seq(Evaluation!ToSet(list))
      BY <2>2, DecisionAssumption DEF PossibleLists, Evaluation!IsSequence
    <3>2. Evaluation!ToSet(list) = ToSet(list)
      BY DEF Evaluation!ToSet, ToSet
    <3>3. ToSet(list) \subseteq PossibleSignatures
      BY <3>1 DEF PossibleSignatures
    <3>4. list \in Seq(ToSet(list))
      BY <3>1, <3>2
    <3> QED
      BY <3>3, <3>4
  <2> QED
    BY <2>1, <2>2
<1>3. \A reqs \in PossibleRequirements : ToSet(reqs) = {reqs[k] : k \in 1..Len(reqs)}
  BY <1>1 DEF ToSet
<1>4. \A list \in PossibleLists : ToSet(list) = {list[k] : k \in 1..Len(list)}
  BY <1>2 DEF ToSet
<1> QED
  BY <1>1, <1>2, <1>3, <1>4

(* A step that leaves the evaluation alone keeps what it has established.  *)
LEMMA CallKept ==
  ASSUME RequirementsAllow, SignaturesAccepted, Evolves, call' = call
  PROVE  RequirementsAllow' /\ SignaturesAccepted'
BY VerdictsLast DEF RequirementsAllow, SignaturesAccepted

(* A step that leaves the result alone, or forgets it, keeps it justified. *)
LEMMA ResultKept ==
  ASSUME ResultIsDecided, Evolves, result' = result \/ result' = Evaluation!NoResult
  PROVE  ResultIsDecided'
BY VerdictsLast DEF ResultIsDecided, Evaluation!NoResult

(* An evaluation that ends with a justified result keeps the invariant.    *)
LEMMA ReturnKeeps ==
  ASSUME DecisionInvariant, call' = Evaluation!NoCall, pcState' = "Ready",
         UNCHANGED <<policy, checkedImage, source, now, cachedManifest, cachedSignatures, served, used>>,
         result' \in Results, result'.reqs = call.reqs,
         result'.allowed => /\ call.reqs # <<>>
                            /\ \A k \in 1..Len(call.reqs) : Allows(call.reqs[k]),
         \A k \in 1..Len(result'.sigs) : Accepted(call.reqs, result'.sigs[k])
  PROVE  DecisionInvariant'
<1> USE DEF Evaluation!NoCall, Evaluation!None, None
<1>1. Evolves
  BY DEF Evolves, DecisionInvariant, DecisionTypes
<1>2. DecisionTypes'
  BY DEF DecisionInvariant, DecisionTypes, Calls, PossibleLists, PossibleRequirements
<1>3. UnparsedImageIsCached'
  BY DEF DecisionInvariant, UnparsedImageIsCached, Evaluation!expectedManifestDigest, ToSet
<1>4. RequirementsAllow' /\ SignaturesAccepted'
  BY DEF RequirementsAllow, SignaturesAccepted
<1>5. ResultIsDecided'
  BY <1>1, VerdictsLast DEF ResultIsDecided
<1> QED
  BY <1>2, <1>3, <1>4, <1>5 DEF DecisionInvariant

(* Reading the manifest returns the cached one, which is the one expected. *)
LEMMA ManifestIsRead ==
  ASSUME DecisionInvariant, NEW m \in PossibleManifests, Evaluation!Manifest(m),
         Evaluation!CacheManifest(m), checkedImage' = checkedImage
  PROVE  /\ cachedManifest' \in PossibleManifests
         /\ cachedManifest # None => cachedManifest' = cachedManifest
         /\ m # None => cachedManifest' = m
         /\ cachedManifest' # None =>
              Evaluation!expectedManifestDigest' \in {None, cachedManifest'}
BY DEF DecisionInvariant, DecisionTypes, UnparsedImageIsCached, Evaluation!Manifest,
   Evaluation!CacheManifest, Evaluation!expectedManifestDigest, Evaluation!None, None

(* Reading the signatures returns ones the source has served.              *)
LEMMA SignaturesAreRead ==
  ASSUME DecisionInvariant, NEW list \in SignatureLists, Evaluation!UntrustedSignatures(list)
  PROVE  /\ served \subseteq served' /\ ToSet(list) \subseteq served'
         /\ cachedSignatures' \in [known : BOOLEAN, list : PossibleLists]
         /\ cachedSignatures'.known => ToSet(cachedSignatures'.list) \subseteq served'
<1>1. CASE cachedSignatures.known
  BY <1>1 DEF DecisionInvariant, DecisionTypes, UnparsedImageIsCached, Evaluation!UntrustedSignatures
<1>2. CASE ~cachedSignatures.known
  <2>1. PICK known \in {TRUE, list # <<>>} : cachedSignatures' = [known |-> known, list |-> list]
    BY <1>2 DEF Evaluation!UntrustedSignatures
  <2>2. served' = served \cup ToSet(list)
    BY <1>2 DEF Evaluation!UntrustedSignatures, Evaluation!ToSet, ToSet
  <2>3. known \in BOOLEAN /\ list \in PossibleLists
    BY DEF PossibleLists
  <2>4. cachedSignatures'.list = list /\ cachedSignatures' \in [known : BOOLEAN, list : PossibleLists]
    BY <2>1, <2>3
  <2> QED
    BY <2>2, <2>4
<1> QED
  BY <1>1, <1>2

(* An evaluation that goes on keeps the invariant if it keeps its parts.   *)
LEMMA EvaluationGoesOn ==
  ASSUME DecisionInvariant,
         UNCHANGED <<policy, checkedImage, source, now, pcState, result, used>>,
         served \subseteq served', call' \in Calls, call'.op = call.op, ToSet(call'.list) \subseteq served',
         cachedManifest' \in PossibleManifests,
         cachedManifest # None => cachedManifest' = cachedManifest,
         cachedManifest' # None => Evaluation!expectedManifestDigest' \in {None, cachedManifest'},
         cachedSignatures' \in [known : BOOLEAN, list : PossibleLists],
         cachedSignatures'.known => ToSet(cachedSignatures'.list) \subseteq served',
         RequirementsAllow', SignaturesAccepted'
  PROVE  DecisionInvariant'
<1>1. Evolves
  BY DEF Evolves, DecisionInvariant, DecisionTypes
<1>2. DecisionTypes'
  BY DEF DecisionInvariant, DecisionTypes
<1>3. UnparsedImageIsCached'
  BY DEF DecisionInvariant, UnparsedImageIsCached
<1> QED
  BY <1>1, <1>2, <1>3, ResultKept DEF DecisionInvariant

(* IsRunningImageAllowed goes on with the next requirement if the current  *)
(* one allows the image.                                                   *)
LEMMA RequirementPassed ==
  ASSUME DecisionInvariant, Evolves, call.op = "IsRunningImageAllowed", call.r < Len(call.reqs),
         Evaluation!NextRequirement, NEW q, q = call.reqs[call.r + 1], Allows(q)'
  PROVE  /\ call' \in Calls /\ call'.op = call.op /\ call'.list = <<>>
         /\ RequirementsAllow' /\ SignaturesAccepted'
<1> call \in Calls /\ call.reqs \in PossibleRequirements /\ call.r \in Nat
  BY DEF DecisionInvariant, DecisionTypes, Calls
<1> Len(call.reqs) \in Nat
  BY ListsAreSequences
<1>0. /\ call'.op = call.op /\ call'.list = <<>> /\ call'.reqs = call.reqs
      /\ call'.r = call.r + 1 /\ call'.s = 0
  BY DEF Evaluation!NextRequirement, Calls
<1>1. call' \in Calls
  <2> call.r + 1 \in Nat /\ <<>> \in PossibleLists
    BY DEF PossibleLists
  <2> call' = [op |-> call.op, reqs |-> call.reqs, r |-> call.r + 1, s |-> 0, list |-> <<>>,
               accepted |-> call.accepted, one |-> call.one]
    BY DEF Evaluation!NextRequirement, Calls
  <2> QED
    BY DEF Calls
<1>2. \A k \in 1..call.r : Allows(call.reqs[k])
  BY DEF DecisionInvariant, RequirementsAllow
<1>3. (\A k \in 1..call.r : Allows(call.reqs[k]))'
  <2> SUFFICES ASSUME NEW k \in 1..(call.r + 1), NEW p, p = call.reqs[k] PROVE Allows(p)'
    BY <1>0
  <2>1. CASE k = call.r + 1
    BY <2>1
  <2>2. CASE k \in 1..call.r
    BY <1>2, <2>2, VerdictsLast
  <2> QED
    BY <2>1, <2>2
<1>4. RequirementsAllow'
  BY <1>0, <1>3 DEF RequirementsAllow
<1>5. SignaturesAccepted'
  BY <1>0 DEF SignaturesAccepted
<1> QED
  BY <1>0, <1>1, <1>4, <1>5

(* Every step of an evaluation, of its source and of its caller keeps the  *)
(* invariant.                                                              *)
LEMMA DecisionNext == DecisionInvariant /\ Evaluation!Next => DecisionInvariant'
<1> SUFFICES ASSUME DecisionInvariant, Evaluation!Next PROVE DecisionInvariant'
  OBVIOUS
<1> DecisionTypes /\ UnparsedImageIsCached /\ RequirementsAllow /\ SignaturesAccepted /\ ResultIsDecided
  BY DEF DecisionInvariant
<1> call \in Calls /\ result \in Results /\ now \in Nat
  BY DEF DecisionTypes
<1> call.reqs \in PossibleRequirements /\ call.list \in PossibleLists /\ call.r \in Nat /\ call.s \in Nat
  BY DEF Calls
<1> Len(call.reqs) \in Nat /\ Len(call.list) \in Nat
  BY ListsAreSequences
<1>1. CASE Evaluation!ChangeSource \/ Evaluation!Tick \/ Evaluation!Destroy
          \/ \E op \in Evaluation!Operations : Evaluation!StartRefused(op)
  <2> USE DEF Evaluation!ChangeSource, Evaluation!Tick, Evaluation!Destroy, Evaluation!StartRefused,
          Evaluation!unparsed, Evaluation!environment, Evaluation!vars
  <2>1. /\ call' = call /\ result' = result /\ used' = used
        /\ UNCHANGED <<policy, checkedImage, cachedManifest, cachedSignatures, served>>
        /\ source' \in [manifest : Manifests, sigs : SignatureLists]
        /\ now' \in Nat /\ now <= now'
        /\ pcState' \in {"Ready", "InUse", "Destroyed"}
        /\ pcState' = "InUse" <=> pcState = "InUse"
    BY <1>1 DEF DecisionTypes
  <2>2. Evolves
    BY <2>1 DEF Evolves
  <2>3. DecisionTypes'
    BY <2>1 DEF DecisionTypes
  <2>4. UnparsedImageIsCached'
    BY <2>1 DEF UnparsedImageIsCached, Evaluation!expectedManifestDigest, ToSet
  <2> QED
    BY <2>1, <2>2, <2>3, <2>4, CallKept, ResultKept DEF DecisionInvariant
<1>2. CASE \E op \in Evaluation!Operations : Evaluation!Start(op)
  <2>1. PICK op \in Evaluation!Operations : Evaluation!Start(op)
    BY <1>2
  <2> DEFINE reqs == Evaluation!requirementsForImageRef(checkedImage.ref)
  <2>2. reqs \in PossibleRequirements
    BY RequirementsAreFound DEF DecisionTypes, PossibleRequirements
  <2>3. Len(reqs) \in Nat
    BY <2>2, ListsAreSequences
  <2>4. /\ call' = [op |-> op, reqs |-> reqs, r |-> 0, s |-> 0, list |-> <<>>, accepted |-> <<>>, one |-> FALSE]
        /\ result' = Evaluation!NoResult /\ used' = None /\ pcState' = "InUse"
        /\ UNCHANGED <<policy, checkedImage, source, now, cachedManifest, cachedSignatures, served>>
    BY <2>1 DEF Evaluation!Start, Evaluation!NoCall, Evaluation!unparsed, Evaluation!environment,
       Evaluation!None, None
  <2> HIDE DEF reqs
  <2>5. Evolves
    BY <2>4 DEF Evolves
  <2>6. DecisionTypes'
    BY <2>2, <2>4 DEF DecisionTypes, Calls, Results, PossibleLists, PossibleRequirements,
       PossibleManifests, Evaluation!NoResult, Evaluation!Operations, Evaluation!None, None
  <2>7. UnparsedImageIsCached'
    BY <2>4 DEF UnparsedImageIsCached, Evaluation!expectedManifestDigest, ToSet
  <2>8. RequirementsAllow' /\ SignaturesAccepted'
    BY <2>3, <2>4 DEF RequirementsAllow, SignaturesAccepted
  <2> QED
    BY <2>4, <2>5, <2>6, <2>7, <2>8, ResultKept DEF DecisionInvariant
<1> USE DEF Evaluation!unparsed, Evaluation!environment
<1>3. CASE Evaluation!AllRequirementsAllow
  <2> USE DEF Evaluation!AllRequirementsAllow, Evaluation!Allowing, Evaluation!Return
  <2>1. /\ call' = Evaluation!NoCall /\ pcState' = "Ready"
        /\ UNCHANGED <<policy, checkedImage, source, now, cachedManifest, cachedSignatures, served, used>>
    BY <1>3
  <2>2. result' = [op |-> call.op, allowed |-> call.reqs # <<>>, reqs |-> call.reqs, sigs |-> <<>>]
    BY <1>3
  <2>3. result' \in Results
    BY <2>2 DEF Calls, Results
  <2>4. call.op = "IsRunningImageAllowed" /\ call.r = Len(call.reqs)
    BY <1>3
  <2>5. \A k \in 1..Len(call.reqs) : Allows(call.reqs[k])
    BY <2>4 DEF RequirementsAllow
  <2>6. result'.allowed <=> call.reqs # <<>>
    BY <2>2
  <2>7. result'.reqs = call.reqs /\ result'.sigs = <<>>
    BY <2>2
  <2> QED
    BY <2>1, <2>3, <2>5, <2>6, <2>7, ReturnKeeps
<1>4. ASSUME Evaluation!Return(FALSE, <<>>), UNCHANGED Evaluation!unparsed PROVE DecisionInvariant'
  <2>1. /\ call' = Evaluation!NoCall /\ pcState' = "Ready"
        /\ UNCHANGED <<policy, checkedImage, source, now, cachedManifest, cachedSignatures, served, used>>
        /\ result' = [op |-> call.op, allowed |-> FALSE, reqs |-> call.reqs, sigs |-> <<>>]
    BY <1>4 DEF Evaluation!Return
  <2>2. result' \in Results
    BY <2>1 DEF Calls, Results
  <2> QED
    BY <2>1, <2>2, ReturnKeeps
<1>5. CASE Evaluation!ReadSignaturesFails \/ Evaluation!NoSignatureAccepted
  BY <1>4, <1>5 DEF Evaluation!ReadSignaturesFails, Evaluation!NoSignatureAccepted
<1>6. CASE Evaluation!AllSignaturesDone
  <2> USE DEF Evaluation!AllSignaturesDone, Evaluation!Return
  <2>1. /\ call' = Evaluation!NoCall /\ pcState' = "Ready"
        /\ UNCHANGED <<policy, checkedImage, source, now, cachedManifest, cachedSignatures, served, used>>
        /\ result' = [op |-> call.op, allowed |-> FALSE, reqs |-> call.reqs, sigs |-> call.accepted]
        /\ call.op = "GetSignaturesWithAcceptedAuthor"
    BY <1>6
  <2>2. result' \in Results
    BY <2>1 DEF Calls, Results
  <2> QED
    BY <2>1, <2>2, ReturnKeeps DEF SignaturesAccepted
<1>7. CASE Evaluation!UseManifest
  <2>1. PICK m \in Manifests : Evaluation!Manifest(m) /\ Evaluation!CacheManifest(m) /\ used' = m
    BY <1>7 DEF Evaluation!UseManifest
  <2>2. UNCHANGED <<policy, checkedImage, source, now, cachedSignatures, served, pcState, call, result>>
        /\ used = None
    BY <1>7 DEF Evaluation!UseManifest, Evaluation!None, None
  <2>3. m \in PossibleManifests /\ m # None
    BY DecisionAssumption DEF PossibleManifests, Evaluation!None, None
  <2>4. /\ cachedManifest' \in PossibleManifests
        /\ cachedManifest # None => cachedManifest' = cachedManifest
        /\ cachedManifest' = m
        /\ cachedManifest' # None => Evaluation!expectedManifestDigest' \in {None, cachedManifest'}
    BY <2>1, <2>2, <2>3, ManifestIsRead
  <2>5. Evolves
    BY <2>2, <2>4 DEF Evolves
  <2>6. DecisionTypes'
    BY <2>1, <2>2, <2>3, <2>4 DEF DecisionTypes
  <2>7. UnparsedImageIsCached'
    BY <2>1, <2>2, <2>4 DEF UnparsedImageIsCached, ToSet
  <2> QED
    BY <2>2, <2>5, <2>6, <2>7, CallKept, ResultKept DEF DecisionInvariant
<1>8. CASE Evaluation!SimpleRequirement
  <2> USE DEF Evaluation!SimpleRequirement, Evaluation!Allowing, Evaluation!req
  <2>1. CASE call.reqs[call.r + 1].kind # "insecureAcceptAnything"
    BY <1>4, <1>8, <2>1
  <2>2. CASE call.reqs[call.r + 1].kind = "insecureAcceptAnything"
    <3>1. /\ Evaluation!NextRequirement
          /\ UNCHANGED <<policy, checkedImage, source, now, pcState, result, used, cachedManifest,
                         cachedSignatures, served>>
          /\ call.op = "IsRunningImageAllowed" /\ call.r < Len(call.reqs)
      BY <1>8, <2>2
    <3>2. Evolves
      BY <3>1 DEF Evolves
    <3>3. PICK q : q = call.reqs[call.r + 1]
      OBVIOUS
    <3>4. Allows(q)'
      BY <2>2, <3>3 DEF Allows
    <3>5. /\ call' \in Calls /\ call'.op = call.op /\ call'.list = <<>>
          /\ RequirementsAllow' /\ SignaturesAccepted'
      BY <3>1, <3>2, <3>3, <3>4, RequirementPassed
    <3>6. ToSet(call'.list) \subseteq served'
      BY <3>5 DEF ToSet
    <3>7. cachedManifest' # None => Evaluation!expectedManifestDigest' \in {None, cachedManifest'}
      BY <3>1 DEF UnparsedImageIsCached, Evaluation!expectedManifestDigest
    <3>8. /\ cachedSignatures' \in [known : BOOLEAN, list : PossibleLists]
          /\ cachedManifest' \in PossibleManifests
      BY <3>1 DEF DecisionTypes
    <3>9. cachedSignatures'.known => ToSet(cachedSignatures'.list) \subseteq served'
      BY <3>1 DEF UnparsedImageIsCached, ToSet
    <3> QED
      BY <3>1, <3>5, <3>6, <3>7, <3>8, <3>9, EvaluationGoesOn
  <2> QED
    BY <2>1, <2>2
<1>9. CASE Evaluation!ReadSignatures
  <2>1. PICK list \in SignatureLists :
          /\ Evaluation!UntrustedSignatures(list)
          /\ call' = [call EXCEPT !.s = 1, !.list = list]
    BY <1>9 DEF Evaluation!ReadSignatures
  <2>2. /\ UNCHANGED <<policy, checkedImage, source, now, pcState, result, used, cachedManifest>>
        /\ call.op = "IsRunningImageAllowed" /\ call.r < Len(call.reqs)
        /\ call.reqs[call.r + 1].kind \in {"signedBy", "sigstoreSigned"}
    BY <1>9 DEF Evaluation!ReadSignatures, Evaluation!Allowing, Evaluation!req
  <2>3. /\ call' = [op |-> call.op, reqs |-> call.reqs, r |-> call.r, s |-> 1, list |-> list,
                    accepted |-> call.accepted, one |-> call.one]
    BY <2>1 DEF Calls
  <2>4. call' \in Calls /\ call'.op = call.op /\ call'.list = list
    BY <2>3 DEF Calls, PossibleLists
  <2>5. /\ served \subseteq served' /\ ToSet(list) \subseteq served'
        /\ cachedSignatures' \in [known : BOOLEAN, list : PossibleLists]
        /\ cachedSignatures'.known => ToSet(cachedSignatures'.list) \subseteq served'
    BY <2>1, SignaturesAreRead
  <2>6. Evolves
    BY <2>2, <2>5 DEF Evolves
  <2>7. RequirementsAllow' /\ SignaturesAccepted'
    BY <2>2, <2>3, <2>6, VerdictsLast DEF RequirementsAllow, SignaturesAccepted
  <2>8. cachedManifest' # None => Evaluation!expectedManifestDigest' \in {None, cachedManifest'}
    BY <2>2 DEF UnparsedImageIsCached, Evaluation!expectedManifestDigest
  <2>9. cachedManifest' \in PossibleManifests
    BY <2>2 DEF DecisionTypes
  <2> QED
    BY <2>2, <2>4, <2>5, <2>7, <2>8, <2>9, EvaluationGoesOn
<1>10. CASE Evaluation!ListSignatures
  <2>1. PICK list \in SignatureLists :
          /\ Evaluation!UntrustedSignatures(list)
          /\ call' = [call EXCEPT !.s = 1, !.list = list]
    BY <1>10 DEF Evaluation!ListSignatures
  <2>2. /\ UNCHANGED <<policy, checkedImage, source, now, pcState, result, used, cachedManifest>>
        /\ call.op = "GetSignaturesWithAcceptedAuthor" /\ call.s = 0
    BY <1>10 DEF Evaluation!ListSignatures
  <2>3. /\ call' = [op |-> call.op, reqs |-> call.reqs, r |-> call.r, s |-> 1, list |-> list,
                    accepted |-> call.accepted, one |-> call.one]
    BY <2>1 DEF Calls
  <2>4. call' \in Calls /\ call'.op = call.op /\ call'.list = list
    BY <2>3 DEF Calls, PossibleLists
  <2>5. /\ served \subseteq served' /\ ToSet(list) \subseteq served'
        /\ cachedSignatures' \in [known : BOOLEAN, list : PossibleLists]
        /\ cachedSignatures'.known => ToSet(cachedSignatures'.list) \subseteq served'
    BY <2>1, SignaturesAreRead
  <2>6. Evolves
    BY <2>2, <2>5 DEF Evolves
  <2>7. call.r = 0 /\ call.r <= Len(call.reqs) /\ ~call.one
        /\ \A k \in 1..Len(call.accepted) : Accepted(call.reqs, call.accepted[k])
    BY <2>2 DEF SignaturesAccepted
  <2>8. RequirementsAllow' /\ SignaturesAccepted'
    BY <2>2, <2>3, <2>6, <2>7, VerdictsLast DEF RequirementsAllow, SignaturesAccepted
  <2>9. cachedManifest' # None => Evaluation!expectedManifestDigest' \in {None, cachedManifest'}
    BY <2>2 DEF UnparsedImageIsCached, Evaluation!expectedManifestDigest
  <2>10. cachedManifest' \in PossibleManifests
    BY <2>2 DEF DecisionTypes
  <2> QED
    BY <2>2, <2>4, <2>5, <2>8, <2>9, <2>10, EvaluationGoesOn
<1>11. ASSUME UNCHANGED <<policy, checkedImage, source, now, pcState, result, used, cachedSignatures, served>>,
              UNCHANGED cachedManifest
                \/ \E m \in Manifests \cup {Evaluation!None} : Evaluation!Manifest(m) /\ Evaluation!CacheManifest(m)
       PROVE  /\ Evolves
              /\ cachedManifest' \in PossibleManifests
              /\ cachedManifest' # None => Evaluation!expectedManifestDigest' \in {None, cachedManifest'}
              /\ cachedSignatures' \in [known : BOOLEAN, list : PossibleLists]
              /\ cachedSignatures'.known => ToSet(cachedSignatures'.list) \subseteq served'
              /\ ToSet(call.list) \subseteq served'
  <2>1. /\ cachedManifest' \in PossibleManifests
        /\ cachedManifest # None => cachedManifest' = cachedManifest
        /\ cachedManifest' # None => Evaluation!expectedManifestDigest' \in {None, cachedManifest'}
    <3>1. CASE UNCHANGED cachedManifest
      BY <1>11, <3>1 DEF DecisionTypes, UnparsedImageIsCached, Evaluation!expectedManifestDigest
    <3>2. CASE \E m \in Manifests \cup {Evaluation!None} : Evaluation!Manifest(m) /\ Evaluation!CacheManifest(m)
      <4>1. Manifests \cup {Evaluation!None} = PossibleManifests
        BY DEF PossibleManifests, Evaluation!None, None
      <4> QED
        BY <1>11, <3>2, <4>1, ManifestIsRead
    <3> QED
      BY <1>11, <3>1, <3>2
  <2>2. cachedSignatures' = cachedSignatures /\ served' = served
    BY <1>11
  <2> QED
    BY <1>11, <2>1, <2>2 DEF Evolves, DecisionTypes, UnparsedImageIsCached
<1>12. CASE Evaluation!VerifySignature
  <2> DEFINE q == call.reqs[call.r + 1]
             sig == call.list[call.s]
             Passes(m) == /\ Evaluation!Manifest(m) /\ Evaluation!CacheManifest(m)
                          /\ m # Evaluation!None /\ Evaluation!contentAccepted(q, sig, m)
                          /\ Evaluation!Considered(q.kind, sig) /\ Evaluation!signerAccepted(q, sig)
                          /\ Evaluation!NextRequirement
  <2>1. /\ UNCHANGED <<policy, checkedImage, source, now, pcState, result, used, cachedSignatures, served>>
        /\ call.op = "IsRunningImageAllowed" /\ call.s \in 1..Len(call.list)
    BY <1>12 DEF Evaluation!VerifySignature
  <2>2. \/ \E m \in Manifests \cup {Evaluation!None} : Passes(m)
        \/ /\ call' = [call EXCEPT !.s = @ + 1]
           /\ \/ UNCHANGED cachedManifest
              \/ \E m \in Manifests \cup {Evaluation!None} : Evaluation!Manifest(m) /\ Evaluation!CacheManifest(m)
    BY <1>12 DEF Evaluation!VerifySignature, Evaluation!req
  <2>3. UNCHANGED cachedManifest
          \/ \E m \in Manifests \cup {Evaluation!None} : Evaluation!Manifest(m) /\ Evaluation!CacheManifest(m)
    BY <2>2
  <2>4. /\ Evolves
        /\ cachedManifest' \in PossibleManifests
        /\ cachedManifest # None => cachedManifest' = cachedManifest
        /\ cachedManifest' # None => Evaluation!expectedManifestDigest' \in {None, cachedManifest'}
        /\ cachedSignatures' \in [known : BOOLEAN, list : PossibleLists]
        /\ cachedSignatures'.known => ToSet(cachedSignatures'.list) \subseteq served'
        /\ ToSet(call.list) \subseteq served'
    BY <2>1, <2>3, <1>11 DEF Evolves
  <2>5. call.r < Len(call.reqs) /\ q.kind \in {"signedBy", "sigstoreSigned"}
    BY <2>1 DEF RequirementsAllow
  <2>6. /\ call' \in Calls /\ call'.op = call.op /\ call'.list \in {<<>>, call.list}
        /\ RequirementsAllow' /\ SignaturesAccepted'
    <3>1. CASE \E m \in Manifests \cup {Evaluation!None} : Passes(m)
      <4>1. PICK m \in Manifests \cup {Evaluation!None} : Passes(m)
        BY <3>1
      <4>2. PICK p, g : p = q /\ g = sig
        OBVIOUS
      <4>3. Evaluation!WellFormed(p) /\ g \in served
        <5>1. call.r + 1 \in 1..Len(call.reqs)
          BY <2>5
        <5> QED
          BY <2>1, <4>2, <5>1, ListsAreSequences DEF UnparsedImageIsCached
      <4> HIDE DEF q, sig
      <4>4. Evaluation!Vouches(p, g, m)
        BY <2>5, <4>1, <4>2, <4>3, CheckedSignatureVouches
      <4>5. checkedImage' = checkedImage /\ now' = now
        BY <2>1
      <4>6. Evaluation!Vouches(p, g, m)'
        BY <4>4, <4>5 DEF Evaluation!Vouches
      <4>7. cachedManifest' = m /\ m # None
        <5>1. m \in PossibleManifests /\ m # None
          BY <4>1 DEF PossibleManifests, Evaluation!None, None
        <5> QED
          BY <4>1, <4>5, <5>1, ManifestIsRead
      <4>8. g \in served'
        BY <4>3, <2>1
      <4>9. Allows(p)'
        BY <2>5, <4>2, <4>6, <4>7, <4>8 DEF Allows
      <4> QED
        BY <2>1, <2>4, <2>5, <4>1, <4>2, <4>9, RequirementPassed DEF q
    <3>2. CASE call' = [call EXCEPT !.s = @ + 1]
      <4>1. call.s + 1 \in Nat /\ call.s # 0 /\ call.s + 1 # 0
        BY <2>1
      <4>2. call' = [op |-> call.op, reqs |-> call.reqs, r |-> call.r, s |-> call.s + 1, list |-> call.list,
                     accepted |-> call.accepted, one |-> call.one]
        BY <3>2 DEF Calls
      <4>3. call' \in Calls
        BY <4>1, <4>2 DEF Calls
      <4>4. /\ call'.op = call.op /\ call'.list = call.list /\ call'.reqs = call.reqs /\ call'.r = call.r
            /\ call'.s # 0
        BY <4>1, <4>2
      <4>5. RequirementsAllow' /\ SignaturesAccepted'
        BY <2>1, <2>4, <2>5, <4>4, VerdictsLast DEF RequirementsAllow, SignaturesAccepted
      <4> QED
        BY <4>3, <4>4, <4>5
    <3> QED
      BY <2>2, <3>1, <3>2
  <2>7. ToSet(call'.list) \subseteq served'
    BY <2>4, <2>6 DEF ToSet
  <2> QED
    BY <2>1, <2>4, <2>6, <2>7, EvaluationGoesOn DEF Evolves
<1>13. ASSUME call.op = "GetSignaturesWithAcceptedAuthor", call.s \in 1..Len(call.list), Evolves,
              Evaluation!NextSignature(FALSE)
                \/ (Evaluation!NextSignature(call.one) /\ call.r = Len(call.reqs))
       PROVE  /\ call' \in Calls /\ call'.op = call.op /\ call'.list = call.list
              /\ RequirementsAllow' /\ SignaturesAccepted'
  <2>1. PICK kept \in Seq(PossibleSignatures) :
          /\ \A k \in 1..Len(kept) : Accepted(call.reqs, kept[k])
          /\ call' = [call EXCEPT !.s = @ + 1, !.r = 0, !.one = FALSE, !.accepted = kept]
    <3>1. call.accepted \in Seq(PossibleSignatures)
      BY DEF Calls
    <3>2. \A k \in 1..Len(call.accepted) : Accepted(call.reqs, call.accepted[k])
      BY <1>13 DEF SignaturesAccepted
    <3>3. CASE call' = [call EXCEPT !.s = @ + 1, !.r = 0, !.one = FALSE, !.accepted = call.accepted]
      BY <3>1, <3>2, <3>3
    <3>4. CASE /\ call' = [call EXCEPT !.s = @ + 1, !.r = 0, !.one = FALSE,
                                       !.accepted = Append(call.accepted, call.list[call.s])]
               /\ call.one /\ call.r = Len(call.reqs)
      <4> DEFINE sig == call.list[call.s]
                 kept == Append(call.accepted, sig)
      <4>1. sig \in PossibleSignatures
        BY <1>13, ListsAreSequences
      <4>2. Accepted(call.reqs, sig)
        BY <1>13, <3>4 DEF SignaturesAccepted, Accepted
      <4> HIDE DEF sig
      <4>3. kept \in Seq(PossibleSignatures) /\ \A k \in 1..Len(kept) : Accepted(call.reqs, kept[k])
        BY <3>1, <3>2, <4>1, <4>2
      <4>4. call' = [call EXCEPT !.s = @ + 1, !.r = 0, !.one = FALSE, !.accepted = kept]
        BY <3>4 DEF sig
      <4> HIDE DEF kept
      <4> QED
        BY <4>3, <4>4
    <3>5. \/ call' = [call EXCEPT !.s = @ + 1, !.r = 0, !.one = FALSE, !.accepted = call.accepted]
          \/ /\ call' = [call EXCEPT !.s = @ + 1, !.r = 0, !.one = FALSE,
                                     !.accepted = Append(call.accepted, call.list[call.s])]
             /\ call.one /\ call.r = Len(call.reqs)
      <4>1. CASE Evaluation!NextSignature(FALSE)
        BY <4>1 DEF Evaluation!NextSignature
      <4>2. CASE Evaluation!NextSignature(call.one) /\ call.r = Len(call.reqs)
        BY <4>2 DEF Evaluation!NextSignature
      <4> QED
        BY <1>13, <4>1, <4>2
    <3> QED
      BY <3>3, <3>4, <3>5
  <2>2. call.s + 1 \in Nat /\ call.s + 1 # 0
    OBVIOUS
  <2>3. call' = [op |-> call.op, reqs |-> call.reqs, r |-> 0, s |-> call.s + 1, list |-> call.list,
                 accepted |-> kept, one |-> FALSE]
    BY <2>1 DEF Calls
  <2>4. call' \in Calls
    BY <2>2, <2>3 DEF Calls
  <2>5. /\ call'.op = call.op /\ call'.list = call.list /\ call'.reqs = call.reqs /\ call'.r = 0
        /\ call'.s = call.s + 1 /\ call'.accepted = kept /\ ~call'.one
    BY <2>3
  <2>6. \A k \in 1..Len(kept) : Accepted(call.reqs, kept[k])
    BY <2>1
  <2>7. (\A k \in 1..Len(call.accepted) : Accepted(call.reqs, call.accepted[k]))'
    BY <1>13, <2>5, <2>6, VerdictsLast
  <2>8. RequirementsAllow' /\ SignaturesAccepted'
    BY <1>13, <2>2, <2>5, <2>7 DEF RequirementsAllow, SignaturesAccepted
  <2> QED
    BY <2>4, <2>5, <2>8
<1>14. CASE Evaluation!SignatureDone
  <2>1. /\ UNCHANGED <<policy, checkedImage, source, now, pcState, result, used, cachedManifest,
                       cachedSignatures, served>>
        /\ call.op = "GetSignaturesWithAcceptedAuthor" /\ call.s \in 1..Len(call.list)
        /\ Evaluation!NextSignature(call.one) /\ call.r = Len(call.reqs)
    BY <1>14 DEF Evaluation!SignatureDone
  <2>2. /\ Evolves
        /\ cachedManifest' \in PossibleManifests
        /\ cachedManifest' # None => Evaluation!expectedManifestDigest' \in {None, cachedManifest'}
        /\ cachedSignatures' \in [known : BOOLEAN, list : PossibleLists]
        /\ cachedSignatures'.known => ToSet(cachedSignatures'.list) \subseteq served'
        /\ ToSet(call.list) \subseteq served'
    BY <1>11, <2>1
  <2>3. /\ call' \in Calls /\ call'.op = call.op /\ call'.list = call.list
        /\ RequirementsAllow' /\ SignaturesAccepted'
    BY <1>13, <2>1, <2>2
  <2>4. ToSet(call'.list) \subseteq served'
    BY <2>2, <2>3 DEF ToSet
  <2> QED
    BY <2>1, <2>2, <2>3, <2>4, EvaluationGoesOn DEF Evolves
<1>15. CASE Evaluation!RequirementOnSignature
  <2> DEFINE q == call.reqs[call.r + 1]
             sig == call.list[call.s]
             Passes(m) == /\ Evaluation!Manifest(m) /\ Evaluation!CacheManifest(m)
                          /\ m # Evaluation!None /\ Evaluation!contentAccepted(q, sig, m)
                          /\ Evaluation!Considered(q.kind, sig) /\ Evaluation!signerAccepted(q, sig)
                          /\ call' = [call EXCEPT !.r = @ + 1, !.one = TRUE]
             MayRead == \/ UNCHANGED cachedManifest
                        \/ \E m \in Manifests \cup {Evaluation!None} :
                             Evaluation!Manifest(m) /\ Evaluation!CacheManifest(m)
  <2>1. /\ UNCHANGED <<policy, checkedImage, source, now, pcState, result, used, cachedSignatures, served>>
        /\ call.op = "GetSignaturesWithAcceptedAuthor" /\ call.s \in 1..Len(call.list)
        /\ call.r < Len(call.reqs)
    BY <1>15 DEF Evaluation!RequirementOnSignature
  <2>2. \/ /\ q.kind \in {"insecureAcceptAnything", "signedBaseLayer"}
           /\ call' = [call EXCEPT !.r = @ + 1] /\ UNCHANGED cachedManifest
        \/ Evaluation!NextSignature(FALSE) /\ MayRead
        \/ /\ q.kind \notin {"insecureAcceptAnything", "signedBaseLayer", "reject", "sigstoreSigned"}
           /\ \E m \in Manifests \cup {Evaluation!None} : Passes(m)
    BY <1>15 DEF Evaluation!RequirementOnSignature, Evaluation!req
  <2>3. MayRead
    BY <2>2
  <2>4. /\ Evolves
        /\ cachedManifest' \in PossibleManifests
        /\ cachedManifest' # None => Evaluation!expectedManifestDigest' \in {None, cachedManifest'}
        /\ cachedSignatures' \in [known : BOOLEAN, list : PossibleLists]
        /\ cachedSignatures'.known => ToSet(cachedSignatures'.list) \subseteq served'
        /\ ToSet(call.list) \subseteq served'
    BY <1>11, <2>1, <2>3
  <2>5. call.r + 1 \in 1..Len(call.reqs) /\ call.r + 1 \in Nat
    BY <2>1
  <2>6. Evaluation!WellFormed(q)
    BY <2>5, ListsAreSequences
  <2>7. ASSUME NEW p, p = q, NEW g, g = sig, Accepts(p, g)', NEW one \in BOOLEAN,
               call' = [call EXCEPT !.r = @ + 1, !.one = one],
               one => call.one \/ p.kind = "signedBy"
        PROVE  /\ call' \in Calls /\ call'.op = call.op /\ call'.list = call.list
               /\ RequirementsAllow' /\ SignaturesAccepted'
    <3>1. call' = [op |-> call.op, reqs |-> call.reqs, r |-> call.r + 1, s |-> call.s, list |-> call.list,
                   accepted |-> call.accepted, one |-> one]
      BY <2>7 DEF Calls
    <3>2. call' \in Calls
      BY <2>5, <3>1 DEF Calls
    <3>3. /\ call'.op = call.op /\ call'.list = call.list /\ call'.reqs = call.reqs /\ call'.r = call.r + 1
          /\ call'.s = call.s /\ call'.accepted = call.accepted /\ (call'.one <=> one)
      BY <3>1
    <3>4. /\ \A k \in 1..Len(call.accepted) : Accepted(call.reqs, call.accepted[k])
          /\ \A k \in 1..call.r : Accepts(call.reqs[k], sig)
          /\ call.one => \E k \in 1..call.r : call.reqs[k].kind = "signedBy"
      BY <2>1 DEF SignaturesAccepted
    <3>5. (\A k \in 1..Len(call.accepted) : Accepted(call.reqs, call.accepted[k]))'
      BY <2>4, <3>3, <3>4, VerdictsLast
    <3>6. (\A k \in 1..call.r : Accepts(call.reqs[k], call.list[call.s]))'
      <4> SUFFICES ASSUME NEW k \in 1..(call.r + 1), NEW x, x = call.reqs[k] PROVE Accepts(x, g)'
        BY <2>7, <3>3
      <4>1. CASE k = call.r + 1
        BY <2>7, <4>1
      <4>2. CASE k \in 1..call.r
        BY <2>4, <2>7, <3>4, <4>2, VerdictsLast
      <4> QED
        BY <4>1, <4>2
    <3>7. one => \E k \in 1..(call.r + 1) : call.reqs[k].kind = "signedBy"
      BY <2>7, <3>4
    <3>8. (call.one => \E k \in 1..call.r : call.reqs[k].kind = "signedBy")'
      BY <3>3, <3>7
    <3>9. RequirementsAllow' /\ SignaturesAccepted'
      BY <2>1, <2>5, <3>3, <3>5, <3>6, <3>8 DEF RequirementsAllow, SignaturesAccepted
    <3> QED
      BY <3>2, <3>3, <3>9
  <2>8. /\ call' \in Calls /\ call'.op = call.op /\ call'.list = call.list
        /\ RequirementsAllow' /\ SignaturesAccepted'
    <3>1. CASE Evaluation!NextSignature(FALSE)
      BY <1>13, <2>1, <2>4, <3>1
    <3>2. CASE /\ q.kind \in {"insecureAcceptAnything", "signedBaseLayer"}
               /\ call' = [call EXCEPT !.r = @ + 1]
      <4>1. PICK p, g : p = q /\ g = sig
        OBVIOUS
      <4>0. PICK one \in BOOLEAN : one <=> call.one
        OBVIOUS
      <4>2. Accepts(p, g)'
        BY <3>2, <4>1 DEF Accepts
      <4>3. call' = [call EXCEPT !.r = @ + 1, !.one = one]
        <5>1. one = call.one
          BY <4>0 DEF Calls
        <5> QED
          BY <3>2, <5>1 DEF Calls
      <4> QED
        BY <2>7, <4>0, <4>1, <4>2, <4>3
    <3>3. CASE /\ q.kind \notin {"insecureAcceptAnything", "signedBaseLayer", "reject", "sigstoreSigned"}
               /\ \E m \in Manifests \cup {Evaluation!None} : Passes(m)
      <4>1. PICK m \in Manifests \cup {Evaluation!None} : Passes(m)
        BY <3>3
      <4>2. PICK p, g : p = q /\ g = sig
        OBVIOUS
      <4>3. q.kind = "signedBy"
        BY <2>6, <3>3 DEF Evaluation!WellFormed
      <4> HIDE DEF q, sig
      <4>4. Evaluation!Vouches(p, g, m)
        BY <2>6, <4>1, <4>2, <4>3, CheckedSignatureVouches
      <4>5. checkedImage' = checkedImage /\ now' = now
        BY <2>1
      <4>6. Evaluation!Vouches(p, g, m)'
        BY <4>4, <4>5 DEF Evaluation!Vouches
      <4>7. cachedManifest' = m /\ m # None
        <5>1. m \in PossibleManifests /\ m # None
          BY <4>1 DEF PossibleManifests, Evaluation!None, None
        <5> QED
          BY <4>1, <4>5, <5>1, ManifestIsRead
      <4>8. Accepts(p, g)'
        BY <4>2, <4>3, <4>6, <4>7 DEF Accepts
      <4> QED
        BY <2>7, <4>1, <4>2, <4>3, <4>8
    <3> QED
      BY <2>2, <3>1, <3>2, <3>3
  <2>9. ToSet(call'.list) \subseteq served'
    BY <2>4, <2>8 DEF ToSet
  <2> QED
    BY <2>1, <2>4, <2>8, <2>9, EvaluationGoesOn DEF Evolves
<1> QED
  BY <1>1, <1>2, <1>3, <1>5, <1>6, <1>7, <1>8, <1>9, <1>10, <1>12, <1>14, <1>15 DEF Evaluation!Next

(* The invariant is stronger than the property.                            *)
LEMMA DecisionInvariantSuffices == DecisionInvariant => Evaluation!DecisionIsSound
<1> SUFFICES ASSUME DecisionInvariant PROVE Evaluation!DecisionIsSound
  OBVIOUS
<1> USE DEF DecisionInvariant, DecisionTypes, Evaluation!None, None
<1>1. Evaluation!TypeOK
  BY DEF Evaluation!TypeOK, Calls, Results, PossibleLists, PossibleManifests
<1>2. /\ result.reqs \in PossibleRequirements /\ result.sigs \in Seq(PossibleSignatures)
  BY DEF Results
<1>3. Evaluation!ToSet(result.reqs) = {result.reqs[k] : k \in 1..Len(result.reqs)}
  BY <1>2, ListsAreSequences DEF Evaluation!ToSet, ToSet
<1>4. Evaluation!ToSet(result.sigs) = {result.sigs[k] : k \in 1..Len(result.sigs)}
  BY <1>2 DEF Evaluation!ToSet
<1>5. Evaluation!AllowedImageIsTheSignedOne
  BY <1>3 DEF Evaluation!AllowedImageIsTheSignedOne, ResultIsDecided, Allows, UnparsedImageIsCached
<1>6. Evaluation!ReturnedSignaturesAreAccepted
  BY <1>3, <1>4 DEF Evaluation!ReturnedSignaturesAreAccepted, ResultIsDecided, Accepted, Accepts
<1> QED
  BY <1>1, <1>5, <1>6 DEF Evaluation!DecisionIsSound

(* Whatever the source returns from one read to the next and whenever the  *)
(* clock ticks: an image that IsRunningImageAllowed allows, and whose      *)
(* manifest is used afterwards, is the one that accepted signatures vouch  *)
(* for under every requirement of its scope, and the signatures returned   *)
(* by GetSignaturesWithAcceptedAuthor are accepted by some requirement and *)
(* refused by none.                                                        *)
THEOREM DecisionSound == Spec => []DecisionIsSound
<1> DEFINE Inv == part = "decision" => DecisionInvariant
<1>1. Init => Inv
  BY DecisionInit DEF Init, decisionInit
<1>2. Inv /\ [Next]_vars => Inv'
  <2> SUFFICES ASSUME Inv, [Next]_vars, part' = "decision" PROVE DecisionInvariant'
    OBVIOUS
  <2>1. CASE UNCHANGED <<part, decisionVars>>
    <3>1. UNCHANGED <<policy, checkedImage, source, now, cachedManifest, cachedSignatures, served, used,
                      call, result, pcState>> /\ DecisionInvariant
      BY <2>1 DEF decisionVars
    <3>2. Evolves
      BY <3>1 DEF Evolves, DecisionInvariant, DecisionTypes
    <3>3. DecisionTypes' /\ UnparsedImageIsCached'
      BY <3>1 DEF DecisionInvariant, DecisionTypes, UnparsedImageIsCached,
         Evaluation!expectedManifestDigest, ToSet
    <3> QED
      BY <3>1, <3>2, <3>3, CallKept, ResultKept DEF DecisionInvariant
  <2>2. CASE DecisionStep
    BY <2>2, DecisionNext DEF DecisionStep
  <2> QED
    BY <2>1, <2>2 DEF Next, vars, BlobStep, ImageStep, ListStep, PolicyStep, MayStop
<1>3. Inv => DecisionIsSound
  BY DecisionInvariantSuffices DEF DecisionIsSound
<1> QED
  BY <1>1, <1>2, <1>3, PTL DEF Spec

-----------------------------------------------------------------------------
(* A blob through the pipeline *)

(* What the copy relies on when it looks at, changes and compares data.    *)
LEMMA LastAndFront ==
  ASSUME NEW S, NEW b \in Seq(S), b # <<>>, NEW e \in S
  PROVE  /\ Append(b, e) \in Seq(S) /\ Append(b, e) # <<>>
         /\ Blob!Last(Append(b, e)) = e
         /\ Blob!Front(Append(b, e)) = b
         /\ Append(b, e)[1] = b[1]
<1>1. Len(b) \in Nat /\ Len(b) > 0
  OBVIOUS
<1>2. Blob!Front(Append(b, e)) = b
  BY <1>1 DEF Blob!Front
<1> QED
  BY <1>1, <1>2 DEF Blob!Last

(* The blobs of an image: at most one compression under an encryption.     *)
LEMMA SourceBlobFacts ==
  ASSUME NEW b \in Blob!SourceBlobs
  PROVE  /\ b \in Blob!Blobs /\ b # <<>>
         /\ Blob!FormatOf(b) \in Blob!Formats \cup {"none"}
         /\ Blob!Decompressed(b) \in Blob!SourceBlobs
         /\ Blob!Decompressed(b)[1] = b[1]
         /\ Blob!FormatOf(Blob!Decompressed(b)) = "none"
         /\ Blob!FormatOf(b) = "none" => Blob!Decompressed(b) = b
         /\ Blob!IsEncrypted(b) => /\ Blob!FormatOf(b) = "none"
                                   /\ Blob!Front(b) \in Blob!SourceBlobs
                                   /\ Blob!Front(b)[1] = b[1]
                                   /\ ~Blob!IsEncrypted(Blob!Front(b))
         /\ ~Blob!IsEncrypted(b) => ~Blob!IsEncrypted(Blob!Decompressed(b))
<1> DEFINE S == Contents \cup Blob!Formats \cup {"enc"}
<1>1. \A c \in Contents : c \notin Blob!Formats /\ c # "enc"
  BY ContentsAssumption
<1>2. "enc" \notin Blob!Formats /\ "none" \notin Blob!Formats
  BY DEF Blob!Formats
<1>3. \A c \in Contents :
        /\ <<c>> \in Seq(S) /\ <<c>> # <<>> /\ <<c>>[1] = c
        /\ Blob!Last(<<c>>) = c
        /\ <<c>> \in Blob!SourceBlobs
  BY DEF Blob!Last, Blob!SourceBlobs
<1>4. \A c \in Contents, f \in Blob!Formats \cup {"enc"} :
        LET d == <<c, f>>
        IN  /\ d \in Seq(S) /\ d # <<>> /\ d[1] = c
            /\ Blob!Last(d) = f /\ Blob!Front(d) = <<c>>
            /\ d \in Blob!SourceBlobs
  <2> SUFFICES ASSUME NEW c \in Contents, NEW f \in Blob!Formats \cup {"enc"}
               PROVE  /\ <<c, f>> \in Seq(S) /\ <<c, f>> # <<>> /\ <<c, f>>[1] = c
                      /\ Blob!Last(<<c, f>>) = f /\ Blob!Front(<<c, f>>) = <<c>>
                      /\ <<c, f>> \in Blob!SourceBlobs
    OBVIOUS
  <2>1. <<c, f>> = Append(<<c>>, f)
    OBVIOUS
  <2>2. <<c, f>> \in Blob!SourceBlobs
    BY DEF Blob!SourceBlobs
  <2>3. <<c>> \in Seq(S) /\ f \in S /\ <<c>> # <<>> /\ <<c>>[1] = c
    OBVIOUS
  <2> DEFINE d == <<c>>
  <2>4. d \in Seq(S) /\ d # <<>> /\ d[1] = c
    BY <2>3
  <2> HIDE DEF S, d
  <2>5. /\ Append(d, f) \in Seq(S) /\ Append(d, f) # <<>> /\ Append(d, f)[1] = c
        /\ Blob!Last(Append(d, f)) = f /\ Blob!Front(Append(d, f)) = d
    BY <2>3, <2>4, LastAndFront
  <2>6. Append(d, f) = <<c, f>>
    BY <2>1 DEF d
  <2> QED
    BY <2>2, <2>5, <2>6 DEF d
<1>5. \A c \in Contents, f \in Blob!Formats :
        LET d == <<c, f, "enc">>
        IN  /\ d \in Seq(S) /\ d # <<>> /\ d[1] = c
            /\ Blob!Last(d) = "enc" /\ Blob!Front(d) = <<c, f>>
  <2> SUFFICES ASSUME NEW c \in Contents, NEW f \in Blob!Formats
               PROVE  /\ <<c, f, "enc">> \in Seq(S) /\ <<c, f, "enc">> # <<>> /\ <<c, f, "enc">>[1] = c
                      /\ Blob!Last(<<c, f, "enc">>) = "enc" /\ Blob!Front(<<c, f, "enc">>) = <<c, f>>
    OBVIOUS
  <2>1. <<c, f, "enc">> = Append(<<c, f>>, "enc")
    OBVIOUS
  <2>2. <<c, f>> \in Seq(S) /\ "enc" \in S /\ <<c, f>> # <<>> /\ <<c, f>>[1] = c
    OBVIOUS
  <2> DEFINE d == <<c, f>>
  <2>3. d \in Seq(S) /\ d # <<>> /\ d[1] = c
    BY <2>2
  <2> HIDE DEF S, d
  <2>4. /\ Append(d, "enc") \in Seq(S) /\ Append(d, "enc") # <<>> /\ Append(d, "enc")[1] = c
        /\ Blob!Last(Append(d, "enc")) = "enc" /\ Blob!Front(Append(d, "enc")) = d
    BY <2>2, <2>3, LastAndFront
  <2>5. Append(d, "enc") = <<c, f, "enc">>
    BY <2>1 DEF d
  <2> QED
    BY <2>4, <2>5 DEF d
<1>6. Blob!Blobs = Seq(S)
  BY DEF Blob!Blobs
<1> HIDE DEF S
<1> USE DEF Blob!FormatOf, Blob!IsEncrypted, Blob!Decompressed
<1>7. CASE \E c \in Contents : b = <<c>>
  BY <1>1, <1>2, <1>3, <1>6, <1>7
<1>8. CASE \E c \in Contents : b = <<c, "enc">>
  BY <1>1, <1>2, <1>3, <1>4, <1>6, <1>8
<1>9. CASE \E c \in Contents, f \in Blob!Formats : b = <<c, f>>
  BY <1>1, <1>2, <1>3, <1>4, <1>6, <1>9
<1>10. CASE \E c \in Contents, f \in Blob!Formats : b = <<c, f, "enc">>
  BY <1>1, <1>2, <1>3, <1>4, <1>5, <1>6, <1>10
<1>11. \/ \E c \in Contents : b = <<c>>
       \/ \E c \in Contents : b = <<c, "enc">>
       \/ \E c \in Contents, f \in Blob!Formats : b = <<c, f>>
       \/ \E c \in Contents, f \in Blob!Formats : b = <<c, f, "enc">>
  BY DEF Blob!SourceBlobs
<1> QED
  BY <1>7, <1>8, <1>9, <1>10, <1>11


(* What a blob becomes when it is compressed or encrypted.                 *)
LEMMA ChangedBlobFacts ==
  ASSUME NEW b \in Blob!Blobs, b # <<>>, NEW f \in Blob!Formats
  PROVE  /\ Append(b, f) \in Blob!Blobs /\ Append(b, f) # <<>> /\ Append(b, f)[1] = b[1]
         /\ Blob!FormatOf(Append(b, f)) = f /\ Blob!Decompressed(Append(b, f)) = b
         /\ ~Blob!IsEncrypted(Append(b, f))
         /\ Append(b, "enc") \in Blob!Blobs /\ Append(b, "enc")[1] = b[1]
         /\ Blob!IsEncrypted(Append(b, "enc")) /\ Blob!Front(Append(b, "enc")) = b
<1> DEFINE S == Contents \cup Blob!Formats \cup {"enc"}
<1>1. Blob!Blobs = Seq(S)
  BY DEF Blob!Blobs
<1>2. f \in S /\ "enc" \in S /\ f # "none" /\ f # "enc"
  BY DEF Blob!Formats
<1> HIDE DEF S
<1> QED
  BY <1>1, <1>2, LastAndFront DEF Blob!FormatOf, Blob!IsEncrypted, Blob!Decompressed

(* The names of compressions that are told apart only by their variants.   *)
LEMMA CompressorNames ==
  /\ \A f, g \in Blob!Formats \cup {"none"} :
       (f = "none" <=> g = "none") /\ Blob!BaseVariantName(f) = Blob!BaseVariantName(g)
       => Blob!CompressorName(f) = Blob!CompressorName(g)
  /\ \A f \in Blob!Formats :
       /\ Blob!CompressorName(f) = Blob!BaseVariantName(f)
       /\ f # "none" /\ f # Blob!NoAlgorithm
       /\ Blob!SpecificVariantName(f) \in {Blob!UnknownCompression, f}
  /\ Blob!CompressorName("none") = Blob!Uncompressed
BY DEF Blob!CompressorName, Blob!BaseVariantName, Blob!Formats, Blob!SpecificVariantName,
   Blob!NoAlgorithm, Blob!Uncompressed, Blob!UnknownCompression

(* The steps before and after the data may be changed.                     *)
BeforeCompression == {"decrypt", "detect", "compress"}
AfterCompression == {"encrypt", "put", "drain", "finish", "diffID", "done"}
AfterUpload == {"drain", "finish", "diffID", "done"}

Preservations == {"preserveOpaque", "preserveCompressed", "preserveUncompressed"}

(* The original is what the source serves, decrypted if that was asked for *)
(* and possible.  A digest that is known is that of the data as served.    *)
OriginalIsKnown ==
  /\ Blob!PossibleJob(blobJob)
  /\ blobOriginal = IF decrypting THEN Blob!Front(blobJob.served) ELSE blobJob.served
  /\ decrypting => /\ Blob!isOciEncrypted(blobJob.mediaType) /\ blobJob.decryptConfig
                   /\ ~blobJob.cannotModify /\ Blob!IsEncrypted(blobJob.served)
  /\ stream.known => stream.blob = blobJob.served
  /\ blobJob.cannotModify => stream.known
  /\ blobStep \in {"decrypt", "detect", "compress", "encrypt"} => ~encrypting
  /\ blobStep = "decrypt" => ~decrypting
  /\ blobStep \in BeforeCompression => stream.blob = blobOriginal
  /\ encrypting => ~decrypting /\ blobJob.toEncrypt /\ ~Blob!isOciEncrypted(blobJob.mediaType)

(* What is detected is, up to the variant, the original's compression.     *)
DetectionIsRight ==
  blobStep \in AfterCompression \cup {"compress"} =>
    /\ detected = "none" <=> Blob!FormatOf(blobOriginal) = "none"
    /\ Blob!BaseVariantName(detected) = Blob!BaseVariantName(Blob!FormatOf(blobOriginal))

(* The compression step describes what it made of the original.            *)
StoredFormat == IF compression.algorithm = NoAlgorithm THEN "none" ELSE compression.algorithm
StoredData ==
  IF compression.operation \in Preservations THEN blobOriginal
  ELSE Blob!Converted(blobOriginal, StoredFormat)

PreservationIsDescribed ==
  compression.operation \in Preservations =>
    /\ compression.uploadedBase = Blob!CompressorName(detected)
    /\ compression.specific = Blob!UnknownCompression
    /\ compression.operation # "preserveOpaque" => Blob!CanChangeLayerCompression(blobJob.mediaType)
    /\ compression.operation = "preserveOpaque" => ~Blob!CanChangeLayerCompression(blobJob.mediaType)
    /\ compression.operation = "preserveCompressed" =>
         detected # "none" /\ compression.algorithm = detected
    /\ compression.operation = "preserveUncompressed" =>
         detected = "none" /\ compression.algorithm = NoAlgorithm

ConversionIsDescribed ==
  compression.operation \notin Preservations =>
    /\ Blob!CanChangeLayerCompression(blobJob.mediaType) /\ ~stream.known
    /\ compression.operation \in {"compressUncompressed", "decompressCompressed", "recompressCompressed"}
    /\ StoredFormat \in Blob!Formats \cup {"none"}
    /\ compression.uploadedBase = Blob!CompressorName(StoredFormat)
    /\ compression.specific \in {Blob!UnknownCompression, StoredFormat}
    /\ compression.operation = "decompressCompressed" <=> StoredFormat = "none"
    /\ compression.operation = "compressUncompressed" => detected = "none"

CompressionIsDescribed ==
  blobStep \in AfterCompression =>
    /\ compression.srcBase = Blob!CompressorName(detected)
    /\ PreservationIsDescribed /\ ConversionIsDescribed
    /\ stream.blob = IF encrypting THEN Append(StoredData, "enc") ELSE StoredData

(* What is uploaded is the stream, and what the source served is what was  *)
(* wanted; or the destination had the wanted blob.                         *)
UploadIsKnown ==
  /\ validation = "succeeded" => blobJob.served = blobJob.want
  /\ blobStep \notin AfterUpload \cup {"failed"} => uploaded = {}
  /\ blobStep \in AfterUpload =>
       /\ stream.known => uploaded = {blobJob.want}
       /\ ~stream.known => uploaded = {stream.blob} /\ validation = "succeeded"
       /\ blobEdits.algorithm = compression.algorithm
       /\ blobEdits.crypto = IF encrypting THEN "encrypt" ELSE IF decrypting THEN "decrypt" ELSE "preserve"
  /\ blobStep \in {"finish", "diffID", "done"} /\ blobJob.diffIDIsNeeded => blobJob.served = blobJob.want

BlobInvariant ==
  /\ Blob!RecordsAreTrue
  /\ Blob!DiffIDIsTrue
  /\ OriginalIsKnown /\ DetectionIsRight /\ CompressionIsDescribed /\ UploadIsKnown

(* What is recorded stays true.                                            *)
LEMMA RecordsKept ==
  ASSUME BlobInvariant, UNCHANGED <<blobJob, pairs, tocs, compressors, diffID>>
  PROVE  Blob!PairsAreTrue' /\ Blob!NoPairsOfEncryptedBlobs' /\ Blob!CompressorsAreTrue' /\ Blob!DiffIDIsTrue'
BY DEF BlobInvariant, Blob!RecordsAreTrue, Blob!PairsAreTrue, Blob!NoPairsOfEncryptedBlobs,
   Blob!CompressorsAreTrue, Blob!DiffIDIsTrue

(* The original is a blob of the image, with the content that was served.  *)
LEMMA OriginalFacts ==
  ASSUME BlobInvariant
  PROVE  /\ blobJob \in Blob!Jobs
         /\ blobJob.served \in Blob!SourceBlobs /\ blobJob.want \in Blob!SourceBlobs
         /\ blobOriginal \in Blob!SourceBlobs
         /\ blobOriginal[1] = blobJob.served[1]
         /\ decrypting => ~Blob!IsEncrypted(blobOriginal) /\ blobJob.served = blobJob.want
<1>1. blobJob \in Blob!Jobs /\ blobJob.served \in Blob!SourceBlobs /\ blobJob.want \in Blob!SourceBlobs
  BY DEF BlobInvariant, Blob!RecordsAreTrue, Blob!TypeOK, Blob!Jobs
<1> QED
  BY <1>1, SourceBlobFacts DEF BlobInvariant, OriginalIsKnown, Blob!PossibleJob

(* A new pipeline satisfies the invariant.                                 *)
LEMMA BlobInit == Blob!Init => BlobInvariant
<1> SUFFICES ASSUME Blob!Init PROVE BlobInvariant
  OBVIOUS
<1> USE DEF Blob!Init
<1>1. blobJob \in Blob!Jobs /\ blobJob.served \in Blob!SourceBlobs /\ Blob!PossibleJob(blobJob)
  BY DEF Blob!Jobs
<1>2. blobJob.served \in Blob!Blobs
  BY <1>1, SourceBlobFacts
<1>3. Blob!TypeOK
  BY <1>1, <1>2 DEF Blob!TypeOK, Blob!PipelineSteps
<1>4. Blob!RecordsAreTrue /\ Blob!DiffIDIsTrue
  BY <1>3 DEF Blob!RecordsAreTrue, Blob!PairsAreTrue, Blob!NoPairsOfEncryptedBlobs,
     Blob!CompressorsAreTrue, Blob!DiffIDIsTrue
<1>5. OriginalIsKnown /\ DetectionIsRight /\ CompressionIsDescribed /\ UploadIsKnown
  BY <1>1 DEF OriginalIsKnown, DetectionIsRight, CompressionIsDescribed, UploadIsKnown,
     BeforeCompression, AfterCompression, AfterUpload
<1> QED
  BY <1>4, <1>5 DEF BlobInvariant

(* Until the upload, no step records anything.                             *)
LEMMA PrepareNext ==
  ASSUME BlobInvariant, Blob!Decrypt \/ Blob!Detect \/ Blob!Compress \/ Blob!Encrypt
  PROVE  BlobInvariant'
<1> USE DEF BeforeCompression, AfterCompression, AfterUpload
<1> Blob!TypeOK /\ OriginalIsKnown /\ DetectionIsRight /\ CompressionIsDescribed /\ UploadIsKnown
  BY DEF BlobInvariant, Blob!RecordsAreTrue
<1>0. UNCHANGED <<blobJob, pairs, tocs, compressors, diffID, validation, uploaded, blobEdits>>
  BY DEF Blob!Decrypt, Blob!Detect, Blob!Compress, Blob!Encrypt, Blob!records
<1>1. Blob!PairsAreTrue' /\ Blob!NoPairsOfEncryptedBlobs' /\ Blob!CompressorsAreTrue' /\ Blob!DiffIDIsTrue'
  BY <1>0, RecordsKept
<1>2. SUFFICES Blob!TypeOK' /\ OriginalIsKnown' /\ DetectionIsRight' /\ CompressionIsDescribed' /\ UploadIsKnown'
  BY <1>1 DEF BlobInvariant, Blob!RecordsAreTrue
<1>3. UploadIsKnown'
  <2>1. blobStep \in {"decrypt", "detect", "compress", "encrypt"}
        /\ blobStep' \in {"detect", "compress", "encrypt", "put", "failed"}
    BY DEF Blob!Decrypt, Blob!Detect, Blob!Compress, Blob!Encrypt, Blob!Fail
  <2> QED
    BY <1>0, <2>1 DEF UploadIsKnown
<1>4. ASSUME blobStep' \in Blob!PipelineSteps, stream' \in [blob : Blob!Blobs, known : BOOLEAN],
             blobOriginal' \in Blob!Blobs, decrypting' \in BOOLEAN, encrypting' \in BOOLEAN,
             detected' \in Blob!Formats \cup {"none"}
      PROVE  Blob!TypeOK'
  BY <1>0, <1>4 DEF Blob!TypeOK
<1> USE DEF Blob!PipelineSteps
<1>5. CASE Blob!Decrypt
  <2>1. UNCHANGED <<blobJob, encrypting, detected, compression>> /\ blobStep = "decrypt" /\ ~decrypting
        /\ ~encrypting
    BY <1>5 DEF Blob!Decrypt, OriginalIsKnown
  <2>2. CASE UNCHANGED <<stream, blobOriginal, decrypting>> /\ blobStep' \in {"detect", "failed"}
    <3>1. Blob!TypeOK'
      BY <1>4, <2>1, <2>2 DEF Blob!TypeOK
    <3>2. OriginalIsKnown' /\ DetectionIsRight' /\ CompressionIsDescribed'
      BY <2>1, <2>2 DEF OriginalIsKnown, DetectionIsRight, CompressionIsDescribed
    <3> QED
      BY <1>3, <3>1, <3>2
  <2>3. CASE /\ Blob!isOciEncrypted(blobJob.mediaType) /\ blobJob.decryptConfig
             /\ ~blobJob.cannotModify /\ Blob!IsEncrypted(stream.blob)
             /\ stream' = [blob |-> Blob!Front(stream.blob), known |-> FALSE]
             /\ blobOriginal' = stream'.blob /\ decrypting' = TRUE /\ blobStep' = "detect"
    <3>1. stream.blob = blobJob.served /\ blobJob.served \in Blob!SourceBlobs
      BY <2>1, OriginalFacts DEF OriginalIsKnown
    <3>2. Blob!Front(blobJob.served) \in Blob!Blobs
      BY <2>3, <3>1, SourceBlobFacts
    <3>3. Blob!TypeOK'
      BY <1>4, <2>1, <2>3, <3>1, <3>2 DEF Blob!TypeOK
    <3>4. OriginalIsKnown' /\ DetectionIsRight' /\ CompressionIsDescribed'
      BY <2>1, <2>3, <3>1 DEF OriginalIsKnown, DetectionIsRight, CompressionIsDescribed
    <3> QED
      BY <1>3, <3>3, <3>4
  <2> QED
    BY <1>5, <2>2, <2>3 DEF Blob!Decrypt, Blob!Fail
<1>6. CASE Blob!Detect
  <2>1. /\ UNCHANGED <<blobJob, stream, blobOriginal, decrypting, encrypting, compression>>
        /\ blobStep = "detect" /\ blobStep' = "compress"
    BY <1>6 DEF Blob!Detect
  <2>2. stream.blob = blobOriginal
    BY <2>1 DEF OriginalIsKnown
  <2>3. /\ detected' \in Blob!Formats \cup {"none"}
        /\ detected' = "none" <=> Blob!FormatOf(blobOriginal) = "none"
        /\ Blob!BaseVariantName(detected') = Blob!BaseVariantName(Blob!FormatOf(blobOriginal))
    <3>1. Blob!FormatOf(blobOriginal) \in Blob!Formats \cup {"none"}
      BY OriginalFacts, SourceBlobFacts
    <3> QED
      BY <1>6, <2>2, <3>1 DEF Blob!Detect, Blob!Formats, Blob!BaseVariantName
  <2>4. Blob!TypeOK'
    BY <1>4, <2>1, <2>3 DEF Blob!TypeOK
  <2>5. OriginalIsKnown' /\ DetectionIsRight' /\ CompressionIsDescribed'
    BY <2>1, <2>2, <2>3 DEF OriginalIsKnown, DetectionIsRight, CompressionIsDescribed
  <2> QED
    BY <1>3, <2>4, <2>5
<1>7. CASE Blob!Encrypt
  <2>1. /\ UNCHANGED <<blobJob, blobOriginal, decrypting, detected, compression>>
        /\ blobStep = "encrypt" /\ ~encrypting
    BY <1>7 DEF Blob!Encrypt, OriginalIsKnown
  <2>2. CASE UNCHANGED <<stream, encrypting>> /\ blobStep' \in {"put", "failed"}
    <3>1. Blob!TypeOK'
      BY <1>4, <2>1, <2>2 DEF Blob!TypeOK
    <3>2. OriginalIsKnown' /\ DetectionIsRight'
      BY <2>1, <2>2 DEF OriginalIsKnown, DetectionIsRight
    <3>3. CompressionIsDescribed'
      BY <2>1, <2>2 DEF CompressionIsDescribed, PreservationIsDescribed, ConversionIsDescribed,
         StoredFormat, StoredData
    <3> QED
      BY <1>3, <3>1, <3>2, <3>3
  <2>3. CASE /\ ~decrypting /\ blobJob.toEncrypt /\ ~Blob!isOciEncrypted(blobJob.mediaType)
             /\ ~blobJob.cannotModify
             /\ stream' = [blob |-> Append(stream.blob, "enc"), known |-> FALSE]
             /\ encrypting' = TRUE /\ blobStep' = "put"
    <3>1. Append(stream.blob, "enc") \in Blob!Blobs
      BY DEF Blob!TypeOK, Blob!Blobs
    <3>2. Blob!TypeOK'
      BY <1>4, <2>1, <2>3, <3>1 DEF Blob!TypeOK
    <3>3. OriginalIsKnown' /\ DetectionIsRight'
      BY <2>1, <2>3 DEF OriginalIsKnown, DetectionIsRight
    <3>4. CompressionIsDescribed'
      BY <2>1, <2>3 DEF CompressionIsDescribed, PreservationIsDescribed, ConversionIsDescribed,
         StoredFormat, StoredData
    <3> QED
      BY <1>3, <3>2, <3>3, <3>4
  <2> QED
    BY <1>7, <2>2, <2>3 DEF Blob!Encrypt, Blob!Fail, OriginalIsKnown, Blob!TypeOK
<1>8. CASE Blob!Compress
  <2>1. /\ UNCHANGED <<blobJob, blobOriginal, decrypting, encrypting, detected>>
        /\ blobStep = "compress" /\ blobStep' = "encrypt" /\ ~encrypting
    BY <1>8 DEF Blob!Compress, OriginalIsKnown
  <2>2. stream.blob = blobOriginal /\ blobOriginal \in Blob!SourceBlobs
        /\ detected \in Blob!Formats \cup {"none"}
    BY <2>1, OriginalFacts DEF OriginalIsKnown, Blob!TypeOK
  <2>3. CASE Blob!MayChangeCompression /\ Blob!TargetFormat # "keep"
    <3> DEFINE t == Blob!TargetFormat
               operation == CASE t = "none" -> "decompressCompressed"
                              [] t # "none" /\ detected = "none" -> "compressUncompressed"
                              [] OTHER -> "recompressCompressed"
               algorithm == IF t = "none" THEN Blob!NoAlgorithm ELSE t
    <3>1. t \in Blob!Formats \cup {"none"}
      <4>1. blobJob.compressionFormat \in Blob!Formats \cup {Blob!NoAlgorithm}
        BY OriginalFacts DEF Blob!Jobs, Blob!Formats
      <4> QED
        BY <2>3, <4>1 DEF Blob!TargetFormat, Blob!Formats
    <3>2. /\ stream' = [blob |-> Blob!Converted(blobOriginal, t), known |-> FALSE]
          /\ compression' = Blob!Converting(operation, algorithm)
      BY <1>8, <2>2, <2>3 DEF Blob!Compress
    <3> HIDE DEF t
    <3>3. Blob!Converted(blobOriginal, t) \in Blob!Blobs
      <4>1. Blob!Decompressed(blobOriginal) \in Blob!SourceBlobs
        BY <2>2, SourceBlobFacts
      <4>2. Blob!Decompressed(blobOriginal) \in Blob!Blobs /\ Blob!Decompressed(blobOriginal) # <<>>
        BY <4>1, SourceBlobFacts
      <4> QED
        BY <3>1, <4>2, ChangedBlobFacts DEF Blob!Converted
    <3>4. Blob!TypeOK'
      BY <1>4, <2>1, <3>2, <3>3 DEF Blob!TypeOK
    <3>5. /\ compression'.operation = operation /\ compression'.algorithm = algorithm
          /\ compression'.srcBase = Blob!CompressorName(detected)
          /\ compression'.uploadedBase
               = IF algorithm = Blob!NoAlgorithm THEN Blob!Uncompressed ELSE Blob!BaseVariantName(algorithm)
          /\ compression'.specific
               = IF algorithm = Blob!NoAlgorithm THEN Blob!UnknownCompression
                 ELSE Blob!SpecificVariantName(algorithm)
      BY <3>2 DEF Blob!Converting
    <3>6. /\ operation \notin Preservations
          /\ operation \in {"compressUncompressed", "decompressCompressed", "recompressCompressed"}
          /\ operation = "decompressCompressed" <=> t = "none"
          /\ operation = "compressUncompressed" => detected = "none"
      BY <3>1 DEF Preservations
    <3>7. NoAlgorithm = Blob!NoAlgorithm
      BY DEF NoAlgorithm, Blob!NoAlgorithm
    <3>8. /\ StoredFormat' = t
          /\ compression'.uploadedBase = Blob!CompressorName(t)
          /\ compression'.specific \in {Blob!UnknownCompression, t}
      BY <3>1, <3>5, <3>7, CompressorNames DEF StoredFormat
    <3>9. Blob!CanChangeLayerCompression(blobJob.mediaType) /\ ~blobJob.cannotModify /\ ~stream'.known
      BY <2>3, <3>2 DEF Blob!MayChangeCompression, Blob!canModifyBlob
    <3> HIDE DEF operation, algorithm
    <3>10. PreservationIsDescribed' /\ ConversionIsDescribed'
      BY <2>1, <3>1, <3>5, <3>6, <3>8, <3>9 DEF PreservationIsDescribed, ConversionIsDescribed
    <3>11. CompressionIsDescribed'
      BY <2>1, <3>2, <3>5, <3>6, <3>8, <3>10 DEF CompressionIsDescribed, StoredData
    <3>12. OriginalIsKnown' /\ DetectionIsRight'
      BY <2>1, <3>2, <3>9 DEF OriginalIsKnown, DetectionIsRight
    <3> QED
      BY <1>3, <3>4, <3>11, <3>12
  <2>4. CASE ~(Blob!MayChangeCompression /\ Blob!TargetFormat # "keep")
    <3> DEFINE operation == CASE ~Blob!CanChangeLayerCompression(blobJob.mediaType) -> "preserveOpaque"
                              [] Blob!CanChangeLayerCompression(blobJob.mediaType) /\ detected # "none" ->
                                   "preserveCompressed"
                              [] OTHER -> "preserveUncompressed"
               algorithm == IF operation = "preserveCompressed" THEN detected ELSE Blob!NoAlgorithm
    <3>1. compression' = Blob!Preserving(operation, algorithm) /\ UNCHANGED stream
      BY <1>8, <2>4 DEF Blob!Compress
    <3>2. /\ compression'.operation = operation /\ compression'.algorithm = algorithm
          /\ compression'.srcBase = Blob!CompressorName(detected)
          /\ compression'.uploadedBase = Blob!CompressorName(detected)
          /\ compression'.specific = Blob!UnknownCompression
      BY <3>1 DEF Blob!Preserving
    <3>3. NoAlgorithm = Blob!NoAlgorithm
      BY DEF NoAlgorithm, Blob!NoAlgorithm
    <3>4. operation \in Preservations
      BY DEF Preservations
    <3>5. PreservationIsDescribed' /\ ConversionIsDescribed'
      BY <2>1, <3>2, <3>3, <3>4 DEF PreservationIsDescribed, ConversionIsDescribed
    <3> HIDE DEF operation, algorithm
    <3>6. CompressionIsDescribed'
      BY <2>1, <2>2, <3>1, <3>2, <3>4, <3>5 DEF CompressionIsDescribed, StoredData
    <3>7. OriginalIsKnown' /\ DetectionIsRight'
      BY <2>1, <3>1 DEF OriginalIsKnown, DetectionIsRight
    <3>8. Blob!TypeOK'
      BY <1>4, <2>1, <3>1 DEF Blob!TypeOK
    <3> QED
      BY <1>3, <3>6, <3>7, <3>8
  <2> QED
    BY <2>3, <2>4
<1> QED
  BY <1>5, <1>6, <1>7, <1>8

(* The upload, and reading the rest, only learn whether the source served  *)
(* what was wanted.                                                        *)
LEMMA UploadNextKeeps ==
  ASSUME BlobInvariant, Blob!PutBlob \/ Blob!Drain
  PROVE  BlobInvariant'
<1> USE DEF BeforeCompression, AfterCompression, AfterUpload
<1> Blob!TypeOK /\ OriginalIsKnown /\ DetectionIsRight /\ CompressionIsDescribed /\ UploadIsKnown
  BY DEF BlobInvariant, Blob!RecordsAreTrue
<1>1. UNCHANGED <<blobJob, stream, blobOriginal, decrypting, encrypting, detected, compression,
                  diffID, pairs, tocs, compressors>>
  BY DEF Blob!PutBlob, Blob!Drain, Blob!records
<1>2. Blob!PairsAreTrue' /\ Blob!NoPairsOfEncryptedBlobs' /\ Blob!CompressorsAreTrue' /\ Blob!DiffIDIsTrue'
  BY <1>1, RecordsKept
<1>3. /\ blobStep \in {"put", "drain"} /\ blobStep' \in {"drain", "finish", "failed"}
      /\ validation' \in {"unknown", "succeeded", "failed"}
      /\ uploaded' \in SUBSET Blob!Blobs
  <2>1. stream.blob \in Blob!Blobs /\ blobJob.want \in Blob!Blobs
    BY OriginalFacts, SourceBlobFacts DEF Blob!TypeOK
  <2> QED
    BY <2>1 DEF Blob!PutBlob, Blob!Drain, Blob!Fail, Blob!ValidatedAtEOF, Blob!TypeOK
<1>4. Blob!TypeOK'
  BY <1>1, <1>3 DEF Blob!TypeOK, Blob!PipelineSteps
<1>5. OriginalIsKnown' /\ DetectionIsRight'
  BY <1>1, <1>3 DEF OriginalIsKnown, DetectionIsRight
<1>6. CompressionIsDescribed'
  BY <1>1, <1>3 DEF CompressionIsDescribed, PreservationIsDescribed, ConversionIsDescribed,
     StoredFormat, StoredData
<1>7. UploadIsKnown'
  <2>1. CASE Blob!PutBlob
    <3>1. blobEdits' = [algorithm |-> compression.algorithm,
                        crypto |-> CASE encrypting -> "encrypt" [] decrypting -> "decrypt"
                                     [] OTHER -> "preserve"]
          /\ blobStep = "put" /\ uploaded = {}
      BY <2>1 DEF Blob!PutBlob, UploadIsKnown
    <3>2. /\ blobEdits'.algorithm = compression.algorithm
          /\ blobEdits'.crypto = IF encrypting THEN "encrypt" ELSE IF decrypting THEN "decrypt" ELSE "preserve"
      <4>1. ~(encrypting /\ decrypting)
        BY DEF OriginalIsKnown
      <4> QED
        BY <3>1, <4>1
    <3>3. CASE blobStep' = "failed" /\ UNCHANGED <<validation, uploaded>>
      BY <1>1, <3>3 DEF UploadIsKnown
    <3>4. CASE stream.known /\ uploaded' = {blobJob.want} /\ blobStep' = "drain" /\ UNCHANGED validation
      BY <1>1, <3>2, <3>4 DEF UploadIsKnown
    <3>5. CASE /\ validation' = Blob!ValidatedAtEOF
               /\ uploaded' = IF Blob!ValidatedAtEOF = "failed" THEN {} ELSE {stream.blob}
               /\ blobStep' = IF Blob!ValidatedAtEOF = "failed" THEN "failed" ELSE "drain"
      <4>1. CASE blobJob.served # blobJob.want
        BY <1>1, <3>5, <4>1 DEF Blob!ValidatedAtEOF, UploadIsKnown
      <4>2. CASE blobJob.served = blobJob.want
        <5>1. stream.known => stream.blob = blobJob.want
          BY <4>2 DEF OriginalIsKnown
        <5>2. validation' = "succeeded" /\ uploaded' = {stream.blob} /\ blobStep' = "drain"
          BY <3>5, <4>2 DEF Blob!ValidatedAtEOF
        <5> QED
          BY <1>1, <3>2, <4>2, <5>1, <5>2 DEF UploadIsKnown
      <4> QED
        BY <4>1, <4>2
    <3> QED
      BY <2>1, <3>3, <3>4, <3>5 DEF Blob!PutBlob, Blob!Fail
  <2>2. CASE Blob!Drain
    BY <1>1, <2>2 DEF Blob!Drain, Blob!ValidatedAtEOF, UploadIsKnown
  <2> QED
    BY <2>1, <2>2
<1> QED
  BY <1>2, <1>4, <1>5, <1>6, <1>7 DEF BlobInvariant, Blob!RecordsAreTrue

(* What the compression step says of the data it yields is true.           *)
LEMMA StoredDataFacts ==
  ASSUME BlobInvariant, blobStep \in AfterCompression
  PROVE  /\ StoredData \in Blob!Blobs /\ StoredData # <<>>
         /\ StoredData[1] = blobJob.served[1]
         /\ compression.uploadedBase = Blob!CompressorName(Blob!FormatOf(StoredData))
         /\ compression.specific # Blob!UnknownCompression => compression.specific = Blob!FormatOf(StoredData)
         /\ compression.srcBase = Blob!CompressorName(Blob!FormatOf(blobOriginal))
         /\ compression.operation \in Preservations => StoredData = blobOriginal
         /\ compression.operation \notin Preservations =>
              Blob!FormatOf(StoredData) = StoredFormat
         /\ compression.operation = "compressUncompressed" =>
              Blob!Decompressed(StoredData) = blobOriginal /\ ~Blob!IsEncrypted(StoredData)
         /\ compression.operation = "decompressCompressed" => StoredData = Blob!Decompressed(blobOriginal)
         /\ compression.operation = "preserveUncompressed" => Blob!Decompressed(blobOriginal) = blobOriginal
         /\ Blob!IsEncrypted(StoredData) => Blob!IsEncrypted(blobOriginal)
         /\ Blob!IsEncrypted(blobOriginal) /\ compression.operation \in Preservations =>
              Blob!IsEncrypted(StoredData)
<1> DEFINE x == blobOriginal
           d == Blob!Decompressed(x)
<1>1. /\ PreservationIsDescribed /\ ConversionIsDescribed
      /\ compression.srcBase = Blob!CompressorName(detected)
      /\ detected = "none" <=> Blob!FormatOf(x) = "none"
      /\ Blob!BaseVariantName(detected) = Blob!BaseVariantName(Blob!FormatOf(x))
      /\ detected \in Blob!Formats \cup {"none"}
  BY DEF BlobInvariant, CompressionIsDescribed, DetectionIsRight, Blob!RecordsAreTrue, Blob!TypeOK
<1>2. /\ x \in Blob!SourceBlobs /\ x[1] = blobJob.served[1]
  BY OriginalFacts
<1>3. /\ x \in Blob!Blobs /\ x # <<>> /\ Blob!FormatOf(x) \in Blob!Formats \cup {"none"}
      /\ d \in Blob!SourceBlobs /\ d[1] = x[1] /\ Blob!FormatOf(d) = "none"
      /\ Blob!FormatOf(x) = "none" => d = x
      /\ Blob!IsEncrypted(x) => Blob!FormatOf(x) = "none"
      /\ ~Blob!IsEncrypted(x) => ~Blob!IsEncrypted(d)
  BY <1>2, SourceBlobFacts
<1>4. d \in Blob!Blobs /\ d # <<>>
  BY <1>3, SourceBlobFacts
<1>5. Blob!CompressorName(detected) = Blob!CompressorName(Blob!FormatOf(x))
  BY <1>1, <1>3, CompressorNames
<1> HIDE DEF d
<1>6. CASE compression.operation \in Preservations
  BY <1>1, <1>2, <1>3, <1>5, <1>6 DEF StoredData, PreservationIsDescribed, Preservations, d
<1>7. CASE compression.operation \notin Preservations
  <2>1. /\ compression.operation \in {"compressUncompressed", "decompressCompressed", "recompressCompressed"}
        /\ StoredFormat \in Blob!Formats \cup {"none"}
        /\ compression.uploadedBase = Blob!CompressorName(StoredFormat)
        /\ compression.specific \in {Blob!UnknownCompression, StoredFormat}
        /\ compression.operation = "decompressCompressed" <=> StoredFormat = "none"
        /\ compression.operation = "compressUncompressed" => detected = "none"
    BY <1>1, <1>7 DEF ConversionIsDescribed
  <2>2. StoredData = IF StoredFormat = "none" THEN d ELSE Append(d, StoredFormat)
    BY <1>7 DEF StoredData, Blob!Converted, d
  <2>3. CASE StoredFormat = "none"
    BY <1>1, <1>2, <1>3, <1>4, <1>5, <1>7, <2>1, <2>2, <2>3 DEF d, Preservations
  <2>4. CASE StoredFormat \in Blob!Formats
    <3>1. StoredFormat # "none"
      BY <2>4, CompressorNames
    <3>2. LET b == Append(d, StoredFormat)
          IN  /\ b \in Blob!Blobs /\ b # <<>> /\ b[1] = d[1]
              /\ Blob!FormatOf(b) = StoredFormat /\ Blob!Decompressed(b) = d
              /\ ~Blob!IsEncrypted(b)
      BY <1>4, <2>4, ChangedBlobFacts
    <3> QED
      BY <1>1, <1>2, <1>3, <1>5, <1>7, <2>1, <2>2, <3>1, <3>2 DEF d, Preservations
  <2> QED
    BY <2>1, <2>3, <2>4
<1> QED
  BY <1>6, <1>7

(* What an upload left behind, if the source served what was wanted.       *)
LEMMA UploadFacts ==
  ASSUME BlobInvariant, blobStep \in AfterUpload, NEW u \in uploaded, blobJob.served = blobJob.want
  PROVE  /\ u = stream.blob
         /\ encrypting => u = Append(StoredData, "enc") /\ Blob!IsEncrypted(u) /\ Blob!Front(u) = StoredData
         /\ ~encrypting => u = StoredData
         /\ u[1] = blobJob.want[1]
         /\ ~decrypting => blobOriginal = blobJob.want
         /\ decrypting => Blob!IsEncrypted(blobJob.want)
<1>1. u = stream.blob
  BY DEF BlobInvariant, UploadIsKnown, OriginalIsKnown
<1>2. stream.blob = IF encrypting THEN Append(StoredData, "enc") ELSE StoredData
  BY DEF BlobInvariant, CompressionIsDescribed, AfterUpload, AfterCompression
<1>3. StoredData \in Blob!Blobs /\ StoredData # <<>> /\ StoredData[1] = blobJob.served[1]
  BY StoredDataFacts DEF AfterUpload, AfterCompression
<1>4. PICK f : f \in Blob!Formats
  BY DEF Blob!Formats
<1>5. /\ Append(StoredData, "enc")[1] = StoredData[1]
      /\ Blob!IsEncrypted(Append(StoredData, "enc")) /\ Blob!Front(Append(StoredData, "enc")) = StoredData
  BY <1>3, <1>4, ChangedBlobFacts
<1>6. /\ ~decrypting => blobOriginal = blobJob.want
      /\ decrypting => Blob!IsEncrypted(blobJob.want)
  BY DEF BlobInvariant, OriginalIsKnown
<1> QED
  BY <1>1, <1>2, <1>3, <1>5, <1>6

(* Whatever is recorded about the uploaded blob and the wanted one is true.*)
LEMMA FinishNext ==
  ASSUME BlobInvariant, Blob!Finish
  PROVE  BlobInvariant'
<1> USE DEF BeforeCompression, AfterCompression, AfterUpload
<1> /\ Blob!TypeOK /\ OriginalIsKnown /\ DetectionIsRight /\ CompressionIsDescribed /\ UploadIsKnown
    /\ Blob!PairsAreTrue /\ Blob!NoPairsOfEncryptedBlobs /\ Blob!CompressorsAreTrue /\ Blob!DiffIDIsTrue
  BY DEF BlobInvariant, Blob!RecordsAreTrue
<1>1. /\ UNCHANGED <<blobJob, stream, blobOriginal, decrypting, encrypting, detected, compression,
                     validation, uploaded, blobEdits, diffID>>
      /\ blobStep = "finish" /\ blobStep' \in {"diffID", "failed"}
  BY DEF Blob!Finish, Blob!Fail
<1>2. OriginalIsKnown' /\ DetectionIsRight' /\ UploadIsKnown'
  BY <1>1 DEF OriginalIsKnown, DetectionIsRight, UploadIsKnown
<1>3. CompressionIsDescribed'
  BY <1>1 DEF CompressionIsDescribed, PreservationIsDescribed, ConversionIsDescribed, StoredFormat, StoredData
<1>4. Blob!DiffIDIsTrue'
  BY <1>1 DEF Blob!DiffIDIsTrue
<1>5. ASSUME pairs' \subseteq Blob!Blobs \X Blob!Blobs, tocs' \subseteq Blob!Blobs \X Blob!Blobs PROVE Blob!TypeOK'
  BY <1>1, <1>5 DEF Blob!TypeOK, Blob!PipelineSteps
<1>6. CASE UNCHANGED <<pairs, tocs, compressors>>
  <2>1. Blob!TypeOK'
    BY <1>5, <1>6 DEF Blob!TypeOK
  <2>2. Blob!PairsAreTrue' /\ Blob!NoPairsOfEncryptedBlobs' /\ Blob!CompressorsAreTrue'
    BY <1>1, <1>6, RecordsKept
  <2> QED
    BY <1>2, <1>3, <1>4, <2>1, <2>2 DEF BlobInvariant, Blob!RecordsAreTrue
<1>7. CASE ~UNCHANGED <<pairs, tocs, compressors>>
  <2>1. PICK u \in uploaded : validation = "succeeded" /\ Blob!RecordPairs(u) /\ Blob!RecordCompressors(u)
    BY <1>7 DEF Blob!Finish, Blob!records
  <2> DEFINE w == blobJob.want
  <2>2. blobJob.served = w
    BY <2>1 DEF UploadIsKnown
  <2>3. /\ encrypting => Blob!IsEncrypted(u)
        /\ ~encrypting => u = StoredData
        /\ ~decrypting => blobOriginal = w
        /\ decrypting => Blob!IsEncrypted(w)
    BY <1>1, <2>2, UploadFacts
  <2>4. /\ StoredData \in Blob!Blobs
        /\ compression.uploadedBase = Blob!CompressorName(Blob!FormatOf(StoredData))
        /\ compression.specific # Blob!UnknownCompression => compression.specific = Blob!FormatOf(StoredData)
        /\ compression.srcBase = Blob!CompressorName(Blob!FormatOf(blobOriginal))
        /\ compression.operation = "compressUncompressed" =>
             Blob!Decompressed(StoredData) = blobOriginal /\ ~Blob!IsEncrypted(StoredData)
        /\ compression.operation = "decompressCompressed" => StoredData = Blob!Decompressed(blobOriginal)
        /\ compression.operation = "preserveUncompressed" => Blob!Decompressed(blobOriginal) = blobOriginal
    BY <1>1, StoredDataFacts
  <2>5. w \in Blob!Blobs
    BY OriginalFacts, SourceBlobFacts
  <2>6. compression.operation \in {"compressUncompressed", "decompressCompressed", "preserveUncompressed"} =>
          Blob!CanChangeLayerCompression(blobJob.mediaType)
    BY <1>1 DEF CompressionIsDescribed, PreservationIsDescribed, ConversionIsDescribed, Preservations
  <2>7. Blob!CanChangeLayerCompression(blobJob.mediaType) => ~Blob!isOciEncrypted(blobJob.mediaType)
    BY DEF Blob!CanChangeLayerCompression, Blob!isOciEncrypted
  <2> HIDE DEF w
  <2>8. \A p \in pairs' \ pairs :
          /\ p \in Blob!Blobs \X Blob!Blobs /\ p[2] = Blob!Decompressed(p[1])
          /\ Blob!isOciEncrypted(blobJob.mediaType) = Blob!IsEncrypted(w) =>
               ~Blob!IsEncrypted(p[1]) /\ ~Blob!IsEncrypted(w)
    <3>1. CASE encrypting \/ decrypting
      BY <2>1, <3>1 DEF Blob!RecordPairs
    <3>2. CASE ~encrypting /\ ~decrypting
      <4>1. u = StoredData /\ blobOriginal = w
        BY <2>3, <3>2
      <4>2. \A p \in pairs' \ pairs :
              \/ compression.operation = "compressUncompressed" /\ p = <<u, w>>
              \/ compression.operation = "decompressCompressed" /\ p = <<w, u>>
              \/ compression.operation = "preserveUncompressed" /\ p = <<w, w>>
        BY <2>1, <3>2 DEF Blob!RecordPairs, w
      <4> QED
        BY <2>4, <2>5, <2>6, <2>7, <4>1, <4>2
    <3> QED
      BY <3>1, <3>2
  <2>9. pairs \subseteq pairs' /\ tocs \subseteq tocs'
    BY <2>1 DEF Blob!RecordPairs
  <2>10. \A p \in tocs' \ tocs :
           /\ p \in Blob!Blobs \X Blob!Blobs /\ p[2] = Blob!Decompressed(p[1])
           /\ Blob!FormatOf(p[1]) = "zstd:chunked"
    <3>1. CASE encrypting \/ decrypting
      BY <2>1, <3>1 DEF Blob!RecordPairs
    <3>2. CASE ~encrypting /\ ~decrypting
      <4>1. u = StoredData /\ blobOriginal = w
        BY <2>3, <3>2
      <4>2. \A p \in tocs' \ tocs :
              /\ compression.operation = "compressUncompressed" /\ p = <<u, w>>
              /\ compression.specific = "zstd:chunked"
        BY <2>1, <3>2 DEF Blob!RecordPairs, w
      <4>3. "zstd:chunked" # Blob!UnknownCompression
        BY DEF Blob!UnknownCompression
      <4> QED
        BY <2>4, <2>5, <4>1, <4>2, <4>3
    <3> QED
      BY <3>1, <3>2
  <2>11. \A r \in compressors' \ compressors : ~Blob!IsEncrypted(r.digest) =>
           /\ r.base = Blob!CompressorName(Blob!FormatOf(r.digest))
           /\ r.specific # Blob!UnknownCompression => r.specific = Blob!FormatOf(r.digest)
    <3>1. \A r \in compressors' \ compressors :
            \/ r = [digest |-> u, base |-> compression.uploadedBase, specific |-> compression.specific]
            \/ r = [digest |-> w, base |-> compression.srcBase, specific |-> Blob!UnknownCompression]
      BY <2>1 DEF Blob!RecordCompressors, w
    <3> SUFFICES ASSUME NEW r \in compressors' \ compressors, ~Blob!IsEncrypted(r.digest)
                 PROVE  /\ r.base = Blob!CompressorName(Blob!FormatOf(r.digest))
                        /\ r.specific # Blob!UnknownCompression => r.specific = Blob!FormatOf(r.digest)
      OBVIOUS
    <3>2. CASE r.digest = u /\ r.base = compression.uploadedBase /\ r.specific = compression.specific
      BY <2>3, <2>4, <3>2
    <3>3. CASE r.digest = w /\ r.base = compression.srcBase /\ r.specific = Blob!UnknownCompression
      BY <2>3, <2>4, <3>3
    <3> QED
      BY <3>1, <3>2, <3>3
  <2>12. Blob!TypeOK'
    <3>1. pairs \subseteq Blob!Blobs \X Blob!Blobs /\ tocs \subseteq Blob!Blobs \X Blob!Blobs
      BY DEF Blob!TypeOK
    <3> QED
      BY <1>5, <2>8, <2>10, <3>1
  <2>13. Blob!PairsAreTrue'
    BY <2>8, <2>10 DEF Blob!PairsAreTrue
  <2>14. Blob!NoPairsOfEncryptedBlobs'
    BY <1>1, <2>8 DEF Blob!NoPairsOfEncryptedBlobs, w
  <2>15. Blob!CompressorsAreTrue'
    BY <2>10, <2>11 DEF Blob!CompressorsAreTrue
  <2> QED
    BY <1>2, <1>3, <1>4, <2>12, <2>13, <2>14, <2>15 DEF BlobInvariant, Blob!RecordsAreTrue
<1> QED
  BY <1>6, <1>7

(* The DiffID is the digest of the wanted blob's uncompressed content.     *)
LEMMA DiffIDNext ==
  ASSUME BlobInvariant, Blob!DiffID
  PROVE  BlobInvariant'
<1> USE DEF BeforeCompression, AfterCompression, AfterUpload
<1> /\ Blob!TypeOK /\ OriginalIsKnown /\ DetectionIsRight /\ CompressionIsDescribed /\ UploadIsKnown
    /\ Blob!PairsAreTrue /\ Blob!NoPairsOfEncryptedBlobs /\ Blob!CompressorsAreTrue /\ Blob!DiffIDIsTrue
  BY DEF BlobInvariant, Blob!RecordsAreTrue
<1>1. /\ UNCHANGED <<blobJob, stream, blobOriginal, decrypting, encrypting, detected, compression,
                     validation, uploaded, blobEdits, tocs, compressors>>
      /\ blobStep = "diffID" /\ blobStep' = "done"
  BY DEF Blob!DiffID
<1>2. OriginalIsKnown' /\ DetectionIsRight' /\ UploadIsKnown'
  BY <1>1 DEF OriginalIsKnown, DetectionIsRight, UploadIsKnown
<1>3. CompressionIsDescribed'
  BY <1>1 DEF CompressionIsDescribed, PreservationIsDescribed, ConversionIsDescribed, StoredFormat, StoredData
<1>4. Blob!CompressorsAreTrue'
  BY <1>1 DEF Blob!CompressorsAreTrue
<1> DEFINE w == blobJob.want
           d == Blob!Decompressed(w)
<1>5. w \in Blob!Blobs /\ d \in Blob!Blobs
  <2>1. w \in Blob!SourceBlobs
    BY OriginalFacts
  <2>2. d \in Blob!SourceBlobs
    BY <2>1, SourceBlobFacts
  <2> QED
    BY <2>1, <2>2, SourceBlobFacts
<1>6. blobJob.diffIDIsNeeded => Blob!Decompressed(blobOriginal) = d /\ ~Blob!isOciEncrypted(blobJob.mediaType)
  BY <1>1 DEF UploadIsKnown, OriginalIsKnown, Blob!PossibleJob
<1>7. /\ pairs' \in {pairs, pairs \cup {<<w, d>>}} /\ diffID' \in {diffID, {d}}
      /\ pairs' # pairs => blobJob.diffIDIsNeeded
  BY <1>6 DEF Blob!DiffID
<1> HIDE DEF d
<1>8. Blob!TypeOK'
  <2>1. <<w, d>> \in Blob!Blobs \X Blob!Blobs
    BY <1>5
  <2>2. pairs' \subseteq Blob!Blobs \X Blob!Blobs /\ diffID' \in SUBSET Blob!Blobs
    BY <1>5, <1>7, <2>1 DEF Blob!TypeOK
  <2> QED
    BY <1>1, <2>2 DEF Blob!TypeOK, Blob!PipelineSteps
<1>9. Blob!PairsAreTrue'
  BY <1>1, <1>7 DEF Blob!PairsAreTrue, d
<1>10. Blob!NoPairsOfEncryptedBlobs'
  BY <1>1, <1>6, <1>7 DEF Blob!NoPairsOfEncryptedBlobs
<1>11. Blob!DiffIDIsTrue'
  BY <1>1, <1>7 DEF Blob!DiffIDIsTrue, d
<1> QED
  BY <1>2, <1>3, <1>4, <1>8, <1>9, <1>10, <1>11 DEF BlobInvariant, Blob!RecordsAreTrue

(* Every step of the pipeline keeps the invariant.                         *)
LEMMA BlobNext == BlobInvariant /\ [Blob!Next]_blobVars => BlobInvariant'
<1> SUFFICES ASSUME BlobInvariant, [Blob!Next]_blobVars PROVE BlobInvariant'
  OBVIOUS
<1>1. CASE UNCHANGED blobVars
  <2> USE <1>1 DEF blobVars
  <2>1. Blob!PairsAreTrue' /\ Blob!NoPairsOfEncryptedBlobs' /\ Blob!CompressorsAreTrue' /\ Blob!DiffIDIsTrue'
    BY RecordsKept
  <2>2. Blob!TypeOK'
    BY DEF BlobInvariant, Blob!RecordsAreTrue, Blob!TypeOK
  <2>3. OriginalIsKnown' /\ DetectionIsRight' /\ UploadIsKnown'
    BY DEF BlobInvariant, OriginalIsKnown, DetectionIsRight, UploadIsKnown
  <2>4. CompressionIsDescribed'
    BY DEF BlobInvariant, CompressionIsDescribed, PreservationIsDescribed, ConversionIsDescribed,
       StoredFormat, StoredData
  <2> QED
    BY <2>1, <2>2, <2>3, <2>4 DEF BlobInvariant, Blob!RecordsAreTrue
<1>2. CASE Blob!Stopped
  BY <1>1, <1>2 DEF Blob!Stopped, Blob!vars, Blob!records, blobVars
<1> QED
  BY <1>1, <1>2, PrepareNext, UploadNextKeeps, FinishNext, DiffIDNext DEF Blob!Next

(* The blob stored has the wanted content, and the wanted digest where the *)
(* manifest may not change.                                                *)
LEMMA UploadFollows == BlobInvariant => Blob!UploadIsWanted
<1> SUFFICES ASSUME BlobInvariant PROVE Blob!UploadIsWanted
  OBVIOUS
<1>1. Blob!UploadHasWantedContent
  <2> SUFFICES ASSUME blobStep = "done", NEW u \in uploaded PROVE u[1] = blobJob.want[1]
    BY DEF Blob!UploadHasWantedContent
  <2>1. CASE stream.known
    BY <2>1 DEF BlobInvariant, UploadIsKnown, AfterUpload
  <2>2. CASE ~stream.known
    <3>1. blobJob.served = blobJob.want
      BY <2>2 DEF BlobInvariant, UploadIsKnown, AfterUpload
    <3> QED
      BY <3>1, UploadFacts DEF AfterUpload
  <2> QED
    BY <2>1, <2>2
<1>2. Blob!DigestKeptIfCannotModify
  BY DEF Blob!DigestKeptIfCannotModify, BlobInvariant, OriginalIsKnown, UploadIsKnown, AfterUpload
<1> QED
  BY <1>1, <1>2 DEF Blob!UploadIsWanted

(* The edits of the manifest describe the blob that was stored.            *)
LEMMA ResultFollows == BlobInvariant => Blob!ResultDescribesUpload
<1> SUFFICES ASSUME BlobInvariant, blobStep = "done", validation = "succeeded",
                    Blob!isOciEncrypted(blobJob.mediaType) = Blob!IsEncrypted(blobJob.want),
                    NEW u \in uploaded
             PROVE  LET data == IF Blob!IsEncrypted(u) THEN Blob!Front(u) ELSE u
                    IN /\ blobEdits.crypto = CASE Blob!IsEncrypted(u) = Blob!IsEncrypted(blobJob.want) -> "preserve"
                                               [] Blob!IsEncrypted(u) /\ ~Blob!IsEncrypted(blobJob.want) -> "encrypt"
                                               [] OTHER -> "decrypt"
                       /\ Blob!CanChangeLayerCompression(blobJob.mediaType) =>
                            IF blobEdits.algorithm = NoAlgorithm THEN Blob!FormatOf(data) = "none"
                            ELSE Blob!BaseVariantName(blobEdits.algorithm)
                                   = Blob!BaseVariantName(Blob!FormatOf(data))
  BY DEF Blob!ResultDescribesUpload, Blob!EditsDescribeUpload, BlobInvariant, Blob!NoAlgorithm, NoAlgorithm
<1> USE DEF AfterUpload, AfterCompression
<1> DEFINE canChange == Blob!CanChangeLayerCompression(blobJob.mediaType)
           encrypted == Blob!IsEncrypted(blobJob.want)
           x == blobOriginal
<1>1. /\ blobJob.served = blobJob.want
      /\ blobEdits.algorithm = compression.algorithm
      /\ blobEdits.crypto = IF encrypting THEN "encrypt" ELSE IF decrypting THEN "decrypt" ELSE "preserve"
      /\ encrypting => ~decrypting /\ ~encrypted
      /\ decrypting \in BOOLEAN /\ encrypting \in BOOLEAN
  BY DEF BlobInvariant, UploadIsKnown, OriginalIsKnown, Blob!RecordsAreTrue, Blob!TypeOK
<1>2. canChange => ~encrypted
  BY DEF Blob!CanChangeLayerCompression, Blob!isOciEncrypted
<1>3. /\ encrypting => Blob!IsEncrypted(u) /\ Blob!Front(u) = StoredData
      /\ ~encrypting => u = StoredData
      /\ ~decrypting => x = blobJob.want
      /\ decrypting => encrypted
  BY <1>1, UploadFacts
<1>4. /\ compression.operation \in Preservations => StoredData = x
      /\ compression.operation \notin Preservations => Blob!FormatOf(StoredData) = StoredFormat
      /\ Blob!IsEncrypted(StoredData) => Blob!IsEncrypted(x)
  BY StoredDataFacts
<1>5. decrypting => ~Blob!IsEncrypted(x)
  BY OriginalFacts
<1>6. /\ PreservationIsDescribed
      /\ compression.operation \notin Preservations => canChange
      /\ detected = "none" <=> Blob!FormatOf(x) = "none"
      /\ Blob!BaseVariantName(detected) = Blob!BaseVariantName(Blob!FormatOf(x))
      /\ detected \in Blob!Formats \cup {"none"}
  BY DEF BlobInvariant, CompressionIsDescribed, ConversionIsDescribed, DetectionIsRight,
     Blob!RecordsAreTrue, Blob!TypeOK
<1>7. canChange => IF compression.algorithm = NoAlgorithm THEN Blob!FormatOf(StoredData) = "none"
                   ELSE Blob!BaseVariantName(compression.algorithm) = Blob!BaseVariantName(Blob!FormatOf(StoredData))
  <2>1. CASE compression.operation \in Preservations
    BY <2>1, <1>4, <1>6, CompressorNames DEF PreservationIsDescribed, Preservations, Blob!NoAlgorithm, NoAlgorithm
  <2>2. CASE compression.operation \notin Preservations
    BY <2>2, <1>4 DEF StoredFormat
  <2> QED
    BY <2>1, <2>2
<1>8. (Blob!IsEncrypted(u) = encrypted) <=> (Blob!IsEncrypted(u) <=> encrypted)
  BY DEF Blob!IsEncrypted
<1>9. CASE encrypting
  BY <1>1, <1>3, <1>7, <1>8, <1>9
<1>10. CASE decrypting /\ ~encrypting
  BY <1>1, <1>3, <1>4, <1>5, <1>7, <1>8, <1>10
<1>11. CASE ~decrypting /\ ~encrypting
  <2>1. Blob!IsEncrypted(u) <=> encrypted
    BY <1>2, <1>3, <1>4, <1>6, <1>11
  <2> QED
    BY <1>1, <1>2, <1>3, <1>7, <1>8, <1>11, <2>1
<1> QED
  BY <1>9, <1>10, <1>11

(* The pipeline's part of the composed specification keeps its invariant.  *)
LEMMA BlobAlways == Spec => [](part = "blob" => BlobInvariant)
<1> DEFINE Inv == part = "blob" => BlobInvariant
<1>1. Init => Inv
  BY BlobInit DEF Init, blobInit
<1>2. Inv /\ [Next]_vars => Inv'
  <2> SUFFICES ASSUME Inv, [Next]_vars, part' = "blob" PROVE BlobInvariant'
    OBVIOUS
  <2>1. CASE UNCHANGED <<part, blobVars>>
    BY <2>1, BlobNext
  <2>2. CASE BlobStep
    BY <2>2, BlobNext DEF BlobStep
  <2> QED
    BY <2>1, <2>2 DEF Next, vars, ImageStep, ListStep, PolicyStep, DecisionStep, MayStop
<1> QED
  BY <1>1, <1>2, PTL DEF Spec

(* Whatever the manifest claims and the source serves, and however a blob  *)
(* is decrypted, converted and encrypted, what recordValidatedDigestData   *)
(* and copyLayer tell the blob info cache is true: pairs relate a blob to  *)
(* its own uncompressed content, compressors are the data's own, and       *)
(* tables of contents are only recorded for data compressed here.          *)
THEOREM RecordsTrue == Spec => []RecordsAreTrue
<1>1. (part = "blob" => BlobInvariant) => RecordsAreTrue
  BY DEF RecordsAreTrue, BlobInvariant
<1> QED
  BY <1>1, BlobAlways, PTL

(* A blob that copyBlobFromStream stored has the content the manifest's    *)
(* digest stands for, and that digest if the manifest cannot be modified.  *)
THEOREM UploadWanted == Spec => []UploadIsWanted
<1>1. (part = "blob" => BlobInvariant) => UploadIsWanted
  BY UploadFollows DEF UploadIsWanted
<1> QED
  BY <1>1, BlobAlways, PTL

(* The compression and crypto edits that copyBlobFromStream returns, and   *)
(* the DiffID of copyLayer, are true of the blob that was stored.          *)
THEOREM ResultTrue == Spec => []ResultDescribesUpload
<1>1. (part = "blob" => BlobInvariant) => ResultDescribesUpload
  BY ResultFollows DEF ResultDescribesUpload
<1> QED
  BY <1>1, BlobAlways, PTL

-----------------------------------------------------------------------------
(* Reading a signature policy.  Between two requirements, the one read     *)
(* last satisfies its constructor, and the evaluation counts the same      *)
(* sources as the constructor did.                                         *)

Decoded == {"unset", "empty", "set"}

PolicyTypes ==
  /\ Config!TypeOK
  /\ \A s \in DOMAIN sections : sections[s] \in Nat
  /\ \A k \in DOMAIN doc : k # "keyType" => doc[k] \in Decoded
  /\ nested = [fulcio |-> nested.fulcio, pki |-> nested.pki]
  /\ \A k \in DOMAIN nested.fulcio : nested.fulcio[k] \in Decoded
  /\ \A k \in DOMAIN nested.pki : nested.pki[k] \in Decoded

NestedAreConstructed ==
  /\ Config!Given(doc, "fulcio") => Config!newPRSigstoreSignedFulcio(nested.fulcio)
  /\ Config!Given(doc, "pki") => Config!newPRSigstoreSignedPKI(nested.pki)

SectionsAreFilled ==
  /\ phase \in {"list", "requirement"} => section \in DOMAIN sections
  /\ \A s \in DOMAIN sections :
       phase \in {"object", "accepted"} \/ (phase \in {"list", "requirement"} /\ s # section) => sections[s] > 0
  /\ phase = "locating" => DOMAIN sections = {}
  /\ phase = "accepted" => "default" \in DOMAIN sections

(* What PolicyIsConsistent needs to be inductive.                          *)
PolicyInvariant ==
  /\ PolicyTypes /\ NestedAreConstructed /\ SectionsAreFilled
  /\ phase \in {"locating", "object", "list", "accepted"} => Config!constructed
  /\ verdict # "unused" => phase = "accepted"
  /\ verdict # "inconsistent" /\ Config!TrustIsComplete

(* Cardinality is the same operator in both modules.                       *)
LEMMA PolicyCardinality == \A S : Config!Cardinality(S) = Cardinality(S)
BY DEF Config!Cardinality, Cardinality

(* The sets of keys are finite.                                            *)
LEMMA KeysAreFinite ==
  /\ IsFiniteSet(Config!KeyMaterial) /\ IsFiniteSet(Config!KeySources) /\ IsFiniteSet(Config!Rekor)
  /\ IsFiniteSet(Config!Roots) /\ IsFiniteSet(Config!Intermediates) /\ IsFiniteSet({"caPath", "caData"})
<1>1. \A a, b : IsFiniteSet({a, b})
  <2> SUFFICES ASSUME NEW a, NEW b PROVE IsFiniteSet({a, b})
    OBVIOUS
  <2>1. {a, b} = {a} \cup {b}
    OBVIOUS
  <2>2. IsFiniteSet({a} \cup {b})
    BY FS_Singleton, FS_Union
  <2> QED BY <2>1, <2>2
<1>2. \A a, b, c, d : IsFiniteSet({a, b, c, d})
  <2> SUFFICES ASSUME NEW a, NEW b, NEW c, NEW d PROVE IsFiniteSet({a, b, c, d})
    OBVIOUS
  <2>1. {a, b, c, d} = {a, b} \cup {c, d}
    OBVIOUS
  <2>2. IsFiniteSet({a, b} \cup {c, d})
    BY <1>1, FS_Union
  <2> QED BY <2>1, <2>2
<1>3. IsFiniteSet(Config!KeyMaterial) /\ IsFiniteSet(Config!Rekor)
  BY <1>2 DEF Config!KeyMaterial, Config!Rekor
<1>4. IsFiniteSet(Config!KeySources)
  <2>1. IsFiniteSet({"fulcio", "pki"})
    BY <1>1
  <2> QED BY <1>3, <2>1, FS_Union DEF Config!KeySources
<1>5. IsFiniteSet(Config!Roots) /\ IsFiniteSet(Config!Intermediates) /\ IsFiniteSet({"caPath", "caData"})
  BY <1>1 DEF Config!Roots, Config!Intermediates
<1> QED BY <1>3, <1>4, <1>5

(* Counting sources: one is one, and at most one is none or one.           *)
LEMMA SourceCounts ==
  ASSUME NEW f, NEW keys, IsFiniteSet(keys)
  PROVE  LET given == Config!Sources(f, keys)
         IN  /\ Config!Cardinality(given) = 1 => \E k \in keys : given = {k}
             /\ Config!Cardinality(given) <= 1 => given = {} \/ \E k \in keys : given = {k}
<1> DEFINE given == Config!Sources(f, keys)
<1>1. given \subseteq keys
  BY DEF Config!Sources
<1> HIDE DEF given
<1>2. IsFiniteSet(given) /\ Cardinality(given) \in Nat
  BY <1>1, FS_Subset, FS_CardinalityType
<1>3. Cardinality(given) = 1 => \E k \in keys : given = {k}
  <2>1. Cardinality(given) = 1 => \E k : given = {k}
    BY <1>2, FS_Singleton
  <2> QED BY <1>1, <2>1
<1>4. Cardinality(given) = 0 => given = {}
  BY <1>2, FS_EmptySet
<1>5. Cardinality(given) <= 1 => Cardinality(given) = 0 \/ Cardinality(given) = 1
  BY <1>2
<1> QED BY <1>3, <1>4, <1>5, PolicyCardinality DEF given

(* What loadBytesFromConfigSources returns for no source and for one       *)
LEMMA OneSourceIsLoaded ==
  ASSUME NEW f, NEW keys, NEW readable \in BOOLEAN
  PROVE  LET loaded == Config!loadBytesFromConfigSources(f, keys, readable)
         IN  /\ Config!Sources(f, keys) = {} => loaded = "nil"
             /\ \A k : Config!Sources(f, keys) = {k} => loaded = "unreadable" \/ loaded = f[k]
<1> DEFINE loaded == Config!loadBytesFromConfigSources(f, keys, readable)
           given == Config!Sources(f, keys)
<1>1. ASSUME given = {} PROVE loaded = "nil"
  <2>1. Config!Cardinality(given) = 0
    BY <1>1, FS_EmptySet, PolicyCardinality
  <2>2. ~(Config!Cardinality(given) > 1)
    BY <2>1
  <2> QED BY <1>1, <2>2 DEF Config!loadBytesFromConfigSources
<1>2. ASSUME NEW k, given = {k} PROVE loaded = "unreadable" \/ loaded = f[k]
  <2>1. Config!Cardinality(given) = 1
    BY <1>2, FS_Singleton, PolicyCardinality
  <2>2. ~(Config!Cardinality(given) > 1)
    BY <2>1
  <2>3. (CHOOSE x \in given : TRUE) = k
    BY <1>2
  <2> QED BY <1>2, <2>2, <2>3 DEF Config!loadBytesFromConfigSources
<1> QED BY <1>1, <1>2

(* What parsing leaves of a loaded source                                  *)
LEMMA ParsedOutcomes ==
  ASSUME NEW loaded, NEW isList \in BOOLEAN, NEW parsable \in BOOLEAN
  PROVE  /\ loaded = "unreadable" => Config!parsed(loaded, isList, parsable) = "unusable"
         /\ loaded = "nil" => Config!parsed(loaded, isList, parsable) = "nil"
         /\ loaded = "set" => Config!parsed(loaded, isList, parsable) \in {"ready", "unusable"}
         /\ loaded = "empty" /\ ~isList => Config!parsed(loaded, isList, parsable) = "unusable"
<1>1. loaded = "unreadable" => Config!parsed(loaded, isList, parsable) = "unusable"
  BY DEF Config!parsed
<1>2. loaded = "nil" => Config!parsed(loaded, isList, parsable) = "nil"
  BY DEF Config!parsed
<1>3. loaded = "set" => Config!parsed(loaded, isList, parsable) \in {"ready", "unusable"}
  BY DEF Config!parsed
<1>4. loaded = "empty" /\ ~isList => Config!parsed(loaded, isList, parsable) = "unusable"
  BY DEF Config!parsed
<1> QED BY <1>1, <1>2, <1>3, <1>4

(* A given member has a value.                                             *)
LEMMA GivenHasValue ==
  ASSUME NEW f, \A k \in DOMAIN f : k # "keyType" => f[k] \in Decoded, NEW keys, "keyType" \notin keys,
         NEW k \in Config!Sources(f, keys)
  PROVE  k \in DOMAIN f /\ k \in keys /\ f[k] \in {"empty", "set"}
BY DEF Config!Sources, Config!Given, Decoded

(* The Fulcio object that was accepted can be used, or its data cannot.    *)
LEMMA FulcioIsUsable ==
  ASSUME NEW f, \A k \in DOMAIN f : f[k] \in Decoded, Config!newPRSigstoreSignedFulcio(f),
         NEW readable \in BOOLEAN, NEW parsable \in BOOLEAN
  PROVE  Config!prepareFulcioTrustRoot(f, readable, parsable) \in {"ready", "unusable"}
<1> DEFINE keys == {"caPath", "caData"}
           loaded == Config!loadBytesFromConfigSources(f, keys, readable)
<1>1. PICK k \in keys : Config!Sources(f, keys) = {k}
  BY KeysAreFinite, SourceCounts DEF Config!newPRSigstoreSignedFulcio
<1>2. f[k] \in {"empty", "set"}
  BY <1>1, GivenHasValue
<1>3. loaded \in {"unreadable", "empty", "set"}
  BY <1>1, <1>2, OneSourceIsLoaded
<1>4. Config!required(loaded) = loaded
  BY <1>3 DEF Config!required
<1>5. Config!parsed(loaded, FALSE, parsable) \in {"ready", "unusable"}
  BY <1>3, ParsedOutcomes
<1>6. Config!Given(f, "oidcIssuer") /\ Config!Given(f, "subjectEmail")
  BY DEF Config!newPRSigstoreSignedFulcio
<1> HIDE DEF loaded
<1>7. Config!prepareFulcioTrustRoot(f, readable, parsable) = Config!parsed(Config!required(loaded), FALSE, parsable)
  BY <1>6 DEF Config!prepareFulcioTrustRoot, loaded
<1> QED BY <1>4, <1>5, <1>7

(* So can the PKI object.                                                  *)
LEMMA PKIIsUsable ==
  ASSUME NEW f, \A k \in DOMAIN f : f[k] \in Decoded, Config!newPRSigstoreSignedPKI(f),
         NEW readable \in BOOLEAN, NEW parsable \in BOOLEAN
  PROVE  Config!preparePKITrustRoot(f, readable, parsable) \in {"ready", "unusable"}
<1> DEFINE loaded == Config!loadBytesFromConfigSources(f, Config!Roots, readable)
           between == Config!loadBytesFromConfigSources(f, Config!Intermediates, readable)
           roots == Config!parsed(Config!required(loaded), FALSE, parsable)
           inter == IF between = "empty" THEN "ready" ELSE Config!parsed(between, FALSE, parsable)
<1>0. "keyType" \notin Config!Roots /\ "keyType" \notin Config!Intermediates
  BY DEF Config!Roots, Config!Intermediates
<1>1. PICK k \in Config!Roots : Config!Sources(f, Config!Roots) = {k}
  BY KeysAreFinite, SourceCounts DEF Config!newPRSigstoreSignedPKI
<1>2. f[k] \in {"empty", "set"}
  BY <1>0, <1>1, GivenHasValue
<1>3. loaded \in {"unreadable", "empty", "set"}
  BY <1>1, <1>2, OneSourceIsLoaded
<1>4. Config!required(loaded) = loaded
  BY <1>3 DEF Config!required
<1>5. roots \in {"ready", "unusable"}
  <2>1. Config!parsed(loaded, FALSE, parsable) \in {"ready", "unusable"}
    BY <1>3, ParsedOutcomes
  <2> HIDE DEF loaded
  <2> QED BY <1>4, <2>1
<1>6. between \in {"unreadable", "empty", "set", "nil"}
  <2>1. \/ Config!Sources(f, Config!Intermediates) = {}
        \/ \E i \in Config!Intermediates : Config!Sources(f, Config!Intermediates) = {i}
    BY KeysAreFinite, SourceCounts DEF Config!newPRSigstoreSignedPKI
  <2>2. CASE Config!Sources(f, Config!Intermediates) = {}
    BY <2>2, OneSourceIsLoaded
  <2>3. ASSUME NEW i \in Config!Intermediates, Config!Sources(f, Config!Intermediates) = {i}
        PROVE  between \in {"unreadable", "empty", "set"}
    <3>1. f[i] \in {"empty", "set"}
      BY <1>0, <2>3, GivenHasValue
    <3> QED BY <2>3, <3>1, OneSourceIsLoaded
  <2> QED BY <2>1, <2>2, <2>3
<1>7. inter \in {"ready", "unusable", "nil"}
  BY <1>6, ParsedOutcomes
<1>8. Config!Sources(f, {"subjectEmail", "subjectHostname"}) # {}
  BY DEF Config!newPRSigstoreSignedPKI
<1>9. Config!preparePKITrustRoot(f, readable, parsable) =
        IF Config!Sources(f, {"subjectEmail", "subjectHostname"}) = {} \/ "inconsistent" \in {roots, inter} THEN "inconsistent"
        ELSE IF "unusable" \in {roots, inter} THEN "unusable" ELSE "ready"
  BY DEF Config!preparePKITrustRoot
<1> HIDE DEF roots, inter
<1> QED BY <1>5, <1>7, <1>8, <1>9

(* The members of a requirement that was accepted, in the forms the        *)
(* evaluation meets them: keys, Rekor keys and the nested objects          *)
LEMMA TrustRootIsPrepared ==
  ASSUME PolicyTypes, NestedAreConstructed, Config!newPRSigstoreSigned(doc),
         NEW readable \in BOOLEAN, NEW parsable \in BOOLEAN
  PROVE  LET parts == Config!prepareTrustRoot(readable, parsable)
         IN  /\ DOMAIN parts = {"keys", "fulcio", "pki", "rekor"}
             /\ \A p \in DOMAIN parts : parts[p] \in {"ready", "unusable", "nil"}
             /\ Config!Cardinality({p \in {"keys", "fulcio", "pki"} : parts[p] # "nil"}) = 1
             /\ parts.fulcio # "nil" => parts.rekor # "nil"
             /\ parts.pki # "nil" => parts.rekor = "nil"
             /\ (\E k \in Config!Rekor \cap DOMAIN doc : doc[k] = "set") => parts.rekor # "nil"
<1> DEFINE isList(keys) == Config!Sources(doc, keys) \intersect Config!Lists # {}
           Part(keys) == Config!parsed(Config!loadBytesFromConfigSources(doc, keys, readable), isList(keys), parsable)
           fulcio == IF Config!Given(doc, "fulcio")
                       THEN Config!prepareFulcioTrustRoot(nested.fulcio, readable, parsable) ELSE "nil"
           pki == IF Config!Given(doc, "pki")
                    THEN Config!preparePKITrustRoot(nested.pki, readable, parsable) ELSE "nil"
           parts == Config!prepareTrustRoot(readable, parsable)
<1>1. parts = [keys |-> Part(Config!KeyMaterial), fulcio |-> fulcio, pki |-> pki, rekor |-> Part(Config!Rekor)]
  BY DEF Config!prepareTrustRoot
<1>2. \A k \in DOMAIN doc : k # "keyType" => doc[k] \in Decoded
  BY DEF PolicyTypes
<1>3. ASSUME NEW keys, "keyType" \notin keys
      PROVE  /\ Config!Sources(doc, keys) = {} => Part(keys) = "nil"
             /\ \A k : Config!Sources(doc, keys) = {k} => Part(keys) \in {"ready", "unusable"}
  <2>1. ASSUME Config!Sources(doc, keys) = {} PROVE Part(keys) = "nil"
    <3>1. Config!loadBytesFromConfigSources(doc, keys, readable) = "nil"
      BY <2>1, OneSourceIsLoaded
    <3>2. isList(keys) \in BOOLEAN
      OBVIOUS
    <3> HIDE DEF isList
    <3> QED BY <3>1, <3>2, ParsedOutcomes
  <2>2. ASSUME NEW k, Config!Sources(doc, keys) = {k} PROVE Part(keys) \in {"ready", "unusable"}
    <3>1. k \in DOMAIN doc /\ doc[k] \in {"empty", "set"}
      BY <1>2, <1>3, <2>2, GivenHasValue
    <3>2. Config!loadBytesFromConfigSources(doc, keys, readable) \in {"unreadable", doc[k]}
      BY <2>2, OneSourceIsLoaded
    <3>3. isList(keys) => doc[k] = "set"
      BY <2>2, <3>1 DEF Config!newPRSigstoreSigned, Config!OptionsApply
    <3>4. isList(keys) \in BOOLEAN
      OBVIOUS
    <3> HIDE DEF isList
    <3> QED BY <3>1, <3>2, <3>3, <3>4, ParsedOutcomes
  <2> QED BY <2>1, <2>2
<1> HIDE DEF Part
<1>4. fulcio \in {"ready", "unusable", "nil"} /\ (fulcio = "nil" <=> ~Config!Given(doc, "fulcio"))
  <2>1. CASE Config!Given(doc, "fulcio")
    <3>1. Config!prepareFulcioTrustRoot(nested.fulcio, readable, parsable) \in {"ready", "unusable"}
      BY <2>1, FulcioIsUsable DEF PolicyTypes, NestedAreConstructed
    <3> QED BY <2>1, <3>1
  <2>2. CASE ~Config!Given(doc, "fulcio")
    BY <2>2
  <2> QED BY <2>1, <2>2
<1>5. pki \in {"ready", "unusable", "nil"} /\ (pki = "nil" <=> ~Config!Given(doc, "pki"))
  <2>1. CASE Config!Given(doc, "pki")
    <3>1. Config!preparePKITrustRoot(nested.pki, readable, parsable) \in {"ready", "unusable"}
      BY <2>1, PKIIsUsable DEF PolicyTypes, NestedAreConstructed
    <3> QED BY <2>1, <3>1
  <2>2. CASE ~Config!Given(doc, "pki")
    BY <2>2
  <2> QED BY <2>1, <2>2
<1> HIDE DEF fulcio, pki
<1>6. "keyType" \notin Config!KeyMaterial /\ "keyType" \notin Config!Rekor
  BY DEF Config!KeyMaterial, Config!Rekor
<1>7. PICK only \in Config!KeySources : Config!Sources(doc, Config!KeySources) = {only}
  BY KeysAreFinite, SourceCounts DEF Config!newPRSigstoreSigned
<1>8. /\ Config!Sources(doc, Config!KeyMaterial) = {only} \cap Config!KeyMaterial
      /\ Config!Given(doc, "fulcio") <=> only = "fulcio"
      /\ Config!Given(doc, "pki") <=> only = "pki"
  BY <1>7 DEF Config!Sources, Config!KeySources
<1>9. /\ Part(Config!KeyMaterial) \in {"ready", "unusable", "nil"}
      /\ Part(Config!KeyMaterial) # "nil" <=> only \in Config!KeyMaterial
  <2>1. CASE only \in Config!KeyMaterial
    <3>1. Config!Sources(doc, Config!KeyMaterial) = {only}
      BY <1>8, <2>1
    <3> QED BY <1>3, <1>6, <2>1, <3>1
  <2>2. CASE only \notin Config!KeyMaterial
    <3>1. Config!Sources(doc, Config!KeyMaterial) = {}
      BY <1>8, <2>2
    <3> QED BY <1>3, <1>6, <2>2, <3>1
  <2> QED BY <2>1, <2>2
<1>10. /\ Part(Config!Rekor) \in {"ready", "unusable", "nil"}
       /\ Part(Config!Rekor) = "nil" <=> Config!Sources(doc, Config!Rekor) = {}
  <2>1. Config!Sources(doc, Config!Rekor) = {} \/ \E k \in Config!Rekor : Config!Sources(doc, Config!Rekor) = {k}
    BY KeysAreFinite, SourceCounts DEF Config!newPRSigstoreSigned
  <2> QED BY <1>3, <1>6, <2>1
<1>11. /\ parts.keys = Part(Config!KeyMaterial) /\ parts.fulcio = fulcio /\ parts.pki = pki
       /\ parts.rekor = Part(Config!Rekor) /\ DOMAIN parts = {"keys", "fulcio", "pki", "rekor"}
  BY <1>1
<1> HIDE DEF parts
<1>12. \A p \in DOMAIN parts : parts[p] \in {"ready", "unusable", "nil"}
  BY <1>4, <1>5, <1>9, <1>10, <1>11
<1>13. Config!Cardinality({p \in {"keys", "fulcio", "pki"} : parts[p] # "nil"}) = 1
  <2> DEFINE S == {p \in {"keys", "fulcio", "pki"} : parts[p] # "nil"}
  <2>1. /\ parts["keys"] # "nil" <=> only \in Config!KeyMaterial
        /\ parts["fulcio"] # "nil" <=> only = "fulcio"
        /\ parts["pki"] # "nil" <=> only = "pki"
    BY <1>4, <1>5, <1>8, <1>9, <1>11
  <2>2. "fulcio" \notin Config!KeyMaterial /\ "pki" \notin Config!KeyMaterial
    BY DEF Config!KeyMaterial
  <2>3. only \in Config!KeyMaterial \/ only = "fulcio" \/ only = "pki"
    BY <1>7 DEF Config!KeySources
  <2>4. S = {"keys"} \/ S = {"fulcio"} \/ S = {"pki"}
    BY <2>1, <2>2, <2>3
  <2> HIDE DEF S
  <2>5. Cardinality(S) = 1
    BY <2>4, FS_Singleton
  <2> QED BY <2>5, PolicyCardinality DEF S
<1>14. /\ parts.fulcio # "nil" => parts.rekor # "nil"
       /\ parts.pki # "nil" => parts.rekor = "nil"
  BY <1>4, <1>5, <1>10, <1>11 DEF Config!newPRSigstoreSigned, Config!rekorFits
<1>15. (\E k \in Config!Rekor \cap DOMAIN doc : doc[k] = "set") => parts.rekor # "nil"
  BY <1>10, <1>11 DEF Config!Sources, Config!Given
<1> QED BY <1>11, <1>12, <1>13, <1>14, <1>15 DEF parts

(* What is used is ready, or its data cannot be read, and a trust root     *)
(* that is ready is complete.                                              *)
LEMMA UseIsConsistent ==
  ASSUME PolicyInvariant, NEW readable \in BOOLEAN, NEW parsable \in BOOLEAN, Config!Use(readable, parsable)
  PROVE  PolicyInvariant'
<1>1. /\ phase = "accepted" /\ verdict = "unused"
      /\ UNCHANGED <<phase, sections, section, kind, doc, nested>>
      /\ Config!constructed /\ kind \in Config!Kinds /\ DOMAIN trust = DOMAIN Config!NoTrust
  BY DEF PolicyInvariant, Config!Use, Config!requirement, PolicyTypes, Config!TypeOK
<1>2. /\ verdict' \in {"unusable", "ready"} /\ DOMAIN trust' = DOMAIN Config!NoTrust
      /\ Config!TrustIsComplete'
  <2>1. CASE kind = "signedBy"
    <3>1. verdict' = Config!isSignatureAuthorAccepted(readable, parsable) /\ UNCHANGED trust
      BY <2>1 DEF Config!Use
    <3>2. Config!newPRSignedBy(doc)
      BY <1>1, <2>1 DEF Config!constructed
    <3>3. PICK k \in Config!KeyMaterial : Config!Sources(doc, Config!KeyMaterial) = {k}
      BY <3>2, KeysAreFinite, SourceCounts DEF Config!newPRSignedBy
    <3>4. doc[k] \in {"empty", "set"}
      <4>1. "keyType" \notin Config!KeyMaterial
        BY DEF Config!KeyMaterial
      <4> QED BY <3>3, <4>1, GivenHasValue DEF PolicyInvariant, PolicyTypes
    <3>5. Config!loadBytesFromConfigSources(doc, Config!KeyMaterial, readable) \in {"unreadable", "empty", "set"}
      BY <3>3, <3>4, OneSourceIsLoaded
    <3>6. verdict' \in {"unusable", "ready"}
      BY <3>1, <3>5 DEF Config!isSignatureAuthorAccepted
    <3> QED BY <1>1, <2>1, <3>1, <3>6 DEF Config!TrustIsComplete
  <2>2. CASE kind = "sigstoreSigned"
    <3> DEFINE parts == Config!prepareTrustRoot(readable, parsable)
    <3>1. /\ verdict' = Config!isSignatureAccepted(parts)
          /\ trust' = IF verdict' = "ready" THEN [p \in DOMAIN parts |-> parts[p] = "ready"] ELSE Config!NoTrust
      BY <2>2 DEF Config!Use
    <3>2. Config!newPRSigstoreSigned(doc)
      BY <1>1, <2>2 DEF Config!constructed
    <3>3. /\ DOMAIN parts = {"keys", "fulcio", "pki", "rekor"}
          /\ \A p \in DOMAIN parts : parts[p] \in {"ready", "unusable", "nil"}
          /\ Config!Cardinality({p \in {"keys", "fulcio", "pki"} : parts[p] # "nil"}) = 1
          /\ parts.fulcio # "nil" => parts.rekor # "nil"
          /\ parts.pki # "nil" => parts.rekor = "nil"
          /\ (\E k \in Config!Rekor \cap DOMAIN doc : doc[k] = "set") => parts.rekor # "nil"
      BY <3>2, TrustRootIsPrepared DEF PolicyInvariant
    <3> HIDE DEF parts
    <3>4. /\ verdict' \in {"unusable", "ready"}
          /\ verdict' = "ready" => \A p \in DOMAIN parts : parts[p] # "unusable"
      BY <3>1, <3>3 DEF Config!isSignatureAccepted
    <3>5. DOMAIN Config!NoTrust = {"keys", "fulcio", "pki", "rekor"}
      BY DEF Config!NoTrust
    <3>6. DOMAIN trust' = DOMAIN Config!NoTrust
      BY <3>1, <3>3, <3>5
    <3>7. ASSUME verdict' = "ready"
          PROVE  /\ Config!Cardinality({p \in {"keys", "fulcio", "pki"} : trust'[p]}) = 1
                 /\ trust'.fulcio => trust'.rekor
                 /\ trust'.pki => ~trust'.rekor
                 /\ (\E k \in Config!Rekor \intersect DOMAIN doc : doc[k] = "set") => trust'.rekor
      <4>1. \A p \in {"keys", "fulcio", "pki", "rekor"} : trust'[p] <=> parts[p] # "nil"
        BY <3>1, <3>3, <3>4, <3>7
      <4>2. {p \in {"keys", "fulcio", "pki"} : trust'[p]} = {p \in {"keys", "fulcio", "pki"} : parts[p] # "nil"}
        BY <4>1
      <4>3. /\ trust'.fulcio => trust'.rekor
            /\ trust'.pki => ~trust'.rekor
            /\ (\E k \in Config!Rekor \intersect DOMAIN doc : doc[k] = "set") => trust'.rekor
        BY <3>3, <4>1
      <4> QED BY <3>3, <4>2, <4>3
    <3>8. Config!TrustIsComplete'
      BY <1>1, <3>7 DEF Config!TrustIsComplete
    <3> QED BY <3>4, <3>6, <3>8
  <2>3. CASE kind \notin {"signedBy", "sigstoreSigned"}
    <3>1. verdict' = "ready" /\ UNCHANGED trust
      BY <2>3 DEF Config!Use
    <3> QED BY <1>1, <2>3, <3>1 DEF Config!TrustIsComplete
  <2> QED BY <2>1, <2>2, <2>3
<1>3. PolicyTypes' /\ NestedAreConstructed' /\ SectionsAreFilled' /\ Config!constructed'
  BY <1>1, <1>2 DEF PolicyInvariant, PolicyTypes, Config!TypeOK, NestedAreConstructed, SectionsAreFilled,
     Config!constructed
<1> QED BY <1>1, <1>2, <1>3 DEF PolicyInvariant

(* The policy before anything is read                                      *)
LEMMA PolicyInitially == Config!Init => PolicyInvariant
<1> SUFFICES ASSUME Config!Init PROVE PolicyInvariant
  OBVIOUS
<1>1. /\ phase = "locating" /\ DOMAIN sections = {} /\ section = "default" /\ kind = "reject"
      /\ DOMAIN doc = {} /\ nested = [fulcio |-> Config!NoMembers, pki |-> Config!NoMembers]
      /\ verdict = "unused" /\ trust = Config!NoTrust
  BY DEF Config!Init, Config!NoMembers
<1>2. DOMAIN nested.fulcio = {} /\ DOMAIN nested.pki = {}
  BY <1>1 DEF Config!NoMembers
<1>3. PolicyTypes
  <2>1. kind \in Config!Kinds /\ section \in Config!Sections
    BY <1>1 DEF Config!Kinds, Config!Sections
  <2> QED BY <1>1, <1>2, <2>1 DEF PolicyTypes, Config!TypeOK
<1>4. NestedAreConstructed /\ SectionsAreFilled /\ Config!constructed
  BY <1>1 DEF NestedAreConstructed, SectionsAreFilled, Config!constructed, Config!Given
<1> QED BY <1>1, <1>3, <1>4 DEF PolicyInvariant, Config!TrustIsComplete

(* An error leaves nothing behind.                                         *)
LEMMA RejectKeeps ==
  ASSUME PolicyInvariant, Config!Reject, phase # "accepted" PROVE PolicyInvariant'
<1>1. /\ phase' = "rejected" /\ DOMAIN sections' = {} /\ DOMAIN doc' = {}
      /\ nested' = [fulcio |-> Config!NoMembers, pki |-> Config!NoMembers]
      /\ UNCHANGED <<section, kind, verdict, trust>>
      /\ verdict = "unused"
  BY DEF Config!Reject, Config!NoMembers, PolicyInvariant
<1>2. DOMAIN nested'.fulcio = {} /\ DOMAIN nested'.pki = {}
  BY <1>1 DEF Config!NoMembers
<1>3. PolicyTypes'
  BY <1>1, <1>2 DEF PolicyInvariant, PolicyTypes, Config!TypeOK
<1>4. NestedAreConstructed' /\ SectionsAreFilled'
  BY <1>1 DEF NestedAreConstructed, SectionsAreFilled, Config!Given
<1> QED BY <1>1, <1>3, <1>4 DEF PolicyInvariant, Config!TrustIsComplete

(* The requirement stays, and so does what it says, while the reader moves *)
(* between sections.                                                       *)
LEMMA RequirementStays ==
  ASSUME PolicyInvariant, UNCHANGED <<kind, doc, nested, verdict, trust>>,
         phase' \in {"locating", "object", "list", "requirement", "accepted", "rejected"},
         section' \in Config!Sections, DOMAIN sections' \subseteq Config!Sections,
         \A s \in DOMAIN sections' : sections'[s] \in Nat
  PROVE  PolicyTypes' /\ NestedAreConstructed' /\ (verdict # "inconsistent" /\ Config!TrustIsComplete)'
         /\ Config!constructed' = Config!constructed
<1>1. PolicyTypes' /\ NestedAreConstructed'
  BY DEF PolicyInvariant, PolicyTypes, Config!TypeOK, NestedAreConstructed
<1>2. (verdict # "inconsistent" /\ Config!TrustIsComplete)'
  BY DEF PolicyInvariant, Config!TrustIsComplete
<1>3. Config!constructed' = Config!constructed
  BY DEF Config!constructed
<1> QED BY <1>1, <1>2, <1>3

(* Finding the file, opening and closing the policy and its sections       *)
LEMMA SectionsKeep ==
  ASSUME PolicyInvariant,
         \/ \E explicit, userExists, rooted, systemExists \in BOOLEAN : Config!Locate(explicit, userExists, rooted, systemExists)
         \/ Config!Malformed
         \/ \E s \in Config!Sections, validScope \in BOOLEAN : Config!OpenSection(s, validScope)
         \/ Config!CloseSection \/ Config!CloseObject
  PROVE  PolicyInvariant'
<1> USE DEF PolicyInvariant
<1>0. /\ DOMAIN sections \subseteq Config!Sections /\ section \in Config!Sections
      /\ \A s \in DOMAIN sections : sections[s] \in Nat
  BY DEF PolicyTypes, Config!TypeOK
<1>1. ASSUME NEW a \in BOOLEAN, NEW b \in BOOLEAN, NEW c \in BOOLEAN, NEW d \in BOOLEAN, Config!Locate(a, b, c, d)
      PROVE  PolicyInvariant'
  <2>1. /\ phase = "locating" /\ phase' \in {"rejected", "object"}
        /\ UNCHANGED <<sections, section, kind, doc, nested, verdict, trust>>
    BY <1>1 DEF Config!Locate, Config!requirement
  <2>2. SectionsAreFilled'
    BY <2>1 DEF SectionsAreFilled
  <2>3. PolicyTypes' /\ NestedAreConstructed' /\ (verdict # "inconsistent" /\ Config!TrustIsComplete)'
         /\ Config!constructed' = Config!constructed
    BY <1>0, <2>1, RequirementStays
  <2> QED BY <2>1, <2>2, <2>3
<1>2. CASE Config!Malformed
  BY <1>2, RejectKeeps DEF Config!Malformed
<1>3. ASSUME NEW s \in Config!Sections, NEW validScope \in BOOLEAN, Config!OpenSection(s, validScope)
      PROVE  PolicyInvariant'
  <2>1. CASE Config!Reject
    BY <1>3, <2>1, RejectKeeps DEF Config!OpenSection
  <2>2. CASE ~Config!Reject
    <3>1. /\ phase = "object" /\ phase' = "list" /\ section' = s
          /\ sections' = [t \in DOMAIN sections \union {s} |-> IF t = s THEN 0 ELSE sections[t]]
          /\ UNCHANGED <<kind, doc, nested, verdict, trust>>
      BY <1>3, <2>2 DEF Config!OpenSection, Config!requirement
    <3>2. /\ DOMAIN sections' = DOMAIN sections \cup {s}
          /\ \A t \in DOMAIN sections' : sections'[t] \in Nat /\ (t # s => t \in DOMAIN sections /\ sections'[t] = sections[t])
      BY <1>0, <3>1
    <3>3. SectionsAreFilled'
      BY <3>1, <3>2 DEF SectionsAreFilled
    <3>4. PolicyTypes' /\ NestedAreConstructed' /\ (verdict # "inconsistent" /\ Config!TrustIsComplete)'
           /\ Config!constructed' = Config!constructed
      BY <1>0, <3>1, <3>2, RequirementStays
    <3> QED BY <3>1, <3>3, <3>4
  <2> QED BY <2>1, <2>2
<1>4. CASE Config!CloseSection
  <2>1. CASE Config!Reject
    BY <1>4, <2>1, RejectKeeps DEF Config!CloseSection
  <2>2. CASE ~Config!Reject
    <3>1. /\ phase = "list" /\ phase' = "object" /\ sections[section] # 0
          /\ UNCHANGED <<sections, section, kind, doc, nested, verdict, trust>>
      BY <1>4, <2>2 DEF Config!CloseSection, Config!requirement
    <3>2. section \in DOMAIN sections /\ sections[section] > 0
      <4>1. section \in DOMAIN sections
        BY <3>1 DEF SectionsAreFilled
      <4> QED BY <1>0, <3>1, <4>1
    <3>3. SectionsAreFilled'
      BY <3>1, <3>2 DEF SectionsAreFilled
    <3>4. PolicyTypes' /\ NestedAreConstructed' /\ (verdict # "inconsistent" /\ Config!TrustIsComplete)'
           /\ Config!constructed' = Config!constructed
      BY <1>0, <3>1, RequirementStays
    <3> QED BY <3>1, <3>3, <3>4
  <2> QED BY <2>1, <2>2
<1>5. CASE Config!CloseObject
  <2>1. CASE Config!Reject
    BY <1>5, <2>1, RejectKeeps DEF Config!CloseObject
  <2>2. CASE ~Config!Reject
    <3>1. /\ phase = "object" /\ phase' = "accepted" /\ "default" \in DOMAIN sections
          /\ UNCHANGED <<sections, section, kind, doc, nested, verdict, trust>>
      BY <1>5, <2>2 DEF Config!CloseObject, Config!requirement
    <3>2. SectionsAreFilled'
      BY <3>1 DEF SectionsAreFilled
    <3>3. PolicyTypes' /\ NestedAreConstructed' /\ (verdict # "inconsistent" /\ Config!TrustIsComplete)'
           /\ Config!constructed' = Config!constructed
      BY <1>0, <3>1, RequirementStays
    <3> QED BY <3>1, <3>2, <3>3
  <2> QED BY <2>1, <2>2
<1> QED BY <1>1, <1>2, <1>3, <1>4, <1>5

(* Opening a requirement forgets the last, closing it runs its constructor.*)
LEMMA RequirementsKeep ==
  ASSUME PolicyInvariant,
         (\E k \in Config!Kinds \union {"other"} : Config!OpenRequirement(k)) \/ Config!CloseRequirement
  PROVE  PolicyInvariant'
<1> USE DEF PolicyInvariant
<1>0. /\ DOMAIN sections \subseteq Config!Sections /\ section \in Config!Sections
      /\ \A s \in DOMAIN sections : sections[s] \in Nat
  BY DEF PolicyTypes, Config!TypeOK
<1>1. CASE Config!Reject
  BY <1>1, RejectKeeps DEF Config!OpenRequirement, Config!CloseRequirement
<1>2. ASSUME NEW k, Config!OpenRequirement(k), ~Config!Reject PROVE PolicyInvariant'
  <2>1. /\ phase = "list" /\ phase' = "requirement" /\ kind' = k /\ k \in Config!Kinds
        /\ DOMAIN doc' = {} /\ nested' = [fulcio |-> Config!NoMembers, pki |-> Config!NoMembers]
        /\ verdict' = "unused" /\ trust' = Config!NoTrust /\ UNCHANGED <<sections, section>>
    BY <1>2 DEF Config!OpenRequirement, Config!NoMembers
  <2>2. DOMAIN nested'.fulcio = {} /\ DOMAIN nested'.pki = {}
    BY <2>1 DEF Config!NoMembers
  <2>3. PolicyTypes'
    BY <2>1, <2>2 DEF PolicyTypes, Config!TypeOK
  <2>4. NestedAreConstructed' /\ SectionsAreFilled'
    BY <2>1 DEF NestedAreConstructed, SectionsAreFilled, Config!Given
  <2> QED BY <2>1, <2>3, <2>4 DEF Config!TrustIsComplete
<1>3. ASSUME Config!CloseRequirement, ~Config!Reject PROVE PolicyInvariant'
  <2>1. /\ phase = "requirement" /\ phase' = "list" /\ Config!constructed
        /\ sections' = [sections EXCEPT ![section] = @ + 1]
        /\ UNCHANGED <<section, kind, doc, nested, verdict, trust>>
    BY <1>3 DEF Config!CloseRequirement, Config!requirement
  <2>2. section \in DOMAIN sections
    BY <2>1 DEF SectionsAreFilled
  <2>3. /\ DOMAIN sections' = DOMAIN sections
        /\ \A t \in DOMAIN sections : sections'[t] \in Nat /\ (t # section => sections'[t] = sections[t])
    BY <1>0, <2>1, <2>2
  <2>4. SectionsAreFilled'
    BY <2>1, <2>3 DEF SectionsAreFilled
  <2>5. PolicyTypes' /\ NestedAreConstructed' /\ (verdict # "inconsistent" /\ Config!TrustIsComplete)'
         /\ Config!constructed' = Config!constructed
    BY <1>0, <2>1, <2>3, RequirementStays
  <2> QED BY <2>1, <2>4, <2>5
<1> QED BY <1>1, <1>2, <1>3

(* A decoded value is one of the three; so are those of a nested object.   *)
LEMMA DecodedValues ==
  /\ \A key : \A v \in Config!Values : Config!Decode(key, v) \in Decoded
  /\ \A keys : \A o \in [keys -> NestedValues] :
       /\ DOMAIN Config!DecodeObject(o) = keys
       /\ \A k \in keys : Config!DecodeObject(o)[k] \in Decoded
<1>1. \A key : \A v \in Config!Values : Config!Decode(key, v) \in Decoded
  BY DEF Config!Decode, Config!Values, Decoded
<1>2. ASSUME NEW keys, NEW o \in [keys -> NestedValues]
      PROVE  /\ DOMAIN Config!DecodeObject(o) = keys
             /\ \A k \in keys : Config!DecodeObject(o)[k] \in Decoded
  <2>1. \A k \in keys : o[k] \in Config!Values
    BY <1>2, PolicyAssumption
  <2> QED BY <1>1, <2>1 DEF Config!DecodeObject
<1> QED BY <1>1, <1>2

(* Setting a member keeps what was read, if the nested objects are built.  *)
LEMMA SetKeeps ==
  ASSUME PolicyInvariant, phase = "requirement", NEW key, key \in Config!Members(kind), key \notin DOMAIN doc,
         NEW v, key # "keyType" => v \in Decoded, Config!Set(key, v), NEW f, NEW p,
         nested' = [fulcio |-> f, pki |-> p],
         IF key = "fulcio" THEN Config!newPRSigstoreSignedFulcio(f) ELSE f = nested.fulcio,
         IF key = "pki" THEN Config!newPRSigstoreSignedPKI(p) ELSE p = nested.pki,
         DOMAIN f \subseteq Config!FulcioKeys, \A k \in DOMAIN f : f[k] \in Decoded,
         DOMAIN p \subseteq Config!PKIKeys, \A k \in DOMAIN p : p[k] \in Decoded
  PROVE  PolicyInvariant'
<1>1. /\ DOMAIN doc' = DOMAIN doc \cup {key} /\ doc'[key] = v
      /\ \A k \in DOMAIN doc : doc'[k] = doc[k]
      /\ UNCHANGED <<phase, sections, section, kind, verdict, trust>>
  BY DEF Config!Set
<1>2. verdict' = "unused" /\ phase' = "requirement" /\ nested'.fulcio = f /\ nested'.pki = p
  BY <1>1 DEF PolicyInvariant
<1>3. PolicyTypes'
  <2>1. Config!TypeOK'
    BY <1>1, <1>2 DEF PolicyInvariant, PolicyTypes, Config!TypeOK
  <2>2. \A k \in DOMAIN doc' : k # "keyType" => doc'[k] \in Decoded
    BY <1>1 DEF PolicyInvariant, PolicyTypes
  <2> QED BY <1>1, <1>2, <2>1, <2>2 DEF PolicyInvariant, PolicyTypes
<1>4. NestedAreConstructed'
  <2>1. \A k : k # key /\ Config!Given(doc', k) => Config!Given(doc, k)
    BY <1>1 DEF Config!Given
  <2>2. Config!Given(doc', "fulcio") => Config!newPRSigstoreSignedFulcio(f)
    BY <2>1 DEF PolicyInvariant, NestedAreConstructed
  <2>3. Config!Given(doc', "pki") => Config!newPRSigstoreSignedPKI(p)
    BY <2>1 DEF PolicyInvariant, NestedAreConstructed
  <2> QED BY <1>2, <2>2, <2>3 DEF NestedAreConstructed
<1>5. SectionsAreFilled'
  BY <1>1 DEF PolicyInvariant, SectionsAreFilled
<1> QED BY <1>2, <1>3, <1>4, <1>5 DEF PolicyInvariant, Config!TrustIsComplete

(* Reading a member of a requirement                                       *)
LEMMA MembersKeep ==
  ASSUME PolicyInvariant, NEW key, Config!ReadMember(key)
  PROVE  PolicyInvariant'
<1>1. CASE Config!Reject
  BY <1>1, RejectKeeps DEF Config!ReadMember
<1>2. CASE ~Config!Reject
  <2>0. /\ phase = "requirement" /\ key \in Config!Members(kind) /\ key \notin DOMAIN doc
    BY <1>2 DEF Config!ReadMember
  <2>1. /\ nested = [fulcio |-> nested.fulcio, pki |-> nested.pki]
        /\ DOMAIN nested.fulcio \subseteq Config!FulcioKeys /\ \A k \in DOMAIN nested.fulcio : nested.fulcio[k] \in Decoded
        /\ DOMAIN nested.pki \subseteq Config!PKIKeys /\ \A k \in DOMAIN nested.pki : nested.pki[k] \in Decoded
    BY DEF PolicyInvariant, PolicyTypes, Config!TypeOK
  <2>2. ASSUME NEW v, key # "keyType" => v \in Decoded, Config!Set(key, v), UNCHANGED nested,
               key \notin {"fulcio", "pki"}
        PROVE  PolicyInvariant'
    <3>1. nested' = [fulcio |-> nested.fulcio, pki |-> nested.pki]
      BY <2>1, <2>2
    <3> QED BY <2>0, <2>1, <2>2, <3>1, SetKeeps
  <2>3. CASE key \in {"signedIdentity", "baseLayerIdentity"}
    <3>1. Config!Set(key, "set") /\ UNCHANGED nested
      BY <1>2, <2>3 DEF Config!ReadMember
    <3>2. "set" \in Decoded
      BY DEF Decoded
    <3> QED BY <2>2, <2>3, <3>1, <3>2
  <2>4. CASE key = "keyType"
    <3>1. PICK t : Config!Set(key, t) /\ UNCHANGED nested
      BY <1>2, <2>4 DEF Config!ReadMember
    <3> QED BY <2>2, <2>4, <3>1
  <2>5. CASE key = "fulcio"
    <3>1. PICK keys \in SUBSET Config!FulcioKeys :
            \E o \in [keys -> NestedValues] :
              /\ Config!newPRSigstoreSignedFulcio(Config!DecodeObject(o)) /\ Config!Set(key, "set")
              /\ nested' = [nested EXCEPT !.fulcio = Config!DecodeObject(o)]
      BY <1>2, <2>5 DEF Config!ReadMember
    <3>2. PICK o \in [keys -> NestedValues] :
            /\ Config!newPRSigstoreSignedFulcio(Config!DecodeObject(o)) /\ Config!Set(key, "set")
            /\ nested' = [nested EXCEPT !.fulcio = Config!DecodeObject(o)]
      BY <3>1
    <3> DEFINE f == Config!DecodeObject(o)
    <3>3. DOMAIN f \subseteq Config!FulcioKeys /\ \A k \in DOMAIN f : f[k] \in Decoded
      BY DecodedValues
    <3>4. Config!newPRSigstoreSignedFulcio(f) /\ Config!Set(key, "set") /\ "set" \in Decoded
      BY <3>2 DEF Decoded
    <3> HIDE DEF f
    <3>5. nested' = [fulcio |-> f, pki |-> nested.pki]
      BY <2>1, <3>2 DEF f
    <3> QED BY <2>0, <2>1, <2>5, <3>3, <3>4, <3>5, SetKeeps
  <2>6. CASE key = "pki"
    <3>1. PICK keys \in SUBSET Config!PKIKeys :
            \E o \in [keys -> NestedValues] :
              /\ Config!newPRSigstoreSignedPKI(Config!DecodeObject(o)) /\ Config!Set(key, "set")
              /\ nested' = [nested EXCEPT !.pki = Config!DecodeObject(o)]
      BY <1>2, <2>6 DEF Config!ReadMember
    <3>2. PICK o \in [keys -> NestedValues] :
            /\ Config!newPRSigstoreSignedPKI(Config!DecodeObject(o)) /\ Config!Set(key, "set")
            /\ nested' = [nested EXCEPT !.pki = Config!DecodeObject(o)]
      BY <3>1
    <3> DEFINE p == Config!DecodeObject(o)
    <3>3. DOMAIN p \subseteq Config!PKIKeys /\ \A k \in DOMAIN p : p[k] \in Decoded
      BY DecodedValues
    <3>4. Config!newPRSigstoreSignedPKI(p) /\ Config!Set(key, "set") /\ "set" \in Decoded
      BY <3>2 DEF Decoded
    <3> HIDE DEF p
    <3>5. nested' = [fulcio |-> nested.fulcio, pki |-> p]
      BY <2>1, <3>2 DEF p
    <3> QED BY <2>0, <2>1, <2>6, <3>3, <3>4, <3>5, SetKeeps
  <2>7. CASE key \notin {"signedIdentity", "baseLayerIdentity", "keyType", "fulcio", "pki"}
    <3>1. PICK v \in Config!Values : Config!Set(key, Config!Decode(key, v)) /\ UNCHANGED nested
      BY <1>2, <2>7 DEF Config!ReadMember
    <3>2. Config!Decode(key, v) \in Decoded
      BY <3>1, DecodedValues
    <3> QED BY <2>2, <2>7, <3>1, <3>2
  <2> QED BY <2>3, <2>4, <2>5, <2>6, <2>7
<1> QED BY <1>1, <1>2

(* Every step of reading and using a policy keeps its invariant.           *)
LEMMA PolicyNext == PolicyInvariant /\ Config!Next => PolicyInvariant'
<1> SUFFICES ASSUME PolicyInvariant, Config!Next PROVE PolicyInvariant'
  OBVIOUS
<1>1. CASE \/ \E explicit, userExists, rooted, systemExists \in BOOLEAN : Config!Locate(explicit, userExists, rooted, systemExists)
           \/ Config!Malformed
           \/ \E s \in Config!Sections, validScope \in BOOLEAN : Config!OpenSection(s, validScope)
           \/ Config!CloseSection \/ Config!CloseObject
  BY <1>1, SectionsKeep
<1>2. CASE (\E k \in Config!Kinds \union {"other"} : Config!OpenRequirement(k)) \/ Config!CloseRequirement
  BY <1>2, RequirementsKeep
<1>3. CASE \E key : Config!ReadMember(key)
  BY <1>3, MembersKeep
<1>4. CASE \E readable, parsable \in BOOLEAN : Config!Use(readable, parsable)
  BY <1>4, UseIsConsistent
<1> QED BY <1>1, <1>2, <1>3, <1>4, Zenon DEF Config!Next

(* A step of another part of the run leaves the policy alone.              *)
LEMMA PolicyStutter == PolicyInvariant /\ UNCHANGED policyVars => PolicyInvariant'
BY DEF PolicyInvariant, PolicyTypes, NestedAreConstructed, SectionsAreFilled, policyVars,
       Config!TypeOK, Config!constructed, Config!TrustIsComplete

(* The invariant says what PolicyIsConsistent does.                        *)
LEMMA PolicyFollows == PolicyInvariant => Config!PolicyIsConsistent
<1> SUFFICES ASSUME PolicyInvariant PROVE Config!PolicyIsConsistent
  OBVIOUS
<1>1. Config!ListsAreNotEmpty
  BY DEF PolicyInvariant, SectionsAreFilled, Config!ListsAreNotEmpty
<1> QED BY <1>1 DEF PolicyInvariant, PolicyTypes, Config!PolicyIsConsistent

(* A policy the reader accepts never meets an internal inconsistency when  *)
(* it is used (policy_config.go against policy_eval_sigstore.go and        *)
(* policy_eval_signedby.go), whatever its members, in whatever order, and  *)
(* however many requirements and sections it has.                          *)
THEOREM PolicyConsistent == Spec => []PolicyIsConsistent
<1> DEFINE Inv == part = "policy" => PolicyInvariant
<1>1. Init => Inv
  BY PolicyInitially DEF Init, policyInit
<1>2. Inv /\ [Next]_vars => Inv'
  <2> SUFFICES ASSUME Inv, [Next]_vars, part' = "policy" PROVE PolicyInvariant'
    OBVIOUS
  <2>1. CASE UNCHANGED <<part, policyVars>>
    BY <2>1, PolicyStutter
  <2>2. CASE PolicyStep
    BY <2>2, PolicyNext DEF PolicyStep
  <2>3. CASE BlobStep \/ ImageStep \/ ListStep \/ DecisionStep \/ MayStop \/ UNCHANGED vars
    <3>1. UNCHANGED <<part, policyVars>>
      BY <2>3 DEF BlobStep, ImageStep, ListStep, DecisionStep, MayStop, vars
    <3> QED BY <2>1, <3>1
  <2> QED BY <2>2, <2>3 DEF Next
<1>3. Inv => PolicyIsConsistent
  BY PolicyFollows DEF PolicyIsConsistent
<1> QED BY <1>1, <1>2, <1>3, PTL DEF Spec
-----------------------------------------------------------------------------
(* Copying an image.  Each layer at the destination is what its edit makes *)
(* of the source's layer; the manifest updates apply the same edits, in    *)
(* whatever order the conversion between formats needs; and the formats    *)
(* tried are the candidates at the places passed so far.                   *)

(* What an edit makes of a layer's compression and encryption.             *)
EditComp(comp, e) ==
  IF e.op = "decompress" THEN "none"
  ELSE IF e.algorithm = NoAlgorithm THEN comp ELSE BaseVariantName(e.algorithm)
EditEnc(enc, e) == (enc /\ e.crypto # "decrypt") \/ e.crypto = "encrypt"

Edited(mt, e, b) == b.comp = EditComp(mt.comp, e) /\ b.enc = EditEnc(mt.enc, e)

(* A media type that updatedMIMEType returns says what the edit does.      *)
LEMMA MediaTypeIsEdited ==
  ASSUME NEW F \in ImageFormats, ~Single!isSchema1(F), NEW mt \in MediaTypes, NEW e \in Edits,
         Single!updatedMIMEType(F, mt, e).ok
  PROVE  LET new == Single!updatedMIMEType(F, mt, e).value
         IN new \in MediaTypes /\ new.comp = EditComp(mt.comp, e) /\ new.enc = mt.enc
            /\ (F = V2S2 /\ mt.comp # "zstd" => new.comp # "zstd")
BY DEF Single!updatedMIMEType, Single!compressionVariantMIMEType, Single!SupportedVariants,
  Single!BaseVariantName, Single!NoAlgorithm, Single!Ok, Single!Error, Single!Incompatible,
  EditComp, BaseVariantName, NoAlgorithm, MediaTypes, Edits, Algorithms, ImageFormats,
  Single!isSchema1, Single!V2S1, Single!V2S1Signed, Single!OCI, V2S1, V2S1Signed, V2S2, OCI

(* Docker's schema2 has no encrypted layers.                               *)
LEMMA LayerOfSchema2 ==
  ASSUME NEW mt \in MediaTypes, NEW e \in Edits, Single!UpdateLayerInfo(V2S2, mt, e).ok
  PROVE  LET new == Single!UpdateLayerInfo(V2S2, mt, e).value
         IN new \in MediaTypes /\ Edited(mt, e, new)
<1>1. V2S2 \in ImageFormats /\ ~Single!isSchema1(V2S2) /\ V2S2 # Single!OCI
  BY DEF ImageFormats, Single!isSchema1, Single!V2S1, Single!V2S1Signed, Single!OCI, V2S1, V2S1Signed, V2S2, OCI
<1> DEFINE u == Single!updatedMIMEType(V2S2, mt, e)
<1>2. Single!UpdateLayerInfo(V2S2, mt, e) = IF u.ok THEN IF e.crypto # "preserve" THEN Single!Error ELSE Single!Ok(u.value) ELSE u
  BY <1>1 DEF Single!UpdateLayerInfo, Single!AndThen
<1>3. u.ok
  BY <1>2
<1>4. e.crypto = "preserve"
  BY <1>2, <1>3 DEF Single!Error
<1>5. Single!UpdateLayerInfo(V2S2, mt, e).value = u.value
  BY <1>2, <1>3, <1>4 DEF Single!Ok
<1>6. u.value \in MediaTypes /\ u.value.comp = EditComp(mt.comp, e) /\ u.value.enc = mt.enc
  BY <1>3, <1>1, MediaTypeIsEdited
<1>7. mt.enc \in BOOLEAN
  BY DEF MediaTypes
<1> QED BY <1>4, <1>5, <1>6, <1>7 DEF Edited, EditEnc

(* OCI's layers are decrypted before and encrypted after the change of     *)
(* their compression.                                                      *)
LEMMA LayerOfOCI ==
  ASSUME NEW mt \in MediaTypes, NEW e \in Edits, Single!UpdateLayerInfo(OCI, mt, e).ok
  PROVE  LET new == Single!UpdateLayerInfo(OCI, mt, e).value
         IN new \in MediaTypes /\ Edited(mt, e, new)
<1>1. OCI \in ImageFormats /\ ~Single!isSchema1(OCI) /\ OCI = Single!OCI
  BY DEF ImageFormats, Single!isSchema1, Single!V2S1, Single!V2S1Signed, Single!OCI, V2S1, V2S1Signed, V2S2, OCI
<1>2. PICK plain : plain = [mt EXCEPT !.enc = @ /\ e.crypto # "decrypt"]
  OBVIOUS
<1>3. /\ plain \in MediaTypes /\ plain.comp = mt.comp
      /\ plain.enc = (mt.enc /\ e.crypto # "decrypt")
  <2>1. mt.enc \in BOOLEAN
    BY DEF MediaTypes
  <2>2. (mt.enc /\ e.crypto # "decrypt") \in BOOLEAN
    OBVIOUS
  <2>3. PICK v \in BOOLEAN : v = (mt.enc /\ e.crypto # "decrypt")
    BY <2>2
  <2>4. plain = [mt EXCEPT !.enc = v]
    BY <1>2, <2>3
  <2> QED BY <2>3, <2>4 DEF MediaTypes
<1> DEFINE u == Single!updatedMIMEType(OCI, plain, e)
<1>4. ~(e.crypto = "decrypt" /\ ~mt.enc)
  BY <1>1 DEF Single!UpdateLayerInfo, Single!Error
<1>5. Single!UpdateLayerInfo(OCI, mt, e) =
        IF u.ok THEN IF e.crypto # "encrypt" THEN Single!Ok(u.value)
                     ELSE IF u.value.enc THEN Single!Error ELSE Single!Ok([u.value EXCEPT !.enc = TRUE])
        ELSE u
  BY <1>1, <1>2, <1>4 DEF Single!UpdateLayerInfo, Single!AndThen
<1>6. u.ok
  BY <1>5
<1>7. u.value \in MediaTypes /\ u.value.comp = EditComp(plain.comp, e) /\ u.value.enc = plain.enc
  BY <1>3, <1>6, <1>1, MediaTypeIsEdited
<1>8. CASE e.crypto # "encrypt"
  <2>1. Single!UpdateLayerInfo(OCI, mt, e).value = u.value
    BY <1>5, <1>6, <1>8 DEF Single!Ok
  <2>2. u.value.enc = EditEnc(mt.enc, e)
    BY <1>3, <1>7, <1>8 DEF EditEnc
  <2> QED BY <2>1, <2>2, <1>7, <1>3 DEF Edited
<1>9. CASE e.crypto = "encrypt"
  <2>1. ~u.value.enc
    BY <1>5, <1>6, <1>9 DEF Single!Error
  <2>2. Single!UpdateLayerInfo(OCI, mt, e).value = [u.value EXCEPT !.enc = TRUE]
    BY <1>5, <1>6, <1>9, <2>1 DEF Single!Ok
  <2>3. /\ [u.value EXCEPT !.enc = TRUE] \in MediaTypes
        /\ [u.value EXCEPT !.enc = TRUE].comp = u.value.comp
        /\ [u.value EXCEPT !.enc = TRUE].enc = TRUE
    BY <1>7 DEF MediaTypes
  <2>4. EditEnc(mt.enc, e) = TRUE
    BY <1>9 DEF EditEnc
  <2> QED BY <2>2, <2>3, <2>4, <1>7, <1>3 DEF Edited
<1> QED BY <1>8, <1>9

(* A layer in schema1 is not encrypted, and only uncompressed or gzip.     *)
LEMMA LayerOfSchema1 ==
  ASSUME NEW F \in ImageFormats, Single!isSchema1(F), NEW e \in Edits,
         Single!UpdateLayerInfo(F, NoMediaType, e).ok
  PROVE  /\ e.crypto = "preserve"
         /\ \A comp \in {"none", "gzip"} : EditComp(comp, e) \in {"none", "gzip"}
<1>1. F # Single!OCI
  BY DEF ImageFormats, Single!isSchema1, Single!V2S1, Single!V2S1Signed, Single!OCI, V2S1, V2S1Signed, V2S2, OCI
<1> DEFINE u == Single!updatedMIMEType(F, NoMediaType, e)
<1>2. Single!UpdateLayerInfo(F, NoMediaType, e) =
        IF u.ok THEN IF e.crypto # "preserve" THEN Single!Error ELSE Single!Ok(u.value) ELSE u
  BY <1>1 DEF Single!UpdateLayerInfo, Single!AndThen
<1>3. u.ok
  BY <1>2
<1>4. e.crypto = "preserve"
  BY <1>2, <1>3 DEF Single!Error
<1>5. \A comp \in {"none", "gzip"} : EditComp(comp, e) \in {"none", "gzip"}
  BY <1>3, <1>1 DEF Single!updatedMIMEType, Single!compressionVariantMIMEType, Single!SupportedVariants,
    Single!BaseVariantName, Single!NoAlgorithm, Single!Ok, Single!Error, Single!Incompatible,
    EditComp, BaseVariantName, NoAlgorithm, NoMediaType, Edits, Algorithms
<1> QED BY <1>4, <1>5

(* Edits that are all applied are applied one by one.                      *)
LEMMA LayersAreUpdated ==
  ASSUME NEW F, NEW S, NEW layers \in Seq(S), NEW edits, Single!UpdateLayerInfos(F, layers, edits).ok
  PROVE  /\ \A i \in DOMAIN layers : Single!UpdateLayerInfo(F, layers[i], edits[i]).ok
         /\ Single!UpdateLayerInfos(F, layers, edits).value =
              [i \in DOMAIN layers |-> Single!UpdateLayerInfo(F, layers[i], edits[i]).value]
<1>1. PICK results : results = [i \in DOMAIN layers |-> Single!UpdateLayerInfo(F, layers[i], edits[i])]
  OBVIOUS
<1>2. Single!UpdateLayerInfos(F, layers, edits) = Single!Collect(results)
  BY <1>1 DEF Single!UpdateLayerInfos
<1>3. \A i \in DOMAIN results : results[i].ok
  <2> SUFFICES ASSUME ~\A i \in DOMAIN results : results[i].ok PROVE FALSE
    OBVIOUS
  <2>1. Single!Collect(results) = results[CHOOSE i \in DOMAIN results :
                 ~results[i].ok /\ \A j \in 1..(i - 1) : results[j].ok]
    BY DEF Single!Collect
  <2>2. PICK n \in Nat : DOMAIN results = 1..n
    BY <1>1
  <2> DEFINE bad == {i \in DOMAIN results : ~results[i].ok}
  <2>3. bad \subseteq Nat /\ bad # {}
    BY <2>2
  <2>4. PICK i \in bad : \A j \in bad : i <= j
    BY <2>3, LeastElement
  <2>5. \A j \in 1..(i - 1) : results[j].ok
    <3> SUFFICES ASSUME NEW j \in 1..(i - 1), ~results[j].ok PROVE FALSE
      OBVIOUS
    <3>1. j \in bad
      BY <2>2
    <3>2. i <= j
      BY <3>1, <2>4
    <3>3. i \in Nat /\ j \in Nat /\ j <= i - 1
      BY <2>2
    <3> HIDE DEF bad
    <3> QED BY <3>2, <3>3
  <2>6. \E k \in DOMAIN results : ~results[k].ok /\ \A j \in 1..(k - 1) : results[j].ok
    BY <2>5
  <2> QED BY <2>1, <2>6, <1>2
<1>4. Single!Collect(results) = Single!Ok([i \in DOMAIN results |-> results[i].value])
  BY <1>3 DEF Single!Collect
<1>5. Single!UpdateLayerInfos(F, layers, edits).value = [i \in DOMAIN results |-> results[i].value]
  BY <1>2, <1>4 DEF Single!Ok
<1> QED BY <1>1, <1>3, <1>5

(* The layers bs as the edits, if any, make them from the layers bl.       *)
EditsMake(bl, edits, bs) ==
  \A i \in DOMAIN bl :
    /\ edits = NoEdits => bs[i].comp = bl[i].comp /\ bs[i].enc = bl[i].enc
    /\ edits # NoEdits => edits[i] \in Edits /\ Edited(bl[i], edits[i], bs[i])

(* layers are the descriptions, in a manifest of format F, of layers bs.   *)
Described(F, layers, bs) ==
  \A i \in DOMAIN layers :
    IF Single!isSchema1(F) THEN bs[i].comp # "zstd" /\ ~bs[i].enc
    ELSE layers[i].comp = bs[i].comp /\ layers[i].enc = bs[i].enc

(* Schema1 layers are gzip.                                                *)
Base(mt) == IF mt = NoMediaType THEN [foreign |-> FALSE, comp |-> "gzip", enc |-> FALSE] ELSE mt
Bases(layers) == [i \in DOMAIN layers |-> Base(layers[i])]

LayersFit(F, layers, bl) ==
  /\ DOMAIN bl = DOMAIN layers
  /\ \A i \in DOMAIN layers :
       IF Single!isSchema1(F)
       THEN layers[i] = NoMediaType /\ bl[i].comp \in {"none", "gzip"} /\ bl[i].enc = FALSE
       ELSE layers[i] \in MediaTypes /\ bl[i] = layers[i]

UpdateWith(F, layers, edits) ==
  IF edits = Single!NoEdits THEN Single!Ok(layers) ELSE Single!UpdateLayerInfos(F, layers, edits)

(* UpdateLayerInfos describes the edited layers, in every format.          *)
LEMMA UpdateDescribes ==
  ASSUME NEW F \in ImageFormats, NEW S, NEW layers \in Seq(S), NEW bl, NEW bs, NEW edits,
         LayersFit(F, layers, bl), EditsMake(bl, edits, bs),
         UpdateWith(F, layers, edits).ok
  PROVE  /\ DOMAIN UpdateWith(F, layers, edits).value = DOMAIN layers
         /\ Described(F, UpdateWith(F, layers, edits).value, bs)
<1>1. CASE edits = NoEdits
  <2>1. UpdateWith(F, layers, edits).value = layers
    BY <1>1 DEF UpdateWith, NoEdits, Single!NoEdits, Single!Ok
  <2>2. ASSUME NEW i \in DOMAIN layers
        PROVE IF Single!isSchema1(F) THEN bs[i].comp # "zstd" /\ ~bs[i].enc
              ELSE layers[i].comp = bs[i].comp /\ layers[i].enc = bs[i].enc
    <3>1. bs[i].comp = bl[i].comp /\ bs[i].enc = bl[i].enc
      BY <1>1 DEF EditsMake, LayersFit
    <3>2. CASE Single!isSchema1(F)
      <4>1. bl[i].comp \in {"none", "gzip"} /\ bl[i].enc = FALSE
        BY <3>2 DEF LayersFit
      <4> QED BY <4>1, <3>1, <3>2
    <3>3. CASE ~Single!isSchema1(F)
      <4>1. bl[i] = layers[i]
        BY <3>3 DEF LayersFit
      <4> QED BY <4>1, <3>1, <3>3
    <3> QED BY <3>2, <3>3
  <2> QED BY <2>1, <2>2 DEF Described
<1>2. CASE edits # NoEdits
  <2>1. UpdateWith(F, layers, edits) = Single!UpdateLayerInfos(F, layers, edits)
    BY <1>2 DEF UpdateWith, NoEdits, Single!NoEdits
  <2>2. PICK new : new = UpdateWith(F, layers, edits).value
    OBVIOUS
  <2>3. /\ \A i \in DOMAIN layers : Single!UpdateLayerInfo(F, layers[i], edits[i]).ok
        /\ new = [i \in DOMAIN layers |-> Single!UpdateLayerInfo(F, layers[i], edits[i]).value]
    BY <2>1, <2>2, LayersAreUpdated
  <2>4. ASSUME NEW i \in DOMAIN layers
        PROVE IF Single!isSchema1(F) THEN bs[i].comp # "zstd" /\ ~bs[i].enc
              ELSE new[i].comp = bs[i].comp /\ new[i].enc = bs[i].enc
    <3>1. edits[i] \in Edits /\ Edited(bl[i], edits[i], bs[i])
      BY <1>2 DEF EditsMake, LayersFit
    <3>2. CASE Single!isSchema1(F)
      <4>1. layers[i] = NoMediaType /\ bl[i].comp \in {"none", "gzip"} /\ bl[i].enc = FALSE
        BY <3>2 DEF LayersFit
      <4>2. edits[i].crypto = "preserve" /\ EditComp(bl[i].comp, edits[i]) \in {"none", "gzip"}
        BY <4>1, <3>1, <2>3, <3>2, LayerOfSchema1
      <4>3. EditEnc(bl[i].enc, edits[i]) = FALSE
        BY <4>1, <4>2 DEF EditEnc
      <4> QED BY <4>2, <4>3, <3>1, <3>2 DEF Edited
    <3>3. CASE ~Single!isSchema1(F)
      <4>1. layers[i] \in MediaTypes /\ bl[i] = layers[i]
        BY <3>3 DEF LayersFit
      <4>2. F \in {OCI, V2S2}
        BY <3>3 DEF ImageFormats, Single!isSchema1, Single!V2S1, Single!V2S1Signed, V2S1, V2S1Signed
      <4>3. Edited(layers[i], edits[i], Single!UpdateLayerInfo(F, layers[i], edits[i]).value)
        BY <4>1, <4>2, <3>1, <2>3, LayerOfOCI, LayerOfSchema2
      <4>4. Edited(layers[i], edits[i], new[i])
        BY <4>3, <2>3
      <4> QED BY <4>4, <4>1, <3>1, <3>3 DEF Edited
    <3> QED BY <3>2, <3>3
  <2> QED BY <2>2, <2>3, <2>4 DEF Described
<1> QED BY <1>1, <1>2

(* A source manifest and the edits of a copy that stored layers bs.        *)
ImageFits(image) ==
  /\ image.format \in ImageFormats
  /\ image.layers \in Seq(MediaTypes \cup {NoMediaType})
  /\ \A i \in DOMAIN image.layers :
       /\ Single!isSchema1(image.format) <=> image.layers[i] = NoMediaType
       /\ image.format = V2S2 => ~image.layers[i].enc /\ image.layers[i].comp # "zstd"

EditsFit(layers, edits) == edits = NoEdits \/ DOMAIN edits = DOMAIN layers

(* Layers schema2 can describe.                                            *)
PlainTypes == {mt \in MediaTypes : mt.comp # "zstd" /\ mt.enc = FALSE}

(* The edits made before and after a conversion add up to the edits.       *)
LEMMA EditsAddUp ==
  ASSUME NEW mt \in MediaTypes, NEW e \in Edits, NEW early \in MediaTypes, NEW b,
         Edited(mt, Single!EarlyEdit(mt, e), early), early.comp # "zstd", Edited(mt, e, b)
  PROVE  /\ Single!EarlyEdit(mt, e) \in Edits /\ Single!LateEdit(mt, e) \in Edits
         /\ Edited(early, Single!LateEdit(mt, e), b)
<1>1. Single!EarlyEdit(mt, e) \in Edits /\ Single!LateEdit(mt, e) \in Edits
  BY DEF Single!EarlyEdit, Single!LateEdit, Edits, Single!NoAlgorithm, NoAlgorithm
<1>2. b.comp = EditComp(early.comp, Single!LateEdit(mt, e))
  BY DEF Edited, EditComp, Single!EarlyEdit, Single!LateEdit, Edits, MediaTypes, Single!NoAlgorithm, NoAlgorithm
<1>3. e.crypto \in {"preserve", "encrypt", "decrypt"} /\ mt.enc \in BOOLEAN /\ early.enc \in BOOLEAN
  BY DEF Edits, MediaTypes
<1>4. /\ Single!EarlyEdit(mt, e).crypto = (IF e.crypto = "decrypt" THEN "decrypt" ELSE "preserve")
      /\ Single!LateEdit(mt, e).crypto = (IF e.crypto = "decrypt" THEN "preserve" ELSE e.crypto)
  BY DEF Single!EarlyEdit, Single!LateEdit
<1>5. b.enc = EditEnc(mt.enc, e) /\ early.enc = EditEnc(mt.enc, Single!EarlyEdit(mt, e))
  BY DEF Edited
<1>6. b.enc = EditEnc(early.enc, Single!LateEdit(mt, e))
  <2>1. CASE e.crypto = "decrypt"
    <3>1. b.enc = FALSE /\ early.enc = FALSE
      BY <2>1, <1>4, <1>5 DEF EditEnc
    <3>2. EditEnc(FALSE, Single!LateEdit(mt, e)) = FALSE
      BY <2>1, <1>4 DEF EditEnc
    <3> QED BY <3>1, <3>2
  <2>2. CASE e.crypto = "encrypt"
    <3>1. b.enc = TRUE
      BY <2>2, <1>5 DEF EditEnc
    <3>2. EditEnc(early.enc, Single!LateEdit(mt, e)) = TRUE
      BY <2>2, <1>4 DEF EditEnc
    <3> QED BY <3>1, <3>2
  <2>3. CASE e.crypto = "preserve"
    <3>1. b.enc = mt.enc /\ early.enc = mt.enc
      BY <2>3, <1>3, <1>4, <1>5 DEF EditEnc
    <3>2. EditEnc(mt.enc, Single!LateEdit(mt, e)) = mt.enc
      BY <2>3, <1>3, <1>4 DEF EditEnc
    <3> QED BY <3>1, <3>2
  <2> QED BY <1>3, <2>1, <2>2, <2>3
<1> QED BY <1>1, <1>2, <1>6 DEF Edited

(* What OCIToSchema2 converts, after the early edits, are layers schema2   *)
(* can describe, and the late edits turn them into the stored ones.        *)
LEMMA FromOCI ==
  ASSUME NEW artifact, NEW layers \in Seq(MediaTypes), NEW edits \in Seq(Edits), NEW bs,
         EditsFit(layers, edits), EditsMake(layers, edits, bs),
         Single!OCIToSchema2(artifact, layers, edits).ok
  PROVE  LET v == Single!OCIToSchema2(artifact, layers, edits).value
         IN /\ v.layers \in Seq(PlainTypes) /\ DOMAIN v.layers = DOMAIN layers
            /\ EditsMake(v.layers, v.edits, bs)
<1> DEFINE first == [i \in DOMAIN edits |-> Single!EarlyEdit(layers[i], edits[i])]
           last == [i \in DOMAIN edits |-> Single!LateEdit(layers[i], edits[i])]
<1>1. PICK e0 : e0 = IF edits = Single!NoEdits THEN Single!Ok(layers)
                     ELSE Single!UpdateLayerInfos(Single!OCI, layers, first)
  OBVIOUS
<1>2. ~artifact
  BY DEF Single!OCIToSchema2, Single!Error
<1>3. PICK early : early = e0.value
  OBVIOUS
<1>4. Single!OCIToSchema2(artifact, layers, edits) =
        IF e0.ok THEN IF \E i \in DOMAIN early : early[i].enc \/ early[i].comp = "zstd" THEN Single!Error
                      ELSE Single!Converted(early, last)
        ELSE e0
  <2> HIDE DEF first, last
  <2>1. Single!OCIToSchema2(artifact, layers, edits) =
        Single!AndThen(e0, LAMBDA x : IF \E i \in DOMAIN x : x[i].enc \/ x[i].comp = "zstd" THEN Single!Error
                      ELSE Single!Converted(x, last))
    BY <1>1, <1>2 DEF Single!OCIToSchema2, first, last
  <2> QED BY <2>1, <1>3 DEF Single!AndThen
<1>5. e0.ok
  BY <1>4
<1>6. ~\E i \in DOMAIN early : early[i].enc \/ early[i].comp = "zstd"
  BY <1>4, <1>5 DEF Single!Error
<1>7. PICK v : v = Single!OCIToSchema2(artifact, layers, edits).value
  OBVIOUS
<1>8. v.layers = early /\ v.edits = last
  <2> HIDE DEF last
  <2> QED BY <1>4, <1>5, <1>6, <1>7 DEF Single!Converted, Single!Ok
<1>9. /\ DOMAIN early = DOMAIN layers
      /\ \A i \in DOMAIN layers : early[i] \in MediaTypes
      /\ early = [i \in DOMAIN layers |-> early[i]]
      /\ EditsMake(early, last, bs)
  <2>1. CASE edits = NoEdits
    <3>1. early = layers
      BY <1>1, <1>3, <2>1 DEF NoEdits, Single!NoEdits, Single!Ok
    <3>2. last = NoEdits
      BY <2>1 DEF NoEdits
    <3>3. layers = [i \in DOMAIN layers |-> layers[i]] /\ \A i \in DOMAIN layers : layers[i] \in MediaTypes
      OBVIOUS
    <3> HIDE DEF last
    <3> QED BY <2>1, <3>1, <3>2, <3>3
  <2>2. CASE edits # NoEdits
    <3>1. DOMAIN edits = DOMAIN layers
      BY <2>2 DEF EditsFit
    <3>2. e0 = Single!UpdateLayerInfos(Single!OCI, layers, first)
      BY <1>1, <2>2 DEF NoEdits, Single!NoEdits
    <3>3. /\ \A i \in DOMAIN layers : Single!UpdateLayerInfo(Single!OCI, layers[i], first[i]).ok
          /\ early = [i \in DOMAIN layers |-> Single!UpdateLayerInfo(Single!OCI, layers[i], first[i]).value]
      <4>1. PICK f : f = first
        OBVIOUS
      <4>2. Single!UpdateLayerInfos(Single!OCI, layers, f).ok
        BY <3>2, <1>5, <4>1
      <4>3. early = Single!UpdateLayerInfos(Single!OCI, layers, f).value
        BY <3>2, <1>3, <4>1
      <4> HIDE DEF first
      <4>4. /\ \A i \in DOMAIN layers : Single!UpdateLayerInfo(Single!OCI, layers[i], f[i]).ok
            /\ early = [i \in DOMAIN layers |-> Single!UpdateLayerInfo(Single!OCI, layers[i], f[i]).value]
        <5>1. PICK F : F = Single!OCI
          OBVIOUS
        <5>2. PICK S : S = MediaTypes
          OBVIOUS
        <5>3. layers \in Seq(S) /\ Single!UpdateLayerInfos(F, layers, f).ok
              /\ early = Single!UpdateLayerInfos(F, layers, f).value
          BY <4>2, <4>3, <5>1, <5>2
        <5>4. /\ \A i \in DOMAIN layers : Single!UpdateLayerInfo(F, layers[i], f[i]).ok
              /\ early = [i \in DOMAIN layers |-> Single!UpdateLayerInfo(F, layers[i], f[i]).value]
          BY <5>3, LayersAreUpdated
        <5> QED BY <5>1, <5>4
      <4> QED BY <4>1, <4>4
    <3>4. Single!OCI = OCI
      BY DEF Single!OCI, OCI
    <3>5. last # NoEdits
      <4>1. Len(edits) # 0
        BY <2>2, EmptySeq DEF NoEdits
      <4>2. 1 \in DOMAIN last
        BY <4>1, LenProperties
      <4> QED BY <4>2 DEF NoEdits
    <3>6. ASSUME NEW i \in DOMAIN layers
          PROVE  early[i] \in MediaTypes /\ last[i] \in Edits /\ Edited(early[i], last[i], bs[i])
      <4>1. edits[i] \in Edits /\ layers[i] \in MediaTypes /\ Edited(layers[i], edits[i], bs[i])
        BY <2>2, <3>1 DEF EditsMake
      <4>2. first[i] = Single!EarlyEdit(layers[i], edits[i]) /\ last[i] = Single!LateEdit(layers[i], edits[i])
        BY <3>1
      <4>3. first[i] \in Edits
        BY <4>1, <4>2 DEF Single!EarlyEdit, Edits, Single!NoAlgorithm, NoAlgorithm
      <4> HIDE DEF first, last
      <4>4. early[i] \in MediaTypes /\ Edited(layers[i], first[i], early[i])
        BY <3>3, <3>4, <4>1, <4>3, LayerOfOCI
      <4>5. early[i].comp # "zstd"
        BY <1>6, <3>3
      <4> QED BY <4>1, <4>2, <4>4, <4>5, EditsAddUp
    <3>7. early = [i \in DOMAIN layers |-> early[i]]
      BY <3>3
    <3> HIDE DEF first, last
    <3> QED BY <3>3, <3>5, <3>6, <3>7 DEF EditsMake
  <2> QED BY <2>1, <2>2
<1>10. early \in Seq(PlainTypes)
  <2>1. \A i \in DOMAIN layers : early[i] \in PlainTypes
    BY <1>6, <1>9 DEF PlainTypes, MediaTypes
  <2>2. PICK n \in Nat : DOMAIN layers = 1..n
    BY LenProperties
  <2>3. early \in [1..n -> PlainTypes]
    BY <2>1, <2>2, <1>9
  <2> QED BY <2>3
<1> HIDE DEF last
<1> QED BY <1>7, <1>8, <1>9, <1>10

(* The layers of a manifest with media types are their own description.    *)
LEMMA BasesOfTyped ==
  ASSUME NEW image, ImageFits(image), ~Single!isSchema1(image.format)
  PROVE  image.layers \in Seq(MediaTypes) /\ Bases(image.layers) = image.layers
<1>1. PICK layers \in Seq(MediaTypes \cup {NoMediaType}) : layers = image.layers
  BY DEF ImageFits
<1>2. \A i \in DOMAIN layers : layers[i] # NoMediaType
  BY <1>1 DEF ImageFits
<1>3. \A i \in DOMAIN layers : layers[i] \in MediaTypes
  BY <1>1, <1>2
<1>4. layers \in Seq(MediaTypes)
  BY <1>1, <1>3
<1>5. Bases(layers) = layers
  BY <1>1, <1>2 DEF Bases, Base
<1> QED BY <1>1, <1>4, <1>5

(* Every conversion starts from layers schema2 can describe.               *)
LEMMA ThroughSchema2 ==
  ASSUME NEW image, NEW edits \in Seq(Edits), NEW bs, ImageFits(image),
         EditsFit(image.layers, edits), EditsMake(Bases(image.layers), edits, bs),
         Single!ConvertToSchema2(image, edits).ok
  PROVE  LET v == Single!ConvertToSchema2(image, edits).value
         IN /\ v.layers \in Seq(PlainTypes) /\ DOMAIN v.layers = DOMAIN image.layers
            /\ EditsMake(v.layers, v.edits, bs)
<1>0. image.format \in {OCI, V2S2} \/ Single!isSchema1(image.format)
  BY DEF ImageFits, ImageFormats, Single!isSchema1, Single!V2S1, Single!V2S1Signed, V2S1, V2S1Signed
<1>1. ~Single!isSchema1(OCI) /\ ~Single!isSchema1(V2S2) /\ OCI # V2S2 /\ Single!OCI = OCI
  BY DEF Single!isSchema1, Single!V2S1, Single!V2S1Signed, Single!OCI, OCI, V2S2
<1>2. PICK v : v = Single!ConvertToSchema2(image, edits).value
  OBVIOUS
<1>3. PICK layers : layers = image.layers
  OBVIOUS
<1>4. CASE image.format = OCI
  <2>1. layers \in Seq(MediaTypes) /\ Bases(layers) = layers
    BY <1>1, <1>3, <1>4, BasesOfTyped
  <2>2. Single!ConvertToSchema2(image, edits) = Single!OCIToSchema2(image.artifact, layers, edits)
    BY <1>1, <1>3, <1>4 DEF Single!ConvertToSchema2
  <2>3. PICK artifact : artifact = image.artifact
    OBVIOUS
  <2>4. EditsFit(layers, edits) /\ EditsMake(layers, edits, bs) /\ Single!OCIToSchema2(artifact, layers, edits).ok
    BY <1>3, <2>1, <2>2, <2>3
  <2>5. v = Single!OCIToSchema2(artifact, layers, edits).value
    BY <1>2, <2>2, <2>3
  <2>6. v.layers \in Seq(PlainTypes) /\ DOMAIN v.layers = DOMAIN layers /\ EditsMake(v.layers, v.edits, bs)
    BY <2>1, <2>4, <2>5, FromOCI
  <2> QED BY <1>2, <1>3, <2>6
<1>5. CASE image.format = V2S2
  <2>1. layers \in Seq(MediaTypes) /\ Bases(layers) = layers
    BY <1>1, <1>3, <1>5, BasesOfTyped
  <2>2. v.layers = layers /\ v.edits = edits
    BY <1>1, <1>2, <1>3, <1>5 DEF Single!ConvertToSchema2, Single!Converted, Single!Ok
  <2>3. \A i \in DOMAIN layers : layers[i].comp # "zstd" /\ ~layers[i].enc
    BY <1>3, <1>5 DEF ImageFits
  <2>4. \A i \in DOMAIN layers : layers[i] \in PlainTypes
    <3> SUFFICES ASSUME NEW i \in DOMAIN layers PROVE layers[i] \in PlainTypes
      OBVIOUS
    <3>1. layers[i] \in MediaTypes /\ layers[i].comp # "zstd" /\ ~layers[i].enc
      BY <2>1, <2>3
    <3>2. layers[i].enc = FALSE
      BY <3>1 DEF MediaTypes
    <3> QED BY <3>1, <3>2 DEF PlainTypes
  <2>5. layers \in Seq(PlainTypes)
    BY <2>1, <2>4
  <2> QED BY <1>2, <1>3, <2>1, <2>2, <2>5
<1>6. CASE Single!isSchema1(image.format)
  <2>0. image.format # Single!OCI
    BY <1>1, <1>6
  <2>1. Single!ConvertToSchema2(image, edits) = Single!Schema1ToSchema2(layers, edits)
    BY <1>3, <1>6, <2>0 DEF Single!ConvertToSchema2
  <2>2. PICK gz : gz = [foreign |-> FALSE, comp |-> "gzip", enc |-> FALSE]
    OBVIOUS
  <2>3. v.layers = [i \in DOMAIN layers |-> gz] /\ v.edits = edits
    <3>1. PICK typed : typed = [i \in DOMAIN layers |-> gz]
      OBVIOUS
    <3>2. Single!Schema1ToSchema2(layers, edits) = Single!Converted(typed, edits)
      BY <2>2, <3>1 DEF Single!Schema1ToSchema2
    <3> QED BY <1>2, <2>1, <3>1, <3>2 DEF Single!Converted, Single!Ok
  <2>4. \A i \in DOMAIN layers : layers[i] = NoMediaType
    BY <1>3, <1>6 DEF ImageFits
  <2>5. Bases(layers) = v.layers
    BY <2>2, <2>3, <2>4 DEF Bases, Base
  <2>6. gz \in PlainTypes
    BY <2>2 DEF PlainTypes, MediaTypes
  <2>7. layers \in Seq(MediaTypes \cup {NoMediaType})
    BY <1>3 DEF ImageFits
  <2>8. v.layers \in Seq(PlainTypes) /\ DOMAIN v.layers = DOMAIN layers
    BY <2>3, <2>6, <2>7
  <2> QED BY <1>2, <1>3, <2>3, <2>5, <2>8
<1> QED BY <1>0, <1>4, <1>5, <1>6

ConvertedFormat(image, target) ==
  IF target = NoConversion \/ (Single!isSchema1(image.format) /\ Single!isSchema1(target))
  THEN image.format ELSE target

(* The layers and edits that UpdatedImage ends with fit the format it ends *)
(* with, and yield the stored layers.                                      *)
LEMMA ConversionFits ==
  ASSUME NEW image, NEW edits \in Seq(Edits), NEW bs, ImageFits(image),
         EditsFit(image.layers, edits), EditsMake(Bases(image.layers), edits, bs),
         NEW target \in ImageFormats, ~(Single!isSchema1(image.format) /\ Single!isSchema1(target)),
         Single!Convert(image, target, edits).ok
  PROVE  LET v == Single!Convert(image, target, edits).value
         IN \E bl : /\ LayersFit(target, v.layers, bl) /\ EditsMake(bl, v.edits, bs)
                    /\ DOMAIN v.layers = DOMAIN image.layers
                    /\ v.layers \in Seq(MediaTypes \cup {NoMediaType})
<1>1. target # image.format
  BY DEF Single!Convert, Single!Error
<1>2. PICK c : c = Single!ConvertToSchema2(image, edits)
  OBVIOUS
<1>3. PICK s : s = c.value
  OBVIOUS
<1>4. Single!Convert(image, target, edits) =
        Single!AndThen(c, LAMBDA schema2 : CASE target = Single!V2S2 -> Single!Ok(schema2)
             [] target = Single!OCI -> Single!Schema2ToOCI(schema2.layers, schema2.edits)
             [] Single!isSchema1(target) -> Single!Schema2ToSchema1(schema2.layers, schema2.edits))
  BY <1>1, <1>2, Zenon DEF Single!Convert
<1>5. c.ok
  BY <1>4 DEF Single!AndThen
<1>6. /\ s.layers \in Seq(PlainTypes) /\ DOMAIN s.layers = DOMAIN image.layers
      /\ EditsMake(s.layers, s.edits, bs)
  BY <1>2, <1>3, <1>5, ThroughSchema2
<1>7. PICK v : v = Single!Convert(image, target, edits).value
  OBVIOUS
<1>8. /\ Single!OCI = OCI /\ Single!V2S2 = V2S2 /\ OCI # V2S2
      /\ ~Single!isSchema1(OCI) /\ ~Single!isSchema1(V2S2)
      /\ target \in {OCI, V2S2} \/ Single!isSchema1(target)
  BY DEF ImageFormats, Single!isSchema1, Single!V2S1, Single!V2S1Signed, Single!OCI, Single!V2S2, V2S1, V2S1Signed, OCI, V2S2
<1>9. CASE target \in {OCI, V2S2}
  <2>1. v.layers = s.layers /\ v.edits = s.edits
    BY <1>3, <1>4, <1>5, <1>7, <1>8, <1>9 DEF Single!AndThen, Single!Schema2ToOCI, Single!Converted, Single!Ok
  <2>2. LayersFit(target, s.layers, s.layers)
    BY <1>6, <1>8, <1>9 DEF LayersFit, PlainTypes
  <2>3. s.layers \in Seq(MediaTypes \cup {NoMediaType})
    BY <1>6 DEF PlainTypes
  <2> QED BY <2>1, <2>2, <2>3, <1>6, <1>7
<1>10. CASE Single!isSchema1(target)
  <2>1. Single!Convert(image, target, edits) = Single!Schema2ToSchema1(s.layers, s.edits)
    BY <1>3, <1>4, <1>5, <1>8, <1>10 DEF Single!AndThen
  <2>2. v.layers = [i \in DOMAIN s.layers |-> NoMediaType] /\ v.edits = s.edits
    <3>1. PICK untyped : untyped = [i \in DOMAIN s.layers |-> NoMediaType]
      OBVIOUS
    <3>2. Single!NoMediaType = NoMediaType
      BY DEF Single!NoMediaType, NoMediaType
    <3>3. Single!Schema2ToSchema1(s.layers, s.edits) = Single!Converted(untyped, s.edits)
      BY <3>1, <3>2 DEF Single!Schema2ToSchema1
    <3> QED BY <2>1, <1>7, <3>1, <3>3 DEF Single!Converted, Single!Ok
  <2>3. \A i \in DOMAIN s.layers : s.layers[i] \in PlainTypes
    BY <1>6
  <2>4. LayersFit(target, v.layers, s.layers)
    BY <2>2, <2>3, <1>10 DEF LayersFit, PlainTypes, MediaTypes
  <2>5. v.layers \in Seq(MediaTypes \cup {NoMediaType})
    BY <1>6, <2>2
  <2> QED BY <2>2, <2>4, <2>5, <1>6, <1>7
<1> QED BY <1>8, <1>9, <1>10

(* UpdatedImage describes the layers that were stored, in the format asked *)
(* for.                                                                    *)
LEMMA UpdatedImageDescribes ==
  ASSUME NEW image, NEW edits \in Seq(Edits), NEW bs, ImageFits(image),
         EditsFit(image.layers, edits), EditsMake(Bases(image.layers), edits, bs),
         NEW target \in ImageFormats \cup {NoConversion},
         Single!UpdatedImage(image, target, edits).ok
  PROVE  LET new == Single!UpdatedImage(image, target, edits).value
         IN /\ new.format = ConvertedFormat(image, target)
            /\ DOMAIN new.layers = DOMAIN image.layers
            /\ Described(new.format, new.layers, bs)
<1>1. PICK F : F = ConvertedFormat(image, target)
  OBVIOUS
<1> DEFINE converts == target # NoConversion /\ ~(Single!isSchema1(image.format) /\ Single!isSchema1(target))
<1>2. F \in ImageFormats /\ F = IF converts THEN target ELSE image.format
  BY <1>1 DEF ImageFits, ConvertedFormat
<1>3. PICK c : c = IF converts THEN Single!Convert(image, target, edits)
                   ELSE Single!Converted(image.layers, edits)
  OBVIOUS
<1>4. PICK v : v = c.value
  OBVIOUS
<1>5. PICK u : u = UpdateWith(F, v.layers, v.edits)
  OBVIOUS
<1>6. Single!UpdatedImage(image, target, edits) =
        IF c.ok THEN IF u.ok THEN Single!Ok([format |-> F, layers |-> u.value]) ELSE u ELSE c
  BY <1>2, <1>3, <1>4, <1>5 DEF Single!UpdatedImage, Single!AndThen, UpdateWith, NoConversion, Single!NoConversion
<1>7. c.ok /\ u.ok
  BY <1>6
<1>8. Single!UpdatedImage(image, target, edits).value = [format |-> F, layers |-> u.value]
  BY <1>6, <1>7 DEF Single!Ok
<1>9. PICK bl : /\ LayersFit(F, v.layers, bl) /\ EditsMake(bl, v.edits, bs)
                /\ DOMAIN v.layers = DOMAIN image.layers
                /\ v.layers \in Seq(MediaTypes \cup {NoMediaType})
  <2>1. CASE converts
    <3>1. F = target /\ c = Single!Convert(image, target, edits) /\ target \in ImageFormats
      BY <1>2, <1>3, <2>1
    <3> QED BY <3>1, <2>1, <1>4, <1>7, ConversionFits
  <2>2. CASE ~converts
    <3>1. F = image.format /\ v.layers = image.layers /\ v.edits = edits
      BY <1>2, <1>3, <1>4, <2>2 DEF Single!Converted, Single!Ok
    <3>2. image.layers \in Seq(MediaTypes \cup {NoMediaType})
      BY DEF ImageFits
    <3>3. LayersFit(F, image.layers, Bases(image.layers))
      <4>1. CASE Single!isSchema1(F)
        <5>1. \A i \in DOMAIN image.layers : image.layers[i] = NoMediaType
          BY <4>1, <3>1 DEF ImageFits
        <5> QED BY <5>1, <4>1 DEF LayersFit, Bases, Base
      <4>2. CASE ~Single!isSchema1(F)
        <5>1. image.layers \in Seq(MediaTypes) /\ Bases(image.layers) = image.layers
          BY <4>2, <3>1, BasesOfTyped
        <5> QED BY <5>1, <4>2 DEF LayersFit
      <4> QED BY <4>1, <4>2
    <3> QED BY <3>1, <3>2, <3>3
  <2> HIDE DEF converts
  <2> QED BY <2>1, <2>2
<1>10. DOMAIN u.value = DOMAIN v.layers /\ Described(F, u.value, bs)
  BY <1>2, <1>5, <1>7, <1>9, UpdateDescribes
<1> QED BY <1>1, <1>8, <1>9, <1>10

-----------------------------------------------------------------------------
(* The formats layers can be compressed to: with another one there is no   *)
(* plan.                                                                   *)
CopyFormats == {NoAlgorithm, "gzip", "zstd", "zstd:chunked"}

CopyIsPossible(j) == j \in Single!Jobs /\ Single!PossibleJob(j)

(* What a job says about its image.                                        *)
LEMMA JobFacts ==
  ASSUME NEW j, CopyIsPossible(j)
  PROVE  /\ ImageFits(j.image) /\ j.image.layers # <<>> /\ j.image.artifact \in BOOLEAN
         /\ j.uncompressed \in BOOLEAN /\ j.decrypt \in BOOLEAN /\ j.conflict \in BOOLEAN
         /\ j.encrypt \in {{}, {1}}
         /\ j.desired \in {"preserve", "compress", "decompress"}
         /\ j.signing \in [sigs : BOOLEAN, signs : BOOLEAN, pinned : BOOLEAN]
         /\ j.dest \in [types : Seq(ImageFormats), force : ImageFormats \cup {NoForce}]
         /\ j.compression \in [algo : Algorithms \cup {NoAlgorithm}, required : BOOLEAN]
         /\ j.image.artifact => ~j.uncompressed
         /\ \A i \in DOMAIN j.image.layers : j.uncompressed => ~j.image.layers[i].enc
<1>1. /\ j.image \in Images /\ j.signing \in Signings /\ j.dest \in Destinations
      /\ j.compression \in Compressions
      /\ j.uncompressed \in BOOLEAN /\ j.decrypt \in BOOLEAN /\ j.conflict \in BOOLEAN
      /\ j.encrypt \in {{}, {1}} /\ j.desired \in {"preserve", "compress", "decompress"}
  BY DEF CopyIsPossible, Single!Jobs
<1>2. PICK image : image = j.image
  OBVIOUS
<1>3. /\ image.format \in ImageFormats /\ image.layers # <<>> /\ image.artifact \in BOOLEAN
      /\ image.layers \in Seq(MediaTypes \cup {NoMediaType})
  <2>1. image \in [format : ImageFormats, layers : Seq(MediaTypes \cup {NoMediaType}), artifact : BOOLEAN]
    BY <1>1, <1>2, ImagesAssumption
  <2>2. image.layers # <<>>
    BY <1>1, <1>2, ImagesAssumption
  <2> QED BY <2>1, <2>2
<1>4. /\ j.signing \in [sigs : BOOLEAN, signs : BOOLEAN, pinned : BOOLEAN]
      /\ j.dest \in [types : Seq(ImageFormats), force : ImageFormats \cup {NoForce}]
      /\ j.compression \in [algo : Algorithms \cup {NoAlgorithm}, required : BOOLEAN]
  BY <1>1, ImagesAssumption
<1>5. /\ image.artifact => ~j.uncompressed
      /\ \A i \in DOMAIN image.layers :
           /\ Single!isSchema1(image.format) <=> image.layers[i] = NoMediaType
           /\ image.format = V2S2 => ~image.layers[i].enc /\ image.layers[i].comp # "zstd"
           /\ j.uncompressed => ~image.layers[i].enc
  <2>1. Single!NoMediaType = NoMediaType /\ Single!V2S2 = V2S2
    BY DEF Single!NoMediaType, NoMediaType, Single!V2S2, V2S2
  <2> QED BY <1>2, <2>1 DEF CopyIsPossible, Single!PossibleJob
<1>6. ImageFits(image)
  BY <1>3, <1>5 DEF ImageFits
<1> QED BY <1>1, <1>2, <1>3, <1>4, <1>5, <1>6

(* What a layer is, what its BlobInfo says, and what its manifest says.    *)
SourceFits(j, mt, src, info, canChange) ==
  /\ src \in MediaTypes /\ info \in MediaTypes \cup {NoMediaType}
  /\ src.enc = info.enc /\ src.enc = Base(mt).enc
  /\ j.uncompressed => src.comp = "none" /\ info.comp = "none" /\ info.enc = FALSE /\ info.foreign = FALSE /\ canChange
  /\ ~j.uncompressed => src = Base(mt) /\ info = mt
  /\ canChange => src.enc = FALSE
  /\ info = NoMediaType => canChange

(* The source serves its layers as its manifest or LayerInfosForCopy says. *)
LEMMA SourceFacts ==
  ASSUME CopyIsPossible(imageJob), NEW i \in DOMAIN imageJob.image.layers
  PROVE  SourceFits(imageJob, imageJob.image.layers[i], Single!SourceBlob(i), Single!SourceInfoType(i),
                    Single!CanChangeLayerCompression(imageJob.image, Single!SourceInfoType(i)))
<1>1. PICK mt : mt = imageJob.image.layers[i]
  OBVIOUS
<1>2. PICK src : src = Single!SourceBlob(i)
  OBVIOUS
<1>3. PICK info : info = Single!SourceInfoType(i)
  OBVIOUS
<1>4. PICK plain : plain = [foreign |-> FALSE, comp |-> "none", enc |-> FALSE]
  OBVIOUS
<1>5. PICK gz : gz = [foreign |-> FALSE, comp |-> "gzip", enc |-> FALSE]
  OBVIOUS
<1>6. Single!NoMediaType = NoMediaType
  BY DEF Single!NoMediaType, NoMediaType
<1>7. /\ mt \in MediaTypes \cup {NoMediaType}
      /\ Single!isSchema1(imageJob.image.format) <=> mt = NoMediaType
      /\ imageJob.uncompressed => ~mt.enc
      /\ imageJob.image.artifact => ~imageJob.uncompressed
      /\ imageJob.uncompressed \in BOOLEAN
  <2>1. PICK layers \in Seq(MediaTypes \cup {NoMediaType}) : layers = imageJob.image.layers
    BY JobFacts DEF ImageFits
  <2>2. mt \in MediaTypes \cup {NoMediaType}
    BY <1>1, <2>1
  <2>3. Single!isSchema1(imageJob.image.format) <=> mt = NoMediaType
    BY <1>1, JobFacts DEF ImageFits
  <2> QED BY <1>1, <2>2, <2>3, JobFacts
<1>8. plain \in MediaTypes /\ gz \in MediaTypes /\ NoMediaType.foreign = FALSE /\ NoMediaType.enc = FALSE
      /\ plain # NoMediaType /\ NoMediaType \notin MediaTypes
  BY <1>4, <1>5 DEF MediaTypes, NoMediaType
<1>9. CASE imageJob.uncompressed
  <2>1. info = plain
    BY <1>3, <1>4, <1>9 DEF Single!SourceInfoType
  <2>2. src = [foreign |-> mt.foreign, comp |-> "none", enc |-> FALSE]
    BY <1>1, <1>2, <1>9 DEF Single!SourceBlob
  <2>3. src \in MediaTypes /\ src.comp = "none" /\ src.enc = FALSE
    BY <2>2, <1>7, <1>8 DEF MediaTypes
  <2>4. Base(mt).enc = FALSE
    <3>1. CASE mt = NoMediaType
      BY <3>1 DEF Base
    <3>2. CASE mt # NoMediaType
      BY <3>2, <1>7, <1>9 DEF Base, MediaTypes
    <3> QED BY <3>1, <3>2
  <2>5. info.comp = "none" /\ info.enc = FALSE /\ info.foreign = FALSE
    BY <2>1, <1>4
  <2>6. Single!CanChangeLayerCompression(imageJob.image, info)
    BY <2>5, <1>7, <1>9 DEF Single!CanChangeLayerCompression
  <2> QED BY <2>1, <2>3, <2>4, <2>5, <2>6, <1>1, <1>2, <1>3, <1>8, <1>9 DEF SourceFits
<1>10. CASE ~imageJob.uncompressed
  <2>1. info = mt
    BY <1>1, <1>3, <1>10 DEF Single!SourceInfoType
  <2>2. src = Base(mt)
    <3>1. CASE mt = NoMediaType
      BY <1>1, <1>2, <1>6, <1>10, <3>1 DEF Single!SourceBlob, Base
    <3>2. CASE mt # NoMediaType
      BY <1>1, <1>2, <1>6, <1>10, <3>2 DEF Single!SourceBlob, Base
    <3> QED BY <3>1, <3>2
  <2>3. src \in MediaTypes /\ src.enc = info.enc
    <3>1. CASE mt = NoMediaType
      BY <2>1, <2>2, <3>1, <1>5, <1>8 DEF Base
    <3>2. CASE mt # NoMediaType
      BY <2>1, <2>2, <3>2, <1>7 DEF Base
    <3> QED BY <3>1, <3>2
  <2>4. ASSUME Single!CanChangeLayerCompression(imageJob.image, info) PROVE src.enc = FALSE
    <3>1. CASE mt = NoMediaType
      BY <2>1, <2>3, <3>1, <1>8
    <3>2. CASE mt # NoMediaType
      <4>1. ~info.enc
        BY <2>4, <3>2, <1>7 DEF Single!CanChangeLayerCompression
      <4>2. src.enc \in BOOLEAN
        BY <2>3 DEF MediaTypes
      <4> QED BY <4>1, <4>2, <2>3
    <3> QED BY <3>1, <3>2
  <2>5. info = NoMediaType => Single!CanChangeLayerCompression(imageJob.image, info)
    BY <2>1, <1>7 DEF Single!CanChangeLayerCompression
  <2> QED BY <2>1, <2>2, <2>3, <2>4, <2>5, <1>1, <1>2, <1>3, <1>7, <1>10 DEF SourceFits
<1> QED BY <1>7, <1>9, <1>10

(* A foreign layer that is skipped stays what it is; the other layers are  *)
(* encrypted and decrypted as the job asks.                                *)
SkippedFits(j, mt) == j.skipForeign /\ ~j.uncompressed /\ mt.foreign
CryptoFits(j, i, mt, blob) ==
  IF SkippedFits(j, mt) THEN blob = Base(mt)
  ELSE (i \in j.encrypt => blob.enc) /\ (j.decrypt /\ blob.enc => i \in j.encrypt)

(* Which layers those are.                                                 *)
LEMMA SkipsFacts ==
  ASSUME CopyIsPossible(imageJob), NEW i \in DOMAIN imageJob.image.layers
  PROVE  Single!Skips(i) <=> SkippedFits(imageJob, imageJob.image.layers[i])
<1>1. imageJob.uncompressed \in BOOLEAN
  BY JobFacts
<1>2. CASE imageJob.uncompressed
  BY <1>2 DEF Single!Skips, Single!SourceInfoType, SkippedFits
<1>3. CASE ~imageJob.uncompressed
  BY <1>3 DEF Single!Skips, Single!SourceInfoType, SkippedFits
<1> QED BY <1>1, <1>2, <1>3

(* What is known of a layer that was copied.                               *)
LayerFits(j, i, mt, src, keeps, r) ==
  /\ r.blob \in MediaTypes /\ r.edit \in Edits /\ Edited(Base(mt), r.edit, r.blob)
  /\ (~r.changed /\ ~j.uncompressed) => r.blob = src
  /\ CryptoFits(j, i, mt, r.blob)
  /\ keeps /\ ~j.uncompressed => ~r.changed

(* TargetFormat is a format that layers can be compressed to.              *)
LEMMA TargetFacts ==
  ASSUME format \in CopyFormats, NEW found \in {"none", "gzip", "zstd"}
  PROVE  Single!TargetFormat(found) \in {"keep", "none", "gzip", "zstd", "zstd:chunked"}
BY DEF CopyFormats, Single!TargetFormat, Single!NoAlgorithm, NoAlgorithm

(* A layer that was streamed is what its edit says.                        *)
LEMMA StreamedFits ==
  ASSUME CopyIsPossible(imageJob), format \in CopyFormats, NEW i \in DOMAIN imageJob.image.layers,
         ~Single!Skips(i), NEW r \in Single!StreamedLayers(i)
  PROVE  LayerFits(imageJob, i, imageJob.image.layers[i], Single!SourceBlob(i), Single!cannotModifyManifest, r)
<1>1. PICK mt : mt = imageJob.image.layers[i]
  OBVIOUS
<1>2. PICK src : src = Single!SourceBlob(i)
  OBVIOUS
<1>3. PICK info : info = Single!SourceInfoType(i)
  OBVIOUS
<1>4. PICK can \in BOOLEAN : can = Single!CanChangeLayerCompression(imageJob.image, info)
  BY DEF Single!CanChangeLayerCompression
<1>5. SourceFits(imageJob, mt, src, info, can)
  BY <1>1, <1>2, <1>3, <1>4, SourceFacts
<1>6. PICK dec \in BOOLEAN : dec = Single!Decrypts(i)
  BY DEF Single!Decrypts
<1>7. PICK encs \in BOOLEAN : encs = (Single!Encrypts(i) /\ ~info.enc)
  OBVIOUS
<1>8. PICK det : det = IF src.enc /\ ~dec THEN "none" ELSE src.comp
  OBVIOUS
<1>9. PICK target : target = IF can /\ ~Single!cannotModifyManifest THEN Single!TargetFormat(det) ELSE "keep"
  OBVIOUS
<1>10. PICK crypto : crypto = IF encs THEN "encrypt" ELSE IF dec THEN "decrypt" ELSE "preserve"
  OBVIOUS
<1>11. PICK edit : edit = IF target = "keep"
              THEN CASE ~can -> Single!Edit("preserve", Single!NoAlgorithm, crypto)
                     [] can /\ det # "none" -> Single!Edit("preserve", det, crypto)
                     [] OTHER -> Single!Edit("decompress", Single!NoAlgorithm, crypto)
              ELSE IF target = "none" THEN Single!Edit("decompress", Single!NoAlgorithm, crypto)
              ELSE Single!Edit("compress", target, crypto)
  OBVIOUS
<1>12. PICK blob : blob = [src EXCEPT !.comp = IF target = "keep" THEN @ ELSE Single!CompOf(target),
                                 !.enc = (@ /\ ~dec) \/ encs]
  OBVIOUS
<1>13. PICK fails \in BOOLEAN :
         fails = ((dec /\ (Single!cannotModifyManifest \/ Single!Encrypts(i)))
                  \/ (encs /\ Single!cannotModifyManifest))
  OBVIOUS
<1>14. Single!StreamedLayers(i) = IF fails THEN {}
     ELSE {[blob |-> blob, edit |-> edit, changed |-> target # "keep" \/ encs \/ dec]}
  BY <1>2, <1>3, <1>4, <1>6, <1>7, <1>8, <1>9, <1>10, <1>11, <1>12, <1>13, Zenon DEF Single!StreamedLayers
<1>15. ~fails /\ r.blob = blob /\ r.edit = edit /\ r.changed = (target # "keep" \/ encs \/ dec)
  BY <1>14
<1>16. /\ src \in MediaTypes /\ src.comp \in {"none", "gzip", "zstd"} /\ src.enc \in BOOLEAN
       /\ src.enc = info.enc /\ src.enc = Base(mt).enc
  BY <1>5 DEF SourceFits, MediaTypes
<1>17. target \in {"keep", "none", "gzip", "zstd", "zstd:chunked"} /\ (~can => target = "keep")
  <2>1. det \in {"none", "gzip", "zstd"}
    BY <1>8, <1>16
  <2> QED BY <2>1, <1>9, TargetFacts
<1>18. /\ blob \in MediaTypes
       /\ blob.comp = (IF target = "keep" THEN src.comp ELSE Single!CompOf(target))
       /\ blob.enc = ((src.enc /\ ~dec) \/ encs)
       /\ target = "keep" /\ ~encs /\ ~dec => blob = src
  <2>1. PICK comp : comp = IF target = "keep" THEN src.comp ELSE Single!CompOf(target)
    OBVIOUS
  <2>2. PICK enc \in BOOLEAN : enc = ((src.enc /\ ~dec) \/ encs)
    OBVIOUS
  <2>3. blob = [src EXCEPT !.comp = comp, !.enc = enc]
    BY <1>12, <2>1, <2>2
  <2>4. comp \in {"none", "gzip", "zstd"}
    BY <2>1, <1>16, <1>17 DEF Single!CompOf, Single!BaseVariantName
  <2>5. blob \in MediaTypes /\ blob.comp = comp /\ blob.enc = enc
    BY <2>3, <2>4, <1>16 DEF MediaTypes
  <2>6. ASSUME target = "keep", ~encs, ~dec PROVE blob = src
    <3>1. comp = src.comp
      BY <2>1, <2>6
    <3>2. enc = src.enc
      BY <2>2, <2>6, <1>16
    <3> QED BY <2>3, <3>1, <3>2, <1>16 DEF MediaTypes
  <2> QED BY <2>1, <2>2, <2>5, <2>6
<1>19. edit \in Edits /\ edit.crypto = crypto
  <2>1. det \in {"none", "gzip", "zstd"} /\ crypto \in {"preserve", "encrypt", "decrypt"}
    BY <1>8, <1>10, <1>16
  <2> QED BY <2>1, <1>11, <1>17 DEF Single!Edit, Edits, Algorithms, Single!NoAlgorithm, NoAlgorithm
<1>20. blob.comp = EditComp(Base(mt).comp, edit)
  <2>1. CASE target # "keep"
    BY <2>1, <1>11, <1>17, <1>18 DEF Single!Edit, EditComp, Single!CompOf, Single!BaseVariantName,
      BaseVariantName, Single!NoAlgorithm, NoAlgorithm
  <2>2. CASE target = "keep" /\ can
    <3>1. src.enc = FALSE
      BY <2>2, <1>5 DEF SourceFits
    <3>2. det = src.comp
      BY <3>1, <1>8
    <3> QED BY <3>2, <2>2, <1>11, <1>16, <1>18 DEF Single!Edit, EditComp, BaseVariantName, Single!NoAlgorithm, NoAlgorithm
  <2>3. CASE ~can
    <3>1. src = Base(mt)
      BY <2>3, <1>5 DEF SourceFits
    <3>2. edit = Single!Edit("preserve", Single!NoAlgorithm, crypto)
      BY <2>3, <1>11, <1>17
    <3> QED BY <3>1, <3>2, <2>3, <1>17, <1>18 DEF Single!Edit, EditComp, Single!NoAlgorithm, NoAlgorithm
  <2> QED BY <2>1, <2>2, <2>3
<1>21. blob.enc = EditEnc(Base(mt).enc, edit)
  <2>1. CASE encs
    <3>1. edit.crypto = "encrypt" /\ blob.enc = TRUE
      BY <2>1, <1>10, <1>18, <1>19
    <3> QED BY <3>1 DEF EditEnc
  <2>2. CASE ~encs /\ dec
    <3>1. edit.crypto = "decrypt" /\ blob.enc = FALSE
      BY <2>2, <1>10, <1>18, <1>19
    <3> QED BY <3>1 DEF EditEnc
  <2>3. CASE ~encs /\ ~dec
    <3>1. edit.crypto = "preserve" /\ blob.enc = src.enc
      BY <2>3, <1>10, <1>16, <1>18, <1>19
    <3>2. EditEnc(src.enc, edit) = src.enc
      BY <3>1, <1>16 DEF EditEnc
    <3> QED BY <3>1, <3>2, <1>16
  <2> QED BY <2>1, <2>2, <2>3
<1>22. (Single!Encrypts(i) <=> i \in imageJob.encrypt) /\ (dec <=> info.enc /\ imageJob.decrypt)
  BY <1>3, <1>6 DEF Single!Encrypts, Single!Decrypts
<1>23. i \in imageJob.encrypt => blob.enc
  <2> SUFFICES ASSUME i \in imageJob.encrypt PROVE blob.enc
    OBVIOUS
  <2>0. Single!Encrypts(i)
    BY DEF Single!Encrypts
  <2>1. ~dec
    <3>1. PICK en \in BOOLEAN : en <=> Single!Encrypts(i)
      BY DEF Single!Encrypts
    <3>2. PICK cm \in BOOLEAN : cm <=> Single!cannotModifyManifest
      BY DEF Single!cannotModifyManifest
    <3>3. fails <=> ((dec /\ (cm \/ en)) \/ (encs /\ cm))
      BY <1>13, <3>1, <3>2
    <3>4. en /\ ~fails
      BY <2>0, <3>1, <1>15
    <3> QED BY <3>3, <3>4
  <2>2. CASE info.enc
    BY <2>1, <2>2, <1>16, <1>18
  <2>3. CASE ~info.enc
    BY <2>3, <1>7, <1>18, <1>22
  <2> QED BY <2>2, <2>3
<1>24. imageJob.decrypt /\ blob.enc => i \in imageJob.encrypt
  <2> SUFFICES ASSUME imageJob.decrypt, blob.enc, ~encs PROVE FALSE
    BY <1>7, <1>22
  <2>1. src.enc /\ ~dec
    BY <1>18
  <2> QED BY <2>1, <1>16, <1>22
<1>25. Single!cannotModifyManifest => target = "keep" /\ ~encs /\ ~dec
  BY <1>9, <1>13, <1>15
<1>26. CryptoFits(imageJob, i, mt, blob)
  BY <1>1, <1>23, <1>24, SkipsFacts DEF CryptoFits
<1> QED BY <1>1, <1>2, <1>15, <1>18, <1>19, <1>20, <1>21, <1>25, <1>26 DEF LayerFits, Edited

(* A layer that was reused is what its edit says; layers that are to be    *)
(* encrypted or decrypted are not reused.                                  *)
LEMMA ReusedFits ==
  ASSUME CopyIsPossible(imageJob), NEW i \in DOMAIN imageJob.image.layers,
         ~Single!Skips(i), ~Single!Encrypts(i), ~Single!Decrypts(i), NEW r \in Single!ReusedLayers(i)
  PROVE  LayerFits(imageJob, i, imageJob.image.layers[i], Single!SourceBlob(i), Single!cannotModifyManifest, r)
<1>1. PICK mt : mt = imageJob.image.layers[i]
  OBVIOUS
<1>2. PICK src : src = Single!SourceBlob(i)
  OBVIOUS
<1>3. PICK info : info = Single!SourceInfoType(i)
  OBVIOUS
<1>4. PICK can \in BOOLEAN : can = Single!CanChangeLayerCompression(imageJob.image, info)
  BY DEF Single!CanChangeLayerCompression
<1>5. SourceFits(imageJob, mt, src, info, can)
  BY <1>1, <1>2, <1>3, <1>4, SourceFacts
<1>6. PICK own : own = Single!compressionEditsFromBlobInfo(info)
  OBVIOUS
<1> DEFINE AlgorithmOf(c) == IF c = "none" THEN NoAlgorithm ELSE c
           Substitute(c) == [blob |-> [src EXCEPT !.comp = c],
             edit |-> Single!Edit(IF c = "none" THEN "decompress" ELSE "compress", AlgorithmOf(c), "preserve"),
             changed |-> TRUE]
           canSubstitute == Single!canSubstituteBlobs /\ can
<1>7. \/ r = [blob |-> src, edit |-> own, changed |-> FALSE]
      \/ canSubstitute /\ \E c \in {"none", "gzip", "zstd"} : r = Substitute(c)
  BY <1>2, <1>3, <1>4, <1>6 DEF Single!ReusedLayers, Single!NoAlgorithm, NoAlgorithm
<1>8. /\ src \in MediaTypes /\ src.comp \in {"none", "gzip", "zstd"} /\ src.enc \in BOOLEAN
      /\ src.enc = info.enc /\ src.enc = Base(mt).enc
      /\ info \in MediaTypes \cup {NoMediaType}
  BY <1>5 DEF SourceFits, MediaTypes
<1>9. i \notin imageJob.encrypt /\ (imageJob.decrypt => ~src.enc)
  BY <1>3, <1>8 DEF Single!Encrypts, Single!Decrypts
<1>10. ASSUME NEW e \in Edits, e.crypto = "preserve" PROVE EditEnc(Base(mt).enc, e) = src.enc
  BY <1>8, <1>10 DEF EditEnc
<1>11. ASSUME NEW blob, blob.enc = src.enc PROVE CryptoFits(imageJob, i, mt, blob)
  BY <1>1, <1>9, <1>11, SkipsFacts DEF CryptoFits
<1>12. CASE r = [blob |-> src, edit |-> own, changed |-> FALSE]
  <2>1. own \in Edits /\ own.crypto = "preserve"
    BY <1>6, <1>8 DEF Single!compressionEditsFromBlobInfo, Single!Edit, Edits, Algorithms, MediaTypes,
      NoMediaType, Single!NoMediaType, Single!NoAlgorithm, NoAlgorithm
  <2>2. src.comp = EditComp(Base(mt).comp, own)
    <3>1. CASE imageJob.uncompressed
      <4>1. src.comp = "none" /\ info.comp = "none" /\ info.enc = FALSE /\ info.foreign = FALSE
        BY <3>1, <1>5 DEF SourceFits
      <4>2. info # Single!NoMediaType
        BY <4>1 DEF Single!NoMediaType
      <4>3. own.op = "decompress"
        BY <4>1, <4>2, <1>6 DEF Single!compressionEditsFromBlobInfo, Single!Edit
      <4> QED BY <4>1, <4>3 DEF EditComp
    <3>2. CASE ~imageJob.uncompressed
      <4>1. src = Base(mt) /\ info = mt
        BY <3>2, <1>5 DEF SourceFits
      <4>2. CASE mt.foreign \/ mt.enc \/ mt = Single!NoMediaType
        <5>1. own.op = "preserve" /\ own.algorithm = NoAlgorithm
          BY <4>1, <4>2, <1>6 DEF Single!compressionEditsFromBlobInfo, Single!Edit, Single!NoAlgorithm, NoAlgorithm
        <5> QED BY <5>1, <4>1 DEF EditComp
      <4>3. CASE ~(mt.foreign \/ mt.enc \/ mt = Single!NoMediaType)
        <5>1. src = mt
          BY <4>1, <4>3 DEF Base, NoMediaType, Single!NoMediaType
        <5>2. own = IF mt.comp = "none" THEN Single!Edit("decompress", Single!NoAlgorithm, "preserve")
                    ELSE Single!Edit("preserve", mt.comp, "preserve")
          BY <4>1, <4>3, <1>6 DEF Single!compressionEditsFromBlobInfo
        <5> QED BY <5>1, <5>2, <4>1, <1>8 DEF EditComp, Single!Edit, BaseVariantName, NoAlgorithm
      <4> QED BY <4>2, <4>3
    <3> QED BY <3>1, <3>2
  <2>3. Edited(Base(mt), own, src)
    BY <2>1, <2>2, <1>10 DEF Edited
  <2> QED BY <2>1, <2>3, <1>1, <1>2, <1>8, <1>12, <1>11 DEF LayerFits
<1>13. CASE canSubstitute /\ \E c \in {"none", "gzip", "zstd"} : r = Substitute(c)
  <2>1. PICK c \in {"none", "gzip", "zstd"} : r = Substitute(c)
    BY <1>13
  <2>2. r.blob = [src EXCEPT !.comp = c] /\ r.edit = Substitute(c).edit /\ r.changed = TRUE
    BY <2>1
  <2>3. r.blob \in MediaTypes /\ r.blob.comp = c /\ r.blob.enc = src.enc
    BY <2>2, <1>8 DEF MediaTypes
  <2>4. /\ r.edit \in Edits /\ r.edit.crypto = "preserve"
        /\ EditComp(Base(mt).comp, r.edit) = c
    BY <2>2 DEF Single!Edit, Edits, Algorithms, EditComp, BaseVariantName, NoAlgorithm
  <2>5. Edited(Base(mt), r.edit, r.blob)
    BY <2>3, <2>4, <1>10 DEF Edited
  <2>6. ~Single!cannotModifyManifest
    BY <1>13 DEF Single!canSubstituteBlobs
  <2> QED BY <2>2, <2>3, <2>4, <2>5, <2>6, <1>1, <1>2, <1>11 DEF LayerFits
<1> QED BY <1>7, <1>12, <1>13

(* A foreign layer that was skipped is the source's own.                   *)
LEMMA SkippedLayerFits ==
  ASSUME CopyIsPossible(imageJob), NEW i \in DOMAIN imageJob.image.layers,
         Single!Skips(i), NEW r \in Single!SkippedLayers(i)
  PROVE  LayerFits(imageJob, i, imageJob.image.layers[i], Single!SourceBlob(i), Single!cannotModifyManifest, r)
<1>1. PICK mt : mt = imageJob.image.layers[i]
  OBVIOUS
<1>2. PICK src : src = Single!SourceBlob(i)
  OBVIOUS
<1>3. PICK edit : edit = Single!Edit("preserve", Single!NoAlgorithm, "preserve")
  OBVIOUS
<1>4. r = [blob |-> src, edit |-> edit, changed |-> FALSE]
  BY <1>2, <1>3 DEF Single!SkippedLayers
<1>5. SkippedFits(imageJob, mt)
  BY <1>1, SkipsFacts
<1>6. src \in MediaTypes /\ src = Base(mt)
  BY <1>1, <1>2, <1>5, SourceFacts DEF SourceFits, SkippedFits
<1>7. edit \in Edits /\ edit.op = "preserve" /\ edit.algorithm = NoAlgorithm /\ edit.crypto = "preserve"
  BY <1>3 DEF Single!Edit, Edits, Single!NoAlgorithm, NoAlgorithm
<1>8. Edited(src, edit, src)
  <2>1. src.enc \in BOOLEAN
    BY <1>6 DEF MediaTypes
  <2>2. EditEnc(src.enc, edit) = src.enc
    BY <1>7, <2>1 DEF EditEnc
  <2>3. EditComp(src.comp, edit) = src.comp
    BY <1>7 DEF EditComp
  <2> QED BY <2>2, <2>3 DEF Edited
<1>9. CryptoFits(imageJob, i, mt, src)
  BY <1>5, <1>6 DEF CryptoFits
<1> QED BY <1>1, <1>2, <1>4, <1>6, <1>7, <1>8, <1>9 DEF LayerFits

(* So is every copied layer.                                               *)
LEMMA CopiedFits ==
  ASSUME CopyIsPossible(imageJob), format \in CopyFormats, NEW i \in DOMAIN imageJob.image.layers,
         NEW r \in Single!CopiedLayers(i)
  PROVE  LayerFits(imageJob, i, imageJob.image.layers[i], Single!SourceBlob(i), Single!cannotModifyManifest, r)
BY StreamedFits, ReusedFits, SkippedLayerFits DEF Single!CopiedLayers

-----------------------------------------------------------------------------
(* The formats to try: every one the destination supports, once each, at   *)
(* its place; the preferred one first, at place 0.                         *)

Candidate(p, k) == IF k = 0 THEN p.preferred ELSE p.others[k]
Places(p) == {0} \cup DOMAIN p.others

CandidatesAre(p, supported) ==
  /\ DOMAIN p.others \subseteq Nat \ {0}
  /\ \A k \in Places(p) : Candidate(p, k) \in supported
  /\ \A k, l \in Places(p) : Candidate(p, k) = Candidate(p, l) => k = l
  /\ \A t \in supported : \E k \in Places(p) : Candidate(p, k) = t

PlanInput(in) ==
  /\ in.srcType \in ImageFormats /\ in.destTypes \in Seq(ImageFormats)
  /\ in.force \in ImageFormats \cup {NoForce}
  /\ in.compression \in Algorithms \cup {NoAlgorithm}

(* The order of preference lists formats, and every supported one.         *)
LEMMA OrderFacts ==
  ASSUME NEW in, PlanInput(in)
  PROVE  /\ Single!orderOfPreference(in) \in Seq(ImageFormats)
         /\ Single!supportedByDest(in) \subseteq ImageFormats
         /\ \A t \in Single!supportedByDest(in) :
              \E k \in DOMAIN Single!orderOfPreference(in) : Single!orderOfPreference(in)[k] = t
<1>1. PICK types : types = Single!destSupportedManifestMIMETypes(in)
  OBVIOUS
<1>2. types \in Seq(ImageFormats)
  <2>1. <<in.force>> \in Seq(ImageFormats) \/ in.force = Single!NoForce
    BY DEF PlanInput, NoForce, Single!NoForce
  <2>2. Single!allManifestMIMETypes \in Seq(ImageFormats)
    BY DEF Single!allManifestMIMETypes, ImageFormats, Single!OCI, OCI, Single!V2S2, V2S2, Single!V2S1, V2S1, Single!V2S1Signed, V2S1Signed
  <2>3. in.destTypes \in Seq(ImageFormats)
    BY DEF PlanInput
  <2> QED BY <1>1, <2>1, <2>2, <2>3 DEF Single!destSupportedManifestMIMETypes
<1>3. PICK head : head = <<in.srcType>> \o Single!preferredManifestMIMETypes
  OBVIOUS
<1>4. head \in Seq(ImageFormats)
  <2>1. <<in.srcType>> \in Seq(ImageFormats)
    BY DEF PlanInput
  <2>2. Single!preferredManifestMIMETypes \in Seq(ImageFormats)
    BY DEF Single!preferredManifestMIMETypes, ImageFormats, Single!V2S2, V2S2, Single!V2S1Signed, V2S1Signed
  <2> QED BY <1>3, <2>1, <2>2
<1>5. PICK order : order = head \o types
  OBVIOUS
<1>6. Single!orderOfPreference(in) = order
  BY <1>1, <1>3, <1>5 DEF Single!orderOfPreference
<1>7. order \in Seq(ImageFormats)
  BY <1>2, <1>4, <1>5
<1>8. ASSUME NEW t, t \in Single!supportedByDest(in)
      PROVE  t \in ImageFormats /\ \E k \in DOMAIN order : order[k] = t
  <2>1. PICK i \in DOMAIN types : types[i] = t
    BY <1>1, <1>8 DEF Single!supportedByDest, Single!ToSet
  <2>2. PICK h \in Nat : h = Len(head)
    BY <1>4
  <2>3. i \in 1..Len(types) /\ Len(order) = h + Len(types) /\ Len(types) \in Nat
    BY <1>2, <1>4, <1>5, <2>1, <2>2, ConcatProperties, LenProperties
  <2>4. h + i \in 1..Len(order)
    BY <2>2, <2>3
  <2>5. order[h + i] = types[i]
    <3>1. i > 0 /\ i \in Nat /\ h + i > h /\ (h + i) - h = i
      BY <2>2, <2>3
    <3> QED BY <1>2, <1>4, <1>5, <2>2, <2>3, <2>4, <3>1, ConcatProperties
  <2>6. h + i \in DOMAIN order
    BY <1>7, <2>4
  <2>7. types[i] \in ImageFormats
    BY <1>2, <2>1
  <2> QED BY <2>1, <2>5, <2>6, <2>7
<1> QED BY <1>6, <1>7, <1>8

(* An orderedSet of the supported formats: each one at its first place.    *)
LEMMA PrioritizedFacts ==
  ASSUME NEW in, PlanInput(in)
  PROVE  LET types == Single!prioritizedTypes(in)
         IN /\ DOMAIN types \subseteq Nat \ {0}
            /\ \A k \in DOMAIN types : types[k] \in Single!supportedByDest(in)
            /\ \A k, l \in DOMAIN types : types[k] = types[l] => k = l
            /\ \A t \in Single!supportedByDest(in) : \E k \in DOMAIN types : types[k] = t
<1>1. PICK order \in Seq(ImageFormats) : order = Single!orderOfPreference(in)
  BY OrderFacts
<1>2. PICK supported : supported = Single!supportedByDest(in)
  OBVIOUS
<1>3. PICK n \in Nat : DOMAIN order = 1..n
  BY <1>1, LenProperties
<1> DEFINE first == {k \in DOMAIN order : \A j \in 1..(k - 1) : order[j] # order[k]}
           places == {k \in first : order[k] \in supported}
<1>4. PICK types : types = [k \in places |-> order[k]]
  OBVIOUS
<1>5. Single!prioritizedTypes(in) = types
  BY <1>1, <1>2, <1>4 DEF Single!prioritizedTypes
<1>6. DOMAIN types = places /\ places \subseteq 1..n /\ \A k \in places : types[k] = order[k]
  BY <1>3, <1>4
<1>7. ASSUME NEW k \in places, NEW l \in places, order[k] = order[l] PROVE k = l
  <2>1. \A a \in places, b \in places : a < b => order[a] # order[b]
    <3> SUFFICES ASSUME NEW a \in places, NEW b \in places, a < b PROVE order[a] # order[b]
      OBVIOUS
    <3>1. a \in 1..(b - 1)
      BY <1>3
    <3> QED BY <3>1
  <2>2. k \in Nat /\ l \in Nat
    BY <1>3
  <2>3. ~(k < l) /\ ~(l < k)
    BY <2>1, <1>7
  <2> HIDE DEF places
  <2> QED BY <2>2, <2>3
<1>8. ASSUME NEW t, t \in supported PROVE \E k \in places : order[k] = t
  <2> DEFINE found == {k \in DOMAIN order : order[k] = t}
  <2>1. found \subseteq Nat /\ found # {}
    BY <1>1, <1>2, <1>3, <1>8, OrderFacts
  <2>2. PICK k \in found : \A j \in found : k <= j
    BY <2>1, LeastElement
  <2>3. ASSUME NEW j \in 1..(k - 1) PROVE order[j] # order[k]
    <3> SUFFICES ASSUME order[j] = order[k] PROVE FALSE
      OBVIOUS
    <3>1. j \in found /\ j <= k - 1 /\ j \in Nat /\ k \in Nat
      BY <1>3
    <3>2. k <= j
      BY <3>1, <2>2
    <3> HIDE DEF found
    <3> QED BY <3>1, <3>2
  <2>4. k \in places
    BY <2>3, <1>8
  <2> QED BY <2>4
<1> HIDE DEF places
<1>9. DOMAIN types \subseteq Nat \ {0}
  BY <1>6
<1>10. \A k \in DOMAIN types : types[k] \in supported
  BY <1>6 DEF places
<1>11. \A k, l \in DOMAIN types : types[k] = types[l] => k = l
  BY <1>6, <1>7
<1>12. \A t \in supported : \E k \in DOMAIN types : types[k] = t
  BY <1>6, <1>8
<1> QED BY <1>2, <1>5, <1>9, <1>10, <1>11, <1>12

(* A plan tries every format that the destination supports, once; or the   *)
(* manifest cannot be modified, and only its own format is tried.          *)
LEMMA PlanFacts ==
  ASSUME NEW in, PlanInput(in), NEW p, p = Single!determineManifestConversion(in), p.ok
  PROVE  /\ in.compression \in CopyFormats
         /\ in.cannotModify => p.preferred = in.srcType /\ p.needsConversion = FALSE /\ p.others = <<>>
         /\ ~in.cannotModify => CandidatesAre(p, Single!supportedByDest(in))
                                /\ p.needsConversion = (p.preferred # in.srcType)
<1>1. PICK types : types = Single!prioritizedTypes(in)
  OBVIOUS
<1>2. PICK supported : supported = Single!supportedByDest(in)
  OBVIOUS
<1>3. /\ DOMAIN types \subseteq Nat \ {0}
      /\ \A k \in DOMAIN types : types[k] \in supported
      /\ \A k, l \in DOMAIN types : types[k] = types[l] => k = l
      /\ \A t \in supported : \E k \in DOMAIN types : types[k] = t
  BY <1>1, <1>2, PrioritizedFacts
<1>4. PICK best : best = Single!Min(DOMAIN types)
  OBVIOUS
<1>5. p = IF supported = {} THEN Single!NoPlan
          ELSE IF in.cannotModify
          THEN [ok |-> TRUE, preferred |-> in.srcType, needsConversion |-> FALSE, others |-> <<>>]
          ELSE [ok |-> TRUE, preferred |-> types[best], needsConversion |-> types[best] # in.srcType,
                others |-> [k \in DOMAIN types \ {best} |-> types[k]]]
  BY <1>1, <1>2, <1>4, Zenon DEF Single!determineManifestConversion
<1>6. supported # {} /\ DOMAIN types # {}
  <2>1. supported # {}
    <3> SUFFICES ASSUME supported = {} PROVE FALSE
      OBVIOUS
    <3>1. p = Single!NoPlan
      BY <1>5
    <3> QED BY <3>1 DEF Single!NoPlan
  <2> QED BY <2>1, <1>3
<1>7. best \in DOMAIN types /\ \A k \in DOMAIN types : best <= k
  <2>1. DOMAIN types \subseteq Nat
    BY <1>3
  <2>2. \E k \in DOMAIN types : \A l \in DOMAIN types : k <= l
    BY <2>1, <1>6, LeastElement
  <2> QED BY <2>2, <1>4 DEF Single!Min
<1>8. in.compression \in CopyFormats
  <2>1. PICK t \in supported : Single!Acceptable(in, t)
    BY <1>2, <1>3, <1>7 DEF Single!supportedByDest
  <2> QED BY <2>1 DEF PlanInput, CopyFormats, Single!Acceptable, Algorithms, NoAlgorithm, Single!NoAlgorithm,
    Single!CompressionAlgorithmIsUniversallySupported, Single!MIMETypeSupportsCompressionAlgorithm
<1>9. CASE in.cannotModify
  <2>1. p.preferred = in.srcType /\ p.needsConversion = FALSE /\ p.others = <<>>
    BY <1>5, <1>6, <1>9
  <2> QED BY <2>1, <1>8, <1>9
<1>10. CASE ~in.cannotModify
  <2>1. PICK others : others = [k \in DOMAIN types \ {best} |-> types[k]]
    OBVIOUS
  <2>2. p = [ok |-> TRUE, preferred |-> types[best], needsConversion |-> types[best] # in.srcType, others |-> others]
    BY <1>5, <1>6, <1>10, <2>1
  <2>3. p.preferred = types[best] /\ p.needsConversion = (types[best] # in.srcType) /\ p.others = others
    BY <2>2
  <2>4. DOMAIN others = DOMAIN types \ {best} /\ \A k \in DOMAIN others : others[k] = types[k]
    BY <2>1
  <2> DEFINE Place(k) == IF k = 0 THEN best ELSE k
  <2>5. \A k \in Places(p) : Place(k) \in DOMAIN types /\ Candidate(p, k) = types[Place(k)]
    BY <2>3, <2>4, <1>3, <1>7 DEF Places, Candidate
  <2>6. \A k, l \in Places(p) : Place(k) = Place(l) => k = l
    BY <2>3, <2>4, <1>3, <1>7 DEF Places
  <2>7. \A k \in DOMAIN types : \E l \in Places(p) : Place(l) = k
    <3> SUFFICES ASSUME NEW k \in DOMAIN types PROVE \E l \in Places(p) : Place(l) = k
      OBVIOUS
    <3>1. CASE k = best
      <4>1. 0 \in Places(p) /\ Place(0) = k
        BY <3>1 DEF Places
      <4> QED BY <4>1
    <3>2. CASE k # best
      <4>1. k \in Places(p) /\ Place(k) = k
        BY <3>2, <2>3, <2>4, <1>3 DEF Places
      <4> QED BY <4>1
    <3> QED BY <3>1, <3>2
  <2>8. DOMAIN p.others \subseteq Nat \ {0}
    BY <2>3, <2>4, <1>3
  <2> HIDE DEF Place
  <2>9. CandidatesAre(p, supported)
    <3>1. \A k \in Places(p) : Candidate(p, k) \in supported
      BY <2>5, <1>3
    <3>2. \A k, l \in Places(p) : Candidate(p, k) = Candidate(p, l) => k = l
      BY <2>5, <2>6, <1>3
    <3>3. \A t \in supported : \E k \in Places(p) : Candidate(p, k) = t
      BY <2>5, <2>7, <1>3
    <3> QED BY <3>1, <3>2, <3>3, <2>8 DEF CandidatesAre
  <2> QED BY <2>3, <2>9, <1>2, <1>8, <1>10
<1> QED BY <1>9, <1>10

-----------------------------------------------------------------------------
(* The invariant of the copy of an image.                                  *)

Kept(j) == j.signing.sigs \/ j.signing.pinned
NeedsEncryption(j) == (Single!isEncrypted(j.image.layers) /\ ~j.decrypt) \/ j.encrypt # {}
Supported(j, f) ==
  Single!supportedByDest([force |-> j.dest.force, destTypes |-> j.dest.types,
                          encryption |-> NeedsEncryption(j), compression |-> f])
SameFormat(t, s) == t = s \/ (Single!isSchema1(t) /\ Single!isSchema1(s))

Updates == [mime : ImageFormats \cup {NoConversion}, edits : Seq(Edits), embedded : BOOLEAN]

ImageTypes(j, st, f, u, bs, tried, a, rej, res, sk, sp) ==
  /\ CopyIsPossible(j) /\ st \in Single!Steps
  /\ rej \in BOOLEAN /\ sk \in BOOLEAN /\ sp \in BOOLEAN
  /\ f \in Algorithms \cup {NoAlgorithm} /\ u \in Updates /\ bs \in Seq(MediaTypes)
  /\ tried \in Seq(ImageFormats) /\ a \in Nat /\ res \subseteq ImageFormats

(* Until the layers are copied nothing was tried.                          *)
NothingTried(u, tried, a, rej) == u.edits = NoEdits /\ tried = <<>> /\ a = 0 /\ rej = FALSE

(* The plan, and the format that is to be tried according to the updates.  *)
PlanFits(j, f, p, u, a) ==
  /\ f \in CopyFormats
  /\ Kept(j) => p.preferred = j.image.format /\ p.others = <<>>
                /\ u.mime = NoConversion /\ u.embedded = FALSE /\ a = 0
  /\ ~Kept(j) => CandidatesAre(p, Supported(j, f))
  /\ Places(p) \subseteq Nat /\ a \in Places(p)
  /\ \A k \in Places(p) : Candidate(p, k) \in ImageFormats
  /\ \A k, l \in Places(p) : Candidate(p, k) = Candidate(p, l) => k = l
  /\ Candidate(p, a) = IF u.mime = NoConversion THEN j.image.format ELSE u.mime

(* The layers at the destination are what the edits say.                   *)
BlobsFit(j, edits, bs) ==
  /\ DOMAIN bs = DOMAIN j.image.layers
  /\ EditsFit(j.image.layers, edits) /\ EditsMake(Bases(j.image.layers), edits, bs)
  /\ edits = NoEdits => j.uncompressed = FALSE /\ \A i \in DOMAIN bs : bs[i] = Base(j.image.layers[i])
  /\ Kept(j) => edits = NoEdits
  /\ \A i \in DOMAIN bs : CryptoFits(j, i, j.image.layers[i], bs[i])

(* What was tried are the formats at the places before the next one.       *)
AllDiffer(tried) == \A k, l \in DOMAIN tried : k # l => tried[k] # tried[l]
TriedFits(p, a, tried) ==
  /\ \A k \in DOMAIN tried : \E l \in Places(p) : l < a /\ Candidate(p, l) = tried[k]
  /\ \A l \in Places(p) : l < a => \E k \in DOMAIN tried : tried[k] = Candidate(p, l)

(* The manifest that is stored.                                            *)
StoredFits(j, f, bs, m, res) ==
  /\ \A i \in DOMAIN bs : IF Single!isSchema1(m.format) THEN bs[i].comp # "zstd" /\ ~bs[i].enc
                          ELSE m.layers[i].comp = bs[i].comp /\ m.layers[i].enc = bs[i].enc
  /\ Kept(j) => /\ m.original /\ j.uncompressed = FALSE
                /\ DOMAIN bs = DOMAIN j.image.layers /\ \A i \in DOMAIN bs : bs[i] = Base(j.image.layers[i])
  /\ ~Kept(j) => \E t \in Supported(j, f) : SameFormat(t, m.format)
  /\ \A t \in res : SameFormat(t, m.format)
  /\ DOMAIN bs = DOMAIN j.image.layers
  /\ \A i \in DOMAIN bs : CryptoFits(j, i, j.image.layers[i], bs[i])

Planned == {"optimize", "layers", "manifest"}
Uncopied == {"policy", "read", "plan", "optimize", "layers"}

ImageFacts(j, st, f, p, u, bs, tried, a, rej, pt, res, sk, sp) ==
  /\ ImageTypes(j, st, f, u, bs, tried, a, rej, res, sk, sp)
  /\ st \in Uncopied => NothingTried(u, tried, a, rej)
  /\ st \in Uncopied \cup {"manifest"} => pt = {} /\ sp = FALSE
  /\ st \in Planned => PlanFits(j, f, p, u, a)
  /\ st = "manifest" => BlobsFit(j, u.edits, bs) /\ TriedFits(p, a, tried) /\ (rej => a # 0)
  /\ st = "sign" => pt # {}
  /\ \A m \in pt : StoredFits(j, f, bs, m, res)
  /\ sp => Kept(j) /\ pt # {}
  /\ AllDiffer(tried)
  /\ (st = "failed" /\ rej /\ pt = {} /\ ~Kept(j)) => Single!ToSet(tried) = Supported(j, f)

ImageInvariant ==
  ImageFacts(imageJob, imageStep, format, plan, updates, blobs, attempts, imageAt, rejected,
             put, imageResult, skipped, sigsPut)

(* The operators of the model that depend on the job only.                 *)
LEMMA JobOperators ==
  /\ Single!cannotModifyManifest <=> Kept(imageJob)
  /\ Single!destRequiresOciEncryption = NeedsEncryption(imageJob)
BY DEF Single!cannotModifyManifest, Single!destRequiresOciEncryption, Kept, NeedsEncryption

(* It holds when a copy begins.                                            *)
LEMMA ImageInit == Single!Init => ImageInvariant
<1> SUFFICES ASSUME Single!Init PROVE ImageInvariant
  OBVIOUS
<1>1. /\ imageJob \in Single!Jobs /\ Single!PossibleJob(imageJob) /\ imageStep = "policy"
      /\ format = imageJob.compression.algo /\ blobs = <<>> /\ attempts = <<>> /\ imageAt = 0
      /\ rejected = FALSE /\ put = {} /\ imageResult = {} /\ skipped = FALSE /\ sigsPut = FALSE
  BY DEF Single!Init
<1>2. CopyIsPossible(imageJob)
  BY <1>1 DEF CopyIsPossible
<1>3. format \in Algorithms \cup {NoAlgorithm}
  BY <1>1, <1>2, JobFacts
<1>4. updates \in Updates /\ updates.edits = NoEdits
  <2>1. updates = [mime |-> Single!NoConversion, edits |-> Single!NoEdits, embedded |-> FALSE]
    BY DEF Single!Init
  <2> QED BY <2>1 DEF Updates, NoConversion, Single!NoConversion, NoEdits, Single!NoEdits
<1>5. ImageTypes(imageJob, imageStep, format, updates, blobs, attempts, imageAt, rejected, imageResult, skipped, sigsPut)
  <2>1. blobs \in Seq(MediaTypes) /\ attempts \in Seq(ImageFormats)
    BY <1>1
  <2>2. imageStep \in Single!Steps
    BY <1>1 DEF Single!Steps
  <2> QED BY <2>1, <2>2, <1>1, <1>2, <1>3, <1>4 DEF ImageTypes
<1>6. AllDiffer(attempts) /\ NothingTried(updates, attempts, imageAt, rejected)
  BY <1>1, <1>4 DEF AllDiffer, NothingTried
<1> QED BY <1>1, <1>5, <1>6 DEF ImageInvariant, ImageFacts, Planned, Uncopied

(* A step that only moves on, or fails, before anything is stored.         *)
LEMMA EarlyStepKeeps ==
  ASSUME ImageInvariant, imageStep \in Uncopied, imageStep' \in Uncopied \cup {"failed"},
         imageStep' \in Planned => imageStep \in Planned,
         UNCHANGED <<imageJob, plan, updates, blobs, attempts, imageAt, rejected, put, imageResult,
                     skipped, sigsPut>>,
         format' \in Algorithms \cup {NoAlgorithm},
         imageStep' \in Planned => format' = format
  PROVE  ImageInvariant'
<1>1. ImageTypes(imageJob', imageStep', format', updates', blobs', attempts', imageAt', rejected', imageResult', skipped', sigsPut')
  BY DEF ImageInvariant, ImageFacts, ImageTypes, Single!Steps, Uncopied
<1>2. put' = {} /\ sigsPut' = FALSE /\ rejected' = FALSE /\ AllDiffer(attempts')
      /\ NothingTried(updates', attempts', imageAt', rejected')
  BY DEF ImageInvariant, ImageFacts, NothingTried
<1>3. imageStep' \in Planned => PlanFits(imageJob', format', plan', updates', imageAt')
  BY DEF ImageInvariant, ImageFacts
<1>4. imageStep' # "manifest" /\ imageStep' # "sign"
  BY DEF Uncopied
<1> QED BY <1>1, <1>2, <1>3, <1>4 DEF ImageInvariant, ImageFacts

(* The policy check and the reading of the image.                          *)
LEMMA BeginningKeeps ==
  ASSUME ImageInvariant, Single!CheckPolicy \/ Single!ReadImage
  PROVE  ImageInvariant'
<1>0. format \in Algorithms \cup {NoAlgorithm} /\ "zstd" \in Algorithms
  BY DEF ImageInvariant, ImageFacts, ImageTypes, Algorithms
<1>1. CASE Single!CheckPolicy
  <2>1. /\ imageStep = "policy" /\ imageStep' \in {"failed", "read"}
        /\ UNCHANGED <<imageJob, format, plan, updates, blobs, attempts, imageAt, rejected, put,
                       imageResult, skipped, sigsPut>>
    BY <1>1 DEF Single!CheckPolicy, Single!Fail
  <2> QED BY <2>1, <1>0, EarlyStepKeeps DEF Uncopied, Planned
<1>2. CASE Single!ReadImage
  <2>1. /\ imageStep = "read" /\ imageStep' \in {"failed", "plan"} /\ format' \in {format, "zstd"}
        /\ UNCHANGED <<imageJob, plan, updates, blobs, attempts, imageAt, rejected, put,
                       imageResult, skipped, sigsPut>>
    BY <1>2 DEF Single!ReadImage, Single!Fail
  <2> QED BY <2>1, <1>0, EarlyStepKeeps DEF Uncopied, Planned
<1> QED BY <1>1, <1>2

(* The plan.                                                               *)
LEMMA PlanKeeps ==
  ASSUME ImageInvariant, Single!Plan
  PROVE  ImageInvariant'
<1>1. PICK in : in = [srcType |-> imageJob.image.format, destTypes |-> imageJob.dest.types,
              force |-> imageJob.dest.force, compression |-> format,
              encryption |-> Single!destRequiresOciEncryption,
              cannotModify |-> Single!cannotModifyManifest]
  OBVIOUS
<1>2. PICK p : p = Single!determineManifestConversion(in)
  OBVIOUS
<1>3. /\ imageStep = "plan"
      /\ IF (imageJob.conflict /\ Single!cannotModifyManifest) \/ ~p.ok
         THEN imageStep' = "failed" /\ UNCHANGED <<plan, updates>>
         ELSE /\ plan' = p
              /\ updates' = [mime |-> IF p.needsConversion THEN p.preferred ELSE Single!NoConversion,
                             edits |-> Single!NoEdits, embedded |-> imageJob.conflict]
              /\ imageStep' = "optimize"
      /\ UNCHANGED <<imageJob, format, blobs, attempts, imageAt, rejected, put, imageResult, skipped, sigsPut>>
  BY <1>1, <1>2, Zenon DEF Single!Plan, Single!Fail
<1>4. /\ ImageTypes(imageJob, imageStep, format, updates, blobs, attempts, imageAt, rejected, imageResult, skipped, sigsPut)
      /\ NothingTried(updates, attempts, imageAt, rejected) /\ put = {} /\ sigsPut = FALSE /\ AllDiffer(attempts)
  BY <1>3 DEF ImageInvariant, ImageFacts, Uncopied
<1>5. CopyIsPossible(imageJob) /\ format \in Algorithms \cup {NoAlgorithm}
  BY <1>4 DEF ImageTypes
<1>6. CASE (imageJob.conflict /\ Single!cannotModifyManifest) \/ ~p.ok
  <2>1. imageStep' = "failed" /\ UNCHANGED <<plan, updates>>
    BY <1>3, <1>6
  <2> QED BY <2>1, <1>3, <1>5, EarlyStepKeeps DEF Uncopied, Planned
<1>7. CASE ~((imageJob.conflict /\ Single!cannotModifyManifest) \/ ~p.ok)
  <2>0. PICK j : j = imageJob
    OBVIOUS
  <2>1. /\ plan' = p /\ imageStep' = "optimize" /\ p.ok
        /\ updates' = [mime |-> IF p.needsConversion THEN p.preferred ELSE NoConversion,
                       edits |-> NoEdits, embedded |-> j.conflict]
    BY <1>3, <1>7, <2>0 DEF NoConversion, Single!NoConversion, NoEdits, Single!NoEdits
  <2>2. /\ ImageFits(j.image) /\ j.conflict \in BOOLEAN
        /\ j.dest \in [types : Seq(ImageFormats), force : ImageFormats \cup {NoForce}]
    BY <2>0, <1>5, JobFacts
  <2>3. /\ in.srcType = j.image.format /\ in.destTypes = j.dest.types /\ in.force = j.dest.force
        /\ in.compression = format /\ in.encryption = NeedsEncryption(j)
        /\ in.cannotModify <=> Kept(j)
    BY <2>0, <1>1, JobOperators
  <2>4. PlanInput(in)
    BY <2>2, <2>3, <1>5 DEF PlanInput, ImageFits
  <2>5. Single!supportedByDest(in) = Supported(j, format)
    BY <2>3 DEF Supported, Single!supportedByDest, Single!destSupportedManifestMIMETypes, Single!Acceptable
  <2>6. Supported(j, format) \subseteq ImageFormats
    BY <2>4, <2>5, OrderFacts
  <2>7. /\ format \in CopyFormats
        /\ Kept(j) => p.preferred = j.image.format /\ p.needsConversion = FALSE /\ p.others = <<>>
        /\ ~Kept(j) => CandidatesAre(p, Supported(j, format)) /\ p.needsConversion = (p.preferred # j.image.format)
    BY <2>1, <2>3, <2>4, <2>5, <1>2, PlanFacts
  <2>8. ~(j.conflict /\ Kept(j))
    BY <1>7, <2>0, JobOperators
  <2>9. j.image.format \in ImageFormats /\ NoConversion \notin ImageFormats
    BY <2>2 DEF ImageFits, NoConversion, ImageFormats, V2S1, V2S1Signed, V2S2, OCI
  <2>10. 0 \in Places(p) /\ Candidate(p, 0) = p.preferred
    BY DEF Places, Candidate
  <2>11. Places(p) \subseteq Nat /\ p.preferred \in ImageFormats
         /\ (\A k \in Places(p) : Candidate(p, k) \in ImageFormats)
         /\ (\A k, l \in Places(p) : Candidate(p, k) = Candidate(p, l) => k = l)
    <3>1. CASE Kept(j)
      <4>1. Places(p) = {0}
        BY <3>1, <2>7 DEF Places
      <4> QED BY <4>1, <3>1, <2>7, <2>9, <2>10
    <3>2. CASE ~Kept(j)
      BY <3>2, <2>6, <2>7, <2>10 DEF CandidatesAre, Places
    <3> QED BY <3>1, <3>2
  <2>12. PICK u : u = updates'
    OBVIOUS
  <2>13. /\ u.mime = (IF p.preferred # j.image.format THEN p.preferred ELSE NoConversion)
         /\ u.edits = NoEdits /\ u.embedded = j.conflict
         /\ u \in Updates
    <3>1. p.needsConversion = (p.preferred # j.image.format)
      BY <2>7
    <3>2. NoEdits \in Seq(Edits)
      BY DEF NoEdits
    <3> QED BY <3>1, <3>2, <2>1, <2>2, <2>11, <2>12 DEF Updates
  <2>14. PlanFits(j, format, p, u, 0)
    <3>1. Candidate(p, 0) = IF u.mime = NoConversion THEN j.image.format ELSE u.mime
      BY <2>9, <2>10, <2>11, <2>13
    <3>2. Kept(j) => u.mime = NoConversion /\ u.embedded = FALSE
      BY <2>2, <2>7, <2>8, <2>13
    <3> QED BY <3>1, <3>2, <2>7, <2>10, <2>11 DEF PlanFits
  <2>15. imageAt = 0 /\ attempts = <<>> /\ rejected = FALSE
    BY <1>4 DEF NothingTried
  <2>16. ImageTypes(imageJob', imageStep', format', updates', blobs', attempts', imageAt', rejected', imageResult', skipped', sigsPut')
    BY <1>3, <1>4, <2>1, <2>12, <2>13 DEF ImageTypes, Single!Steps
  <2>17. /\ PlanFits(imageJob', format', plan', updates', imageAt')
         /\ NothingTried(updates', attempts', imageAt', rejected')
    BY <1>3, <2>0, <2>1, <2>12, <2>13, <2>14, <2>15 DEF NothingTried
  <2> QED BY <1>3, <1>4, <2>1, <2>15, <2>16, <2>17 DEF ImageInvariant, ImageFacts, Uncopied
<1> QED BY <1>6, <1>7

(* The short-circuit for images that exist.                                *)
LEMMA OptimizeKeeps ==
  ASSUME ImageInvariant, Single!Optimize
  PROVE  ImageInvariant'
<1>1. /\ imageStep = "optimize"
      /\ \/ imageStep' \in {"failed", "layers"} /\ UNCHANGED <<imageResult, skipped>>
         \/ imageStep' = "done" /\ skipped' = TRUE /\ imageResult' = {imageJob.image.format}
      /\ UNCHANGED <<imageJob, format, plan, updates, blobs, attempts, imageAt, rejected, put, sigsPut>>
  BY DEF Single!Optimize, Single!Fail
<1>2. ImageTypes(imageJob, imageStep, format, updates, blobs, attempts, imageAt, rejected, imageResult, skipped, sigsPut)
  BY DEF ImageInvariant, ImageFacts
<1>3. CASE imageStep' \in {"failed", "layers"} /\ UNCHANGED <<imageResult, skipped>>
  <2>1. format' \in Algorithms \cup {NoAlgorithm}
    BY <1>1, <1>2 DEF ImageTypes
  <2> QED BY <2>1, <1>1, <1>3, EarlyStepKeeps DEF Uncopied, Planned
<1>4. CASE imageStep' = "done" /\ skipped' = TRUE /\ imageResult' = {imageJob.image.format}
  <2>1. imageJob.image.format \in ImageFormats
    BY <1>2, JobFacts DEF ImageTypes, ImageFits
  <2>2. ImageTypes(imageJob', imageStep', format', updates', blobs', attempts', imageAt', rejected', imageResult', skipped', sigsPut')
    BY <1>1, <1>2, <1>4, <2>1 DEF ImageTypes, Single!Steps
  <2>3. put' = {} /\ sigsPut' = FALSE /\ AllDiffer(attempts')
    BY <1>1 DEF ImageInvariant, ImageFacts, Uncopied
  <2> QED BY <2>2, <2>3, <1>4 DEF ImageInvariant, ImageFacts, Uncopied, Planned
<1> QED BY <1>1, <1>3, <1>4

(* The layers that were copied are what their edits say.                   *)
LEMMA LayersFitBlobs ==
  ASSUME NEW j, CopyIsPossible(j), NEW copied, DOMAIN copied = DOMAIN j.image.layers,
         \A i \in DOMAIN copied :
           LayerFits(j, i, j.image.layers[i], Base(j.image.layers[i]), Kept(j), copied[i])
           \/ (j.uncompressed /\ \E src : LayerFits(j, i, j.image.layers[i], src, Kept(j), copied[i])),
         ~(j.uncompressed /\ Kept(j)),
         NEW bs, bs = [i \in DOMAIN copied |-> copied[i].blob],
         NEW edits, edits = IF j.uncompressed \/ \E i \in DOMAIN copied : copied[i].changed
                            THEN [i \in DOMAIN copied |-> copied[i].edit] ELSE NoEdits
  PROVE  bs \in Seq(MediaTypes) /\ edits \in Seq(Edits) /\ BlobsFit(j, edits, bs)
<1>1. /\ j.image.layers \in Seq(MediaTypes \cup {NoMediaType}) /\ j.image.layers # <<>>
      /\ j.uncompressed \in BOOLEAN /\ j.encrypt \in {{}, {1}}
  BY JobFacts DEF ImageFits
<1>2. PICK layers : layers = j.image.layers
  OBVIOUS
<1>3. PICK n \in Nat : DOMAIN layers = 1..n /\ n # 0
  <2>1. layers \in Seq(MediaTypes \cup {NoMediaType}) /\ Len(layers) # 0
    BY <1>1, <1>2, EmptySeq
  <2> QED BY <2>1, LenProperties
<1>4. ASSUME NEW i \in DOMAIN layers
      PROVE  /\ copied[i].blob \in MediaTypes /\ copied[i].edit \in Edits
             /\ Edited(Base(layers[i]), copied[i].edit, copied[i].blob)
             /\ (~copied[i].changed /\ ~j.uncompressed) => copied[i].blob = Base(layers[i])
             /\ CryptoFits(j, i, layers[i], copied[i].blob)
             /\ Kept(j) /\ ~j.uncompressed => ~copied[i].changed
  BY <1>2 DEF LayerFits
<1>5. DOMAIN bs = DOMAIN layers /\ \A i \in DOMAIN layers : bs[i] = copied[i].blob
  BY <1>2
<1>6. bs \in Seq(MediaTypes)
  <2>1. bs \in [1..n -> MediaTypes]
    BY <1>2, <1>3, <1>4
  <2> QED BY <2>1
<1>7. \A i \in DOMAIN bs : CryptoFits(j, i, layers[i], bs[i])
  BY <1>4, <1>5
<1>9. DOMAIN Bases(layers) = DOMAIN layers /\ \A i \in DOMAIN layers : Bases(layers)[i] = Base(layers[i])
  BY DEF Bases
<1>10. CASE j.uncompressed \/ \E i \in DOMAIN copied : copied[i].changed
  <2>1. edits = [i \in DOMAIN layers |-> copied[i].edit]
    BY <1>2, <1>10
  <2>2. edits \in Seq(Edits)
    <3>1. edits \in [1..n -> Edits]
      BY <1>3, <1>4, <2>1
    <3> QED BY <3>1
  <2>3. edits # NoEdits
    <3>1. 1 \in DOMAIN edits
      BY <1>3, <2>1
    <3> QED BY <3>1 DEF NoEdits
  <2>4. ~Kept(j)
    BY <1>2, <1>4, <1>10
  <2>5. EditsMake(Bases(layers), edits, bs)
    BY <1>4, <1>5, <1>9, <2>1, <2>3 DEF EditsMake
  <2>6. EditsFit(layers, edits)
    BY <2>1 DEF EditsFit
  <2> QED BY <1>2, <1>5, <1>6, <1>7, <2>2, <2>3, <2>4, <2>5, <2>6 DEF BlobsFit
<1>11. CASE ~(j.uncompressed \/ \E i \in DOMAIN copied : copied[i].changed)
  <2>1. edits = NoEdits /\ j.uncompressed = FALSE
    BY <1>1, <1>11
  <2>2. edits \in Seq(Edits)
    BY <2>1 DEF NoEdits
  <2>3. \A i \in DOMAIN layers : bs[i] = Base(layers[i])
    BY <1>2, <1>4, <1>5, <1>11
  <2>4. EditsMake(Bases(layers), edits, bs)
    BY <1>9, <2>1, <2>3 DEF EditsMake
  <2>5. EditsFit(layers, edits)
    BY <2>1 DEF EditsFit
  <2> QED BY <1>2, <1>5, <1>6, <1>7, <2>1, <2>2, <2>3, <2>4, <2>5 DEF BlobsFit
<1> QED BY <1>10, <1>11

(* copyLayers.                                                             *)
LEMMA LayersKeep ==
  ASSUME ImageInvariant, Single!CopyLayers
  PROVE  ImageInvariant'
<1>1. /\ imageStep = "layers"
      /\ UNCHANGED <<imageJob, format, plan, attempts, imageAt, rejected, put, imageResult, skipped, sigsPut>>
  BY DEF Single!CopyLayers
<1>2. /\ ImageTypes(imageJob, imageStep, format, updates, blobs, attempts, imageAt, rejected, imageResult, skipped, sigsPut)
      /\ NothingTried(updates, attempts, imageAt, rejected) /\ put = {} /\ sigsPut = FALSE /\ AllDiffer(attempts)
      /\ PlanFits(imageJob, format, plan, updates, imageAt)
  BY <1>1 DEF ImageInvariant, ImageFacts, Uncopied, Planned
<1>3. CopyIsPossible(imageJob) /\ format \in CopyFormats /\ format \in Algorithms \cup {NoAlgorithm} /\ updates \in Updates
  BY <1>2 DEF ImageTypes, PlanFits
<1>4. CASE Single!Fail /\ UNCHANGED <<updates, blobs>>
  <2>1. imageStep' = "failed"
    BY <1>4 DEF Single!Fail
  <2> QED BY <2>1, <1>1, <1>3, <1>4, EarlyStepKeeps DEF Uncopied, Planned
<1>5. CASE ~(Single!Fail /\ UNCHANGED <<updates, blobs>>)
  <2>1. /\ ~(imageJob.uncompressed /\ Single!cannotModifyManifest) /\ imageStep' = "manifest"
        /\ \E copied \in [DOMAIN imageJob.image.layers -> UNION {Single!CopiedLayers(i) : i \in DOMAIN imageJob.image.layers}] :
             /\ \A i \in DOMAIN copied : copied[i] \in Single!CopiedLayers(i)
             /\ blobs' = [i \in DOMAIN copied |-> copied[i].blob]
             /\ updates' = [updates EXCEPT !.edits =
                  IF imageJob.uncompressed \/ \E i \in DOMAIN copied : copied[i].changed
                  THEN [i \in DOMAIN copied |-> copied[i].edit] ELSE Single!NoEdits]
    BY <1>5 DEF Single!CopyLayers
  <2>2. PICK copied : /\ DOMAIN copied = DOMAIN imageJob.image.layers
                      /\ \A i \in DOMAIN copied : copied[i] \in Single!CopiedLayers(i)
                      /\ blobs' = [i \in DOMAIN copied |-> copied[i].blob]
                      /\ updates' = [updates EXCEPT !.edits =
                           IF imageJob.uncompressed \/ \E i \in DOMAIN copied : copied[i].changed
                           THEN [i \in DOMAIN copied |-> copied[i].edit] ELSE Single!NoEdits]
    BY <2>1
  <2>3. PICK edits : edits = IF imageJob.uncompressed \/ \E i \in DOMAIN copied : copied[i].changed
                           THEN [i \in DOMAIN copied |-> copied[i].edit] ELSE NoEdits
    OBVIOUS
  <2>4. updates' = [updates EXCEPT !.edits = edits]
    BY <2>2, <2>3 DEF NoEdits, Single!NoEdits
  <2>5. PICK j : j = imageJob
    OBVIOUS
  <2>6. PICK bs : bs = blobs'
    OBVIOUS
  <2>7. ASSUME NEW i \in DOMAIN copied
        PROVE  LayerFits(j, i, j.image.layers[i], Base(j.image.layers[i]), Kept(j), copied[i])
               \/ (j.uncompressed /\ \E src : LayerFits(j, i, j.image.layers[i], src, Kept(j), copied[i]))
    <3>1. PICK src : src = Single!SourceBlob(i)
      OBVIOUS
    <3>2. LayerFits(j, i, j.image.layers[i], src, Single!cannotModifyManifest, copied[i])
      BY <2>2, <2>5, <3>1, <1>3, CopiedFits
    <3>3. LayerFits(j, i, j.image.layers[i], src, Kept(j), copied[i])
      BY <3>2, <2>5, JobOperators DEF LayerFits
    <3>4. ~j.uncompressed => src = Base(j.image.layers[i])
      BY <2>2, <2>5, <3>1, <1>3, SourceFacts DEF SourceFits
    <3> QED BY <3>3, <3>4
  <2>8. ~(j.uncompressed /\ Kept(j))
    BY <2>1, <2>5, JobOperators
  <2>9. bs \in Seq(MediaTypes) /\ edits \in Seq(Edits) /\ BlobsFit(j, edits, bs)
    <3>1. /\ CopyIsPossible(j) /\ DOMAIN copied = DOMAIN j.image.layers
          /\ bs = [i \in DOMAIN copied |-> copied[i].blob]
          /\ edits = IF j.uncompressed \/ \E i \in DOMAIN copied : copied[i].changed
                            THEN [i \in DOMAIN copied |-> copied[i].edit] ELSE NoEdits
      BY <1>3, <2>2, <2>3, <2>5, <2>6
    <3> QED BY <3>1, <2>7, <2>8, LayersFitBlobs
  <2>10. /\ updates' \in Updates /\ updates'.edits = edits /\ updates'.mime = updates.mime
         /\ updates'.embedded = updates.embedded
    BY <1>3, <2>4, <2>9 DEF Updates
  <2>11. ImageTypes(imageJob', imageStep', format', updates', blobs', attempts', imageAt', rejected', imageResult', skipped', sigsPut')
    BY <1>1, <1>2, <2>1, <2>6, <2>9, <2>10 DEF ImageTypes, Single!Steps
  <2>12. PlanFits(imageJob', format', plan', updates', imageAt')
    BY <1>1, <1>2, <2>10 DEF PlanFits
  <2>13. BlobsFit(imageJob', updates'.edits, blobs')
    BY <1>1, <2>5, <2>6, <2>9, <2>10
  <2>14. imageAt = 0 /\ attempts = <<>> /\ rejected = FALSE
    BY <1>2 DEF NothingTried
  <2>15. TriedFits(plan', imageAt', attempts')
    <3>1. Places(plan) \subseteq Nat
      BY <1>2 DEF PlanFits
    <3> QED BY <3>1, <1>1, <2>14 DEF TriedFits
  <2> QED BY <1>1, <1>2, <2>1, <2>11, <2>12, <2>13, <2>14, <2>15 DEF ImageInvariant, ImageFacts, Uncopied
<1> QED BY <1>4, <1>5

(* The formats tried when the one at place a has been.                     *)
TriedUpTo(p, a, tried) ==
  /\ \A k \in DOMAIN tried : \E l \in Places(p) : l <= a /\ Candidate(p, l) = tried[k]
  /\ \A l \in Places(p) : l <= a => \E k \in DOMAIN tried : tried[k] = Candidate(p, l)

(* What a further attempt adds to the formats that were tried.             *)
LEMMA AttemptsGrow ==
  ASSUME NEW p, NEW a, NEW tried \in Seq(ImageFormats), NEW new, new = Append(tried, Candidate(p, a)),
         Places(p) \subseteq Nat, a \in Places(p), TriedFits(p, a, tried), AllDiffer(tried),
         \A k \in Places(p) : Candidate(p, k) \in ImageFormats,
         \A k, l \in Places(p) : Candidate(p, k) = Candidate(p, l) => k = l
  PROVE  new \in Seq(ImageFormats) /\ AllDiffer(new) /\ TriedUpTo(p, a, new)
<1>1. PICK t \in ImageFormats : t = Candidate(p, a)
  OBVIOUS
<1>2. PICK n \in Nat : n = Len(tried) /\ DOMAIN tried = 1..n
  BY LenProperties
<1>3. /\ new \in Seq(ImageFormats) /\ DOMAIN new = 1..(n + 1)
      /\ \A k \in 1..n : new[k] = tried[k]
      /\ new[n + 1] = t
  <2>1. new = Append(tried, t)
    BY <1>1
  <2>2. new \in Seq(ImageFormats) /\ Len(new) = n + 1
    BY <2>1, <1>2
  <2> QED BY <2>1, <2>2, <1>2
<1>4. DOMAIN new = DOMAIN tried \cup {n + 1} /\ n + 1 \notin DOMAIN tried /\ n + 1 \in DOMAIN new
  BY <1>2, <1>3
<1>5. \A k \in DOMAIN tried : new[k] = tried[k]
  BY <1>2, <1>3
<1>6. \A k \in DOMAIN tried : \E l \in Places(p) : l < a /\ Candidate(p, l) = tried[k]
  BY DEF TriedFits
<1>7. \A k \in DOMAIN tried : tried[k] # t
  <2> SUFFICES ASSUME NEW k \in DOMAIN tried, tried[k] = t PROVE FALSE
    OBVIOUS
  <2>1. PICK l \in Places(p) : l < a /\ Candidate(p, l) = tried[k]
    BY <1>6
  <2>2. l = a /\ l \in Nat
    BY <2>1, <1>1
  <2> QED BY <2>1, <2>2
<1>8. AllDiffer(new)
  BY <1>3, <1>4, <1>5, <1>7 DEF AllDiffer
<1>9. ASSUME NEW k \in DOMAIN new PROVE \E l \in Places(p) : l <= a /\ Candidate(p, l) = new[k]
  <2>1. CASE k = n + 1
    <3>1. a <= a
      OBVIOUS
    <3> QED BY <3>1, <2>1, <1>1, <1>3
  <2>2. CASE k # n + 1
    <3>1. k \in DOMAIN tried
      BY <2>2, <1>4
    <3>2. PICK l \in Places(p) : l < a /\ Candidate(p, l) = tried[k]
      BY <3>1, <1>6
    <3>3. l <= a
      BY <3>2
    <3> QED BY <3>1, <3>2, <3>3, <1>5
  <2> QED BY <2>1, <2>2
<1>10. ASSUME NEW l \in Places(p), l <= a PROVE \E k \in DOMAIN new : new[k] = Candidate(p, l)
  <2>1. CASE l = a
    BY <2>1, <1>1, <1>3, <1>4
  <2>2. CASE l # a
    <3>1. l < a
      BY <2>2, <1>10
    <3>2. PICK k \in DOMAIN tried : tried[k] = Candidate(p, l)
      BY <3>1 DEF TriedFits
    <3> QED BY <3>2, <1>4, <1>5
  <2> QED BY <2>1, <2>2
<1> QED BY <1>3, <1>8, <1>9, <1>10 DEF TriedUpTo

(* A failed attempt is followed by the next format, or all were tried.     *)
LEMMA FailedAttemptKeeps ==
  ASSUME ImageInvariant, imageStep = "manifest", NEW about, Single!AttemptFails(about),
         attempts' = Append(attempts, Single!AttemptedFormat),
         UNCHANGED <<imageJob, format, plan, blobs, skipped, sigsPut>>
  PROVE  ImageInvariant'
<1>1. /\ ImageTypes(imageJob, imageStep, format, updates, blobs, attempts, imageAt, rejected, imageResult, skipped, sigsPut)
      /\ put = {} /\ sigsPut = FALSE /\ AllDiffer(attempts)
      /\ PlanFits(imageJob, format, plan, updates, imageAt)
      /\ BlobsFit(imageJob, updates.edits, blobs) /\ TriedFits(plan, imageAt, attempts)
      /\ rejected => imageAt # 0
  BY DEF ImageInvariant, ImageFacts, Uncopied, Planned
<1>2. PICK p : p = plan
  OBVIOUS
<1>3. PICK a : a = imageAt
  OBVIOUS
<1>4. /\ Places(p) \subseteq Nat /\ a \in Places(p)
      /\ \A k \in Places(p) : Candidate(p, k) \in ImageFormats
      /\ \A k, l \in Places(p) : Candidate(p, k) = Candidate(p, l) => k = l
  BY <1>1, <1>2, <1>3 DEF PlanFits
<1>5. Single!AttemptedFormat = Candidate(p, a)
  BY <1>2, <1>3 DEF Single!AttemptedFormat, Candidate
<1>6. attempts \in Seq(ImageFormats) /\ updates \in Updates
  BY <1>1 DEF ImageTypes
<1>7. PICK new : new = attempts'
  OBVIOUS
<1>8. /\ new \in Seq(ImageFormats) /\ AllDiffer(new)
      /\ \A k \in DOMAIN new : \E l \in Places(p) : l <= a /\ Candidate(p, l) = new[k]
      /\ \A l \in Places(p) : l <= a => \E k \in DOMAIN new : new[k] = Candidate(p, l)
  <2>1. PICK tried \in Seq(ImageFormats) : tried = attempts
    BY <1>6
  <2>2. new = Append(tried, Candidate(p, a)) /\ TriedFits(p, a, tried) /\ AllDiffer(tried)
    BY <1>1, <1>2, <1>3, <1>5, <1>7, <2>1
  <2>3. new \in Seq(ImageFormats) /\ AllDiffer(new) /\ TriedUpTo(p, a, new)
    BY <2>2, <1>4, AttemptsGrow
  <2> QED BY <2>3 DEF TriedUpTo
<1>9. PICK left : left = {k \in DOMAIN p.others : k > a}
  OBVIOUS
<1>10. /\ rejected' = (rejected \/ (a = 0 /\ about)) /\ put' = {} /\ UNCHANGED imageResult
       /\ IF left # {} /\ (a # 0 \/ about) /\ ~Kept(imageJob)
          THEN /\ imageAt' = Single!Min(left)
               /\ updates' = [mime |-> p.others[imageAt'], edits |-> updates.edits, embedded |-> updates.embedded]
               /\ imageStep' = imageStep
          ELSE imageStep' = "failed" /\ UNCHANGED <<imageAt, updates>>
  BY <1>1, <1>2, <1>3, <1>9, JobOperators DEF Single!AttemptFails, Single!formatsLeft, Single!Fail
<1>11. rejected' \in BOOLEAN
  BY <1>10
<1>12. CASE left # {} /\ (a # 0 \/ about) /\ ~Kept(imageJob)
  <2>1. PICK b : b = imageAt'
    OBVIOUS
  <2>2. b \in left /\ \A k \in left : b <= k
    <3>1. left \subseteq Nat /\ left # {}
      BY <1>4, <1>9, <1>12 DEF Places
    <3>2. \E k \in left : \A l \in left : k <= l
      BY <3>1, LeastElement
    <3>3. b = Single!Min(left)
      BY <2>1, <1>10, <1>12
    <3> QED BY <3>2, <3>3 DEF Single!Min
  <2>3. b \in Places(p) /\ b > a /\ b \in Nat /\ a \in Nat /\ b # 0
    BY <2>2, <1>4, <1>9 DEF Places
  <2>4. Candidate(p, b) = p.others[b] /\ Candidate(p, b) \in ImageFormats
    BY <2>3, <1>4 DEF Candidate
  <2>5. \A l \in Places(p) : l < b <=> l <= a
    <3> SUFFICES ASSUME NEW l \in Places(p) PROVE l < b <=> l <= a
      OBVIOUS
    <3>1. l \in Nat
      BY <1>4
    <3>2. l > a => l \in left
      BY <3>1, <2>3, <1>9 DEF Places
    <3>3. l > a => b <= l
      BY <3>2, <2>2
    <3> QED BY <3>1, <3>3, <2>3
  <2>6. TriedFits(p, b, new)
    BY <2>5, <1>8 DEF TriedFits
  <2>7. PICK u : u = updates'
    OBVIOUS
  <2>8. u = [mime |-> p.others[b], edits |-> updates.edits, embedded |-> updates.embedded]
    BY <2>1, <2>7, <1>10, <1>12
  <2>9. u \in Updates /\ u.edits = updates.edits /\ u.mime = Candidate(p, b)
    BY <2>4, <2>8, <1>6 DEF Updates
  <2>10. u.mime # NoConversion
    BY <2>4, <2>9 DEF NoConversion, ImageFormats, V2S1, V2S1Signed, V2S2, OCI
  <2>11. PlanFits(imageJob, format, p, u, b)
    BY <2>3, <2>9, <2>10, <1>1, <1>2, <1>12 DEF PlanFits
  <2>12. ImageTypes(imageJob', imageStep', format', updates', blobs', attempts', imageAt', rejected', imageResult', skipped', sigsPut')
    BY <1>1, <1>7, <1>8, <1>10, <1>11, <1>12, <2>1, <2>3, <2>7, <2>9 DEF ImageTypes
  <2>13. /\ PlanFits(imageJob', format', plan', updates', imageAt') /\ TriedFits(plan', imageAt', attempts')
         /\ BlobsFit(imageJob', updates'.edits, blobs') /\ AllDiffer(attempts') /\ imageAt' # 0
    BY <1>1, <1>2, <1>7, <1>8, <2>1, <2>3, <2>6, <2>7, <2>9, <2>11
  <2>14. imageStep' = "manifest" /\ put' = {} /\ sigsPut' = FALSE
    BY <1>1, <1>10, <1>12
  <2> QED BY <2>12, <2>13, <2>14 DEF ImageInvariant, ImageFacts, Uncopied
<1>13. CASE ~(left # {} /\ (a # 0 \/ about) /\ ~Kept(imageJob))
  <2>1. imageStep' = "failed" /\ UNCHANGED <<imageAt, updates>>
    BY <1>10, <1>13
  <2>2. ImageTypes(imageJob', imageStep', format', updates', blobs', attempts', imageAt', rejected', imageResult', skipped', sigsPut')
    BY <1>1, <1>7, <1>8, <1>10, <1>11, <2>1 DEF ImageTypes, Single!Steps
  <2>3. ASSUME rejected', ~Kept(imageJob) PROVE Single!ToSet(new) = Supported(imageJob, format)
    <3>1. a # 0 \/ about
      BY <1>1, <1>3, <1>10, <2>3
    <3>2. left = {}
      BY <3>1, <1>13, <2>3
    <3>3. \A l \in Places(p) : l <= a
      BY <3>2, <1>4, <1>9 DEF Places
    <3>4. CandidatesAre(p, Supported(imageJob, format))
      BY <1>1, <1>2, <2>3 DEF PlanFits
    <3>5. \A k \in DOMAIN new : new[k] \in Supported(imageJob, format)
      BY <3>4, <1>8 DEF CandidatesAre
    <3>6. \A t \in Supported(imageJob, format) : \E k \in DOMAIN new : new[k] = t
      BY <3>3, <3>4, <1>8 DEF CandidatesAre
    <3> QED BY <3>5, <3>6 DEF Single!ToSet
  <2> QED BY <1>1, <1>7, <1>8, <1>10, <2>1, <2>2, <2>3 DEF ImageInvariant, ImageFacts, Uncopied, Planned
<1> QED BY <1>12, <1>13

(* The manifest that is stored, as it is or updated, describes the layers, *)
(* in the format that was tried.                                           *)
LEMMA PendingFits ==
  ASSUME ImageInvariant, imageStep = "manifest", NEW pending, pending = Single!PendingManifest, pending.ok
  PROVE  StoredFits(imageJob, format, blobs, pending.value, {Single!AttemptedFormat})
<1>1. PICK j : j = imageJob
  OBVIOUS
<1>2. PICK bs : bs = blobs
  OBVIOUS
<1>3. PICK u : u = updates
  OBVIOUS
<1>4. PICK image : image = j.image
  OBVIOUS
<1>5. /\ CopyIsPossible(j) /\ u \in Updates
      /\ PlanFits(j, format, plan, u, imageAt) /\ BlobsFit(j, u.edits, bs)
  BY <1>1, <1>2, <1>3 DEF ImageInvariant, ImageFacts, ImageTypes, Planned
<1>6. /\ u.mime \in ImageFormats \cup {NoConversion} /\ u.edits \in Seq(Edits) /\ u.embedded \in BOOLEAN
  BY <1>5 DEF Updates
<1>7. ImageFits(image)
  BY <1>4, <1>5, JobFacts
<1>8. PICK t : t = Candidate(plan, imageAt)
  OBVIOUS
<1>9. /\ Single!AttemptedFormat = t /\ t = IF u.mime = NoConversion THEN image.format ELSE u.mime
      /\ ~Kept(j) => t \in Supported(j, format)
  <2>1. Single!AttemptedFormat = t
    BY <1>8 DEF Single!AttemptedFormat, Candidate
  <2>2. imageAt \in Places(plan)
    BY <1>5 DEF PlanFits
  <2>3. ~Kept(j) => t \in Supported(j, format)
    BY <1>5, <1>8, <2>2 DEF PlanFits, CandidatesAre
  <2> QED BY <2>1, <2>3, <1>4, <1>5, <1>8 DEF PlanFits
<1>10. /\ DOMAIN bs = DOMAIN image.layers
       /\ EditsFit(image.layers, u.edits) /\ EditsMake(Bases(image.layers), u.edits, bs)
       /\ u.edits = NoEdits => j.uncompressed = FALSE /\ \A i \in DOMAIN bs : bs[i] = Base(image.layers[i])
       /\ Kept(j) => u.edits = NoEdits
       /\ \A i \in DOMAIN bs : CryptoFits(j, i, image.layers[i], bs[i])
  BY <1>4, <1>5 DEF BlobsFit
<1>11. PICK nothing \in BOOLEAN : nothing = (u.mime = NoConversion /\ u.edits = NoEdits /\ ~u.embedded)
  OBVIOUS
<1>12. Single!noPendingManifestUpdates <=> nothing
  BY <1>3, <1>11 DEF Single!noPendingManifestUpdates, NoConversion, Single!NoConversion, NoEdits, Single!NoEdits
<1>13. Kept(j) => nothing
  BY <1>5, <1>10, <1>11 DEF PlanFits
<1>14. PICK m : m = pending.value
  OBVIOUS
<1>15. CASE nothing
  <2>1. pending = Single!Ok([format |-> image.format, layers |-> image.layers, original |-> TRUE])
    BY <1>1, <1>4, <1>12, <1>15 DEF Single!PendingManifest
  <2>2. m.format = image.format /\ m.layers = image.layers /\ m.original = TRUE
    BY <2>1, <1>14 DEF Single!Ok
  <2>3. j.uncompressed = FALSE /\ \A i \in DOMAIN bs : bs[i] = Base(image.layers[i])
    BY <1>10, <1>11, <1>15
  <2>4. t = m.format
    BY <2>2, <1>9, <1>11, <1>15
  <2>5. ASSUME NEW i \in DOMAIN bs
        PROVE IF Single!isSchema1(m.format) THEN bs[i].comp # "zstd" /\ ~bs[i].enc
              ELSE m.layers[i].comp = bs[i].comp /\ m.layers[i].enc = bs[i].enc
    <3>1. Single!isSchema1(m.format) <=> image.layers[i] = NoMediaType
      BY <2>2, <1>7, <1>10 DEF ImageFits
    <3>2. CASE image.layers[i] = NoMediaType
      <4>1. bs[i] = [foreign |-> FALSE, comp |-> "gzip", enc |-> FALSE]
        BY <3>2, <2>3 DEF Base
      <4> QED BY <4>1, <3>1, <3>2
    <3>3. CASE image.layers[i] # NoMediaType
      BY <3>1, <3>3, <2>2, <2>3 DEF Base
    <3> QED BY <3>2, <3>3
  <2>6. SameFormat(t, m.format)
    BY <2>4 DEF SameFormat
  <2>7. StoredFits(j, format, bs, m, {t})
    BY <2>2, <2>3, <2>5, <2>6, <1>4, <1>9, <1>10 DEF StoredFits
  <2> QED BY <2>7, <1>1, <1>2, <1>9, <1>14
<1>16. CASE ~nothing
  <2>1. PICK up : up = Single!UpdatedImage(image, u.mime, u.edits)
    OBVIOUS
  <2>2. pending = IF up.ok THEN Single!Ok([format |-> up.value.format, layers |-> up.value.layers, original |-> FALSE])
                  ELSE up
    <3>1. pending # Single!Error
      BY DEF Single!Error
    <3>2. pending = Single!AndThen(up,
            LAMBDA new : Single!Ok([format |-> new.format, layers |-> new.layers, original |-> FALSE]))
      BY <3>1, <2>1, <1>1, <1>3, <1>4, <1>12, <1>16 DEF Single!PendingManifest
    <3> QED BY <3>2 DEF Single!AndThen
  <2>3. up.ok
    BY <2>2
  <2>4. m.format = up.value.format /\ m.layers = up.value.layers
    BY <2>2, <2>3, <1>14 DEF Single!Ok
  <2>5. PICK edits \in Seq(Edits) : edits = u.edits
    BY <1>6
  <2>6. PICK target \in ImageFormats \cup {NoConversion} : target = u.mime
    BY <1>6
  <2>7. /\ m.format = ConvertedFormat(image, target) /\ DOMAIN m.layers = DOMAIN image.layers
        /\ Described(m.format, m.layers, bs)
    <3>1. /\ EditsFit(image.layers, edits) /\ EditsMake(Bases(image.layers), edits, bs)
          /\ up = Single!UpdatedImage(image, target, edits)
      BY <1>10, <2>1, <2>5, <2>6
    <3> QED BY <3>1, <2>3, <2>4, <1>7, UpdatedImageDescribes
  <2>8. SameFormat(t, m.format)
    BY <2>6, <2>7, <1>9 DEF ConvertedFormat, SameFormat
  <2>9. \A i \in DOMAIN bs : IF Single!isSchema1(m.format) THEN bs[i].comp # "zstd" /\ ~bs[i].enc
                              ELSE m.layers[i].comp = bs[i].comp /\ m.layers[i].enc = bs[i].enc
    BY <2>7, <1>10 DEF Described
  <2>10. StoredFits(j, format, bs, m, {t})
    BY <2>8, <2>9, <1>4, <1>9, <1>10, <1>13, <1>16 DEF StoredFits
  <2> QED BY <2>10, <1>1, <1>2, <1>9, <1>14
<1> QED BY <1>15, <1>16

(* copyUpdatedConfigAndManifest, and the loop over the formats.            *)
LEMMA ManifestKeeps ==
  ASSUME ImageInvariant, Single!CopyManifest
  PROVE  ImageInvariant'
<1>1. PICK pending : pending = Single!PendingManifest
  OBVIOUS
<1>2. /\ imageStep = "manifest" /\ attempts' = Append(attempts, Single!AttemptedFormat)
      /\ UNCHANGED <<imageJob, format, plan, blobs, skipped, sigsPut>>
  BY DEF Single!CopyManifest
<1>3. \/ \E about : Single!AttemptFails(about)
      \/ /\ pending.ok /\ put' = {pending.value} /\ imageResult' = {Single!AttemptedFormat}
         /\ imageStep' = "sign" /\ UNCHANGED <<imageAt, updates, rejected>>
  BY <1>1 DEF Single!CopyManifest
<1>4. CASE \E about : Single!AttemptFails(about)
  BY <1>2, <1>4, FailedAttemptKeeps
<1>5. CASE /\ pending.ok /\ put' = {pending.value} /\ imageResult' = {Single!AttemptedFormat}
           /\ imageStep' = "sign" /\ UNCHANGED <<imageAt, updates, rejected>>
  <2>1. StoredFits(imageJob, format, blobs, pending.value, {Single!AttemptedFormat})
    BY <1>1, <1>2, <1>5, PendingFits
  <2>2. \A m \in put' : StoredFits(imageJob', format', blobs', m, imageResult')
    BY <2>1, <1>2, <1>5
  <2>3. /\ ImageTypes(imageJob, imageStep, format, updates, blobs, attempts, imageAt, rejected, imageResult, skipped, sigsPut)
        /\ sigsPut = FALSE /\ AllDiffer(attempts) /\ TriedFits(plan, imageAt, attempts)
        /\ PlanFits(imageJob, format, plan, updates, imageAt)
    BY <1>2 DEF ImageInvariant, ImageFacts, Uncopied, Planned
  <2>4. PICK p : p = plan
    OBVIOUS
  <2>5. PICK a : a = imageAt
    OBVIOUS
  <2>6. /\ Places(p) \subseteq Nat /\ a \in Places(p)
        /\ \A k \in Places(p) : Candidate(p, k) \in ImageFormats
        /\ \A k, l \in Places(p) : Candidate(p, k) = Candidate(p, l) => k = l
    BY <2>3, <2>4, <2>5 DEF PlanFits
  <2>7. Single!AttemptedFormat = Candidate(p, a)
    BY <2>4, <2>5 DEF Single!AttemptedFormat, Candidate
  <2>8. PICK tried \in Seq(ImageFormats) : tried = attempts
    BY <2>3 DEF ImageTypes
  <2>9. PICK new : new = attempts'
    OBVIOUS
  <2>10. new = Append(tried, Candidate(p, a)) /\ TriedFits(p, a, tried) /\ AllDiffer(tried)
    BY <1>2, <2>3, <2>4, <2>5, <2>7, <2>8, <2>9
  <2>11. new \in Seq(ImageFormats) /\ AllDiffer(new)
    BY <2>6, <2>10, AttemptsGrow
  <2>12. imageResult' \subseteq ImageFormats
    BY <2>6, <2>7, <1>5
  <2>13. ImageTypes(imageJob', imageStep', format', updates', blobs', attempts', imageAt', rejected', imageResult', skipped', sigsPut')
    BY <1>2, <1>5, <2>3, <2>9, <2>11, <2>12 DEF ImageTypes, Single!Steps
  <2>14. put' # {} /\ sigsPut' = FALSE
    BY <1>2, <1>5, <2>3
  <2> QED BY <1>5, <2>2, <2>9, <2>11, <2>13, <2>14 DEF ImageInvariant, ImageFacts, Uncopied, Planned
<1> QED BY <1>3, <1>4, <1>5

(* createSignatures, PutSignaturesWithFormat.                              *)
LEMMA SignKeeps ==
  ASSUME ImageInvariant, Single!Sign
  PROVE  ImageInvariant'
<1>1. /\ imageStep = "sign" /\ imageStep' \in {"failed", "done"} /\ sigsPut' \in {sigsPut, imageJob.signing.sigs}
      /\ UNCHANGED <<imageJob, format, plan, updates, blobs, attempts, imageAt, rejected, put, imageResult, skipped>>
  BY DEF Single!Sign, Single!Fail
<1>2. /\ ImageTypes(imageJob, imageStep, format, updates, blobs, attempts, imageAt, rejected, imageResult, skipped, sigsPut)
      /\ put # {} /\ AllDiffer(attempts) /\ (sigsPut => Kept(imageJob))
      /\ \A m \in put : StoredFits(imageJob, format, blobs, m, imageResult)
  BY <1>1 DEF ImageInvariant, ImageFacts
<1>3. imageJob.signing.sigs \in BOOLEAN
  BY <1>2, JobFacts DEF ImageTypes
<1>4. imageJob.signing.sigs => Kept(imageJob)
  BY DEF Kept
<1>5. ImageTypes(imageJob', imageStep', format', updates', blobs', attempts', imageAt', rejected', imageResult', skipped', sigsPut')
  BY <1>1, <1>2, <1>3 DEF ImageTypes, Single!Steps
<1> QED BY <1>1, <1>2, <1>4, <1>5 DEF ImageInvariant, ImageFacts, Uncopied, Planned

(* A step of another part of the run leaves the copy alone.                *)
LEMMA ImageStutter == ImageInvariant /\ UNCHANGED imageVars => ImageInvariant'
BY DEF ImageInvariant, imageVars

(* Every step of the copy keeps the invariant.                             *)
LEMMA ImageNext == ImageInvariant /\ Single!Next => ImageInvariant'
<1> SUFFICES ASSUME ImageInvariant, Single!Next PROVE ImageInvariant'
  OBVIOUS
<1>1. CASE Single!Returned
  <2>1. UNCHANGED imageVars
    BY <1>1 DEF Single!Returned, Single!vars, imageVars
  <2> QED BY <2>1, ImageStutter
<1> QED BY <1>1, BeginningKeeps, PlanKeeps, OptimizeKeeps, LayersKeep, ManifestKeeps, SignKeeps DEF Single!Next

(* The invariant says what StoredImageIsConsistent does.                   *)
LEMMA StoredFollows == ImageInvariant => Single!StoredImageIsConsistent
<1> SUFFICES ASSUME ImageInvariant PROVE Single!StoredImageIsConsistent
  OBVIOUS
<1>1. /\ ImageTypes(imageJob, imageStep, format, updates, blobs, attempts, imageAt, rejected, imageResult, skipped, sigsPut)
      /\ \A m \in put : StoredFits(imageJob, format, blobs, m, imageResult)
  BY DEF ImageInvariant, ImageFacts
<1>2. Single!TypeOK
  <2>1. /\ MediaTypes = Single!MediaTypes /\ Edits = Single!Edits /\ ImageFormats = Single!ImageFormats
        /\ Algorithms = Single!Algorithms /\ NoAlgorithm = Single!NoAlgorithm /\ NoConversion = Single!NoConversion
    BY DEF MediaTypes, Single!MediaTypes, Edits, Single!Edits, ImageFormats, Single!ImageFormats, Algorithms, Single!Algorithms,
      NoAlgorithm, Single!NoAlgorithm, NoConversion, Single!NoConversion, V2S1, Single!V2S1, V2S1Signed, Single!V2S1Signed,
      V2S2, Single!V2S2, OCI, Single!OCI
  <2>2. /\ updates.mime \in ImageFormats \cup {NoConversion} /\ updates.edits \in Seq(Edits)
        /\ updates.embedded \in BOOLEAN
    BY <1>1 DEF ImageTypes, Updates
  <2>3. imageJob \in Single!Jobs
    BY <1>1 DEF ImageTypes, CopyIsPossible
  <2> QED BY <2>1, <2>2, <2>3, <1>1 DEF ImageTypes, Single!TypeOK
<1>3. Single!ManifestDescribesLayers
  BY <1>1 DEF StoredFits, Single!ManifestDescribesLayers
<1>4. Single!ResultIsWhatWasStored
  BY <1>1 DEF StoredFits, SameFormat, Single!ResultIsWhatWasStored
<1>5. Single!StoredFormatIsAcceptable
  <2> SUFFICES ASSUME NEW m \in put, ~Single!cannotModifyManifest
      PROVE \E t \in Single!ToSet(Single!destSupportedManifestMIMETypes([force |-> imageJob.dest.force, destTypes |-> imageJob.dest.types])) :
        /\ t = m.format \/ (Single!isSchema1(t) /\ Single!isSchema1(m.format))
        /\ Single!Acceptable([encryption |-> Single!destRequiresOciEncryption, compression |-> format], t)
    BY DEF Single!StoredFormatIsAcceptable
  <2>1. PICK t \in Supported(imageJob, format) : SameFormat(t, m.format)
    BY <1>1, JobOperators DEF StoredFits
  <2>2. /\ t \in Single!ToSet(Single!destSupportedManifestMIMETypes([force |-> imageJob.dest.force, destTypes |-> imageJob.dest.types]))
        /\ Single!Acceptable([encryption |-> NeedsEncryption(imageJob), compression |-> format], t)
    BY <2>1 DEF Supported, Single!supportedByDest, Single!destSupportedManifestMIMETypes, Single!Acceptable
  <2>3. Single!destRequiresOciEncryption = NeedsEncryption(imageJob)
    BY JobOperators
  <2> QED BY <2>1, <2>2, <2>3 DEF SameFormat
<1> QED BY <1>2, <1>3, <1>4, <1>5 DEF Single!StoredImageIsConsistent

(* It says what OptionsAreHonoured does.                                   *)
LEMMA OptionsFollow == ImageInvariant => Single!OptionsAreHonoured
<1> SUFFICES ASSUME ImageInvariant PROVE Single!OptionsAreHonoured
  OBVIOUS
<1>1. /\ CopyIsPossible(imageJob)
      /\ \A m \in put : StoredFits(imageJob, format, blobs, m, imageResult)
      /\ sigsPut => Kept(imageJob) /\ put # {}
  BY DEF ImageInvariant, ImageFacts, ImageTypes
<1>2. ASSUME NEW m \in put, Kept(imageJob)
      PROVE  m.original /\ \A i \in DOMAIN blobs : blobs[i] = Single!SourceBlob(i)
  <2>1. /\ m.original /\ imageJob.uncompressed = FALSE
        /\ DOMAIN blobs = DOMAIN imageJob.image.layers
        /\ \A i \in DOMAIN blobs : blobs[i] = Base(imageJob.image.layers[i])
    BY <1>1, <1>2 DEF StoredFits
  <2>2. ASSUME NEW i \in DOMAIN blobs PROVE blobs[i] = Single!SourceBlob(i)
    <3>1. Single!SourceBlob(i) = Base(imageJob.image.layers[i])
      BY <1>1, <2>1, SourceFacts DEF SourceFits
    <3> QED BY <3>1, <2>1
  <2> QED BY <2>1, <2>2
<1>3. Single!UnmodifiableManifestIsKept
  BY <1>1, <1>2, JobOperators DEF Single!UnmodifiableManifestIsKept
<1>4. Single!EncryptionIsHonoured
  <2> SUFFICES ASSUME NEW m \in put, NEW i \in DOMAIN blobs
               PROVE  IF Single!Skips(i) THEN blobs[i] = Single!SourceBlob(i)
                      ELSE /\ i \in imageJob.encrypt => blobs[i].enc
                           /\ imageJob.decrypt /\ blobs[i].enc => i \in imageJob.encrypt
    BY DEF Single!EncryptionIsHonoured
  <2>1. /\ DOMAIN blobs = DOMAIN imageJob.image.layers
        /\ CryptoFits(imageJob, i, imageJob.image.layers[i], blobs[i])
    BY <1>1 DEF StoredFits
  <2>2. CASE Single!Skips(i)
    <3>1. SkippedFits(imageJob, imageJob.image.layers[i])
      BY <1>1, <2>1, <2>2, SkipsFacts
    <3>2. Single!SourceBlob(i) = Base(imageJob.image.layers[i])
      BY <1>1, <2>1, <3>1, SourceFacts DEF SourceFits, SkippedFits
    <3> QED BY <2>1, <2>2, <3>1, <3>2 DEF CryptoFits
  <2>3. CASE ~Single!Skips(i)
    BY <1>1, <2>1, <2>3, SkipsFacts DEF CryptoFits
  <2> QED BY <2>2, <2>3
<1> QED BY <1>3, <1>4 DEF Single!OptionsAreHonoured

(* It says what EveryFormatIsTried does.                                   *)
LEMMA FormatsFollow == ImageInvariant => Single!EveryFormatIsTried
<1> SUFFICES ASSUME ImageInvariant PROVE Single!EveryFormatIsTried
  OBVIOUS
<1>1. /\ AllDiffer(attempts)
      /\ (imageStep = "failed" /\ rejected /\ put = {} /\ ~Kept(imageJob)) =>
           Single!ToSet(attempts) = Supported(imageJob, format)
  BY DEF ImageInvariant, ImageFacts
<1>2. Supported(imageJob, format) =
        Single!supportedByDest([force |-> imageJob.dest.force, destTypes |-> imageJob.dest.types,
                                encryption |-> Single!destRequiresOciEncryption, compression |-> format])
  BY JobOperators DEF Supported
<1> QED BY <1>1, <1>2, JobOperators DEF AllDiffer, Single!EveryFormatIsTried

(* The copy's part of the composed specification keeps its invariant.      *)
LEMMA ImageAlways == Spec => [](part = "image" => ImageInvariant)
<1> DEFINE Inv == part = "image" => ImageInvariant
<1>1. Init => Inv
  BY ImageInit DEF Init, imageInit
<1>2. Inv /\ [Next]_vars => Inv'
  <2> SUFFICES ASSUME Inv, [Next]_vars, part' = "image" PROVE ImageInvariant'
    OBVIOUS
  <2>1. CASE UNCHANGED <<part, imageVars>>
    BY <2>1, ImageStutter
  <2>2. CASE ImageStep
    BY <2>2, ImageNext DEF ImageStep
  <2>3. CASE BlobStep \/ ListStep \/ PolicyStep \/ DecisionStep \/ MayStop \/ UNCHANGED vars
    <3>1. UNCHANGED <<part, imageVars>>
      BY <2>3 DEF BlobStep, ListStep, PolicyStep, DecisionStep, MayStop, vars
    <3> QED BY <2>1, <3>1
  <2> QED BY <2>2, <2>3 DEF Next
<1> QED BY <1>1, <1>2, PTL DEF Spec

(* However the layers of an image are reused, recompressed, encrypted and  *)
(* decrypted, and through every conversion of its manifest, the manifest   *)
(* that copySingleImage stores describes the layers that are stored; it is *)
(* in a format that was asked for, and the type returned is its own        *)
(* (copy/single.go, copy/manifest.go, UpdatedImage of internal/image).     *)
THEOREM StoredImageConsistent == Spec => []StoredImageIsConsistent
<1>1. (part = "image" => ImageInvariant) => StoredImageIsConsistent
  BY StoredFollows DEF StoredImageIsConsistent
<1> QED BY <1>1, ImageAlways, PTL

(* A manifest that must not change is stored as it is, for the source's    *)
(* own layers, so copied signatures match it; and what is to be encrypted  *)
(* or decrypted is, in every image stored (ic.cannotModifyManifestReason,  *)
(* copyLayer).                                                             *)
THEOREM OptionsHonoured == Spec => []OptionsAreHonoured
<1>1. (part = "image" => ImageInvariant) => OptionsAreHonoured
  BY OptionsFollow DEF OptionsAreHonoured
<1> QED BY <1>1, ImageAlways, PTL

(* The loop over the manifest formats tries each format the destination    *)
(* may accept exactly once before it gives up, whatever the destination    *)
(* lists, in whatever order and however often.                             *)
THEOREM FormatsTried == Spec => []EveryFormatIsTried
<1>1. (part = "image" => ImageInvariant) => EveryFormatIsTried
  BY FormatsFollow DEF EveryFormatIsTried
<1> QED BY <1>1, ImageAlways, PTL
=============================================================================
