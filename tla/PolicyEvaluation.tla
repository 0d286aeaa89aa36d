-------------------------- MODULE PolicyEvaluation --------------------------
(***************************************************************************)
(* Deciding whether an image may be used (signature/policy_eval*.go,       *)
(* policy_reference_match.go) over an UnparsedImage (internal/image/       *)
(* unparsed.go) whose source may change at any time: its manifest and its  *)
(* signatures are read at different moments and cached, and the caller     *)
(* uses the manifest after the decision.  A manifest stands for its        *)
(* digest; a name is the sequence of its components, host first; a         *)
(* cryptographic check compares who made a signature, over what.           *)
(***************************************************************************)
EXTENDS Naturals, Sequences, SequencesExt

CONSTANTS
  Policies,       \* [default, scopes]: lists of requirements
  Images,         \* [ref, instance]: a reference and an instance digest or None
  Manifests,
  SignatureLists, \* what sources may hold
  Certs,          \* function from certificates to [root, issuer, email, host, key, from, to]
  Wildcards,      \* function from hosts to their "*." scopes, longest first
  MaxTime,
  MaxChanges,     \* changes of the source
  MaxCalls

None == "none"

IsSequence(s) == s \in Seq(ToSet(s))

(* What PolicyConfig shows of the requirements of a policy that was read.  *)
WellFormed(q) ==
  /\ q.kind \in {"insecureAcceptAnything", "reject", "signedBaseLayer", "signedBy", "sigstoreSigned"}
  /\ q.kind = "sigstoreSigned" => q.by \in {"keys", "fulcio", "pki"} /\ (q.by = "pki" => q.rekor = {})
RequirementLists ==
  {p.default : p \in Policies} \union UNION {{p.scopes[s] : s \in DOMAIN p.scopes} : p \in Policies}

VARIABLES
  policy, image,
  pcState,        \* state of the PolicyContext
  source,         \* [manifest, sigs]: what the source would return now
  changes,
  now,
  cachedManifest, \* of the UnparsedImage, or None
  cachedSignatures, \* [known, list]
  call,           \* the evaluation in progress
  calls,
  served,         \* every signature the source has returned
  result,         \* of the last evaluation that ended
  used            \* the manifest the caller read after it

unparsed == <<cachedManifest, cachedSignatures, served>>
environment == <<policy, image, source, changes, now>>
vars == <<environment, unparsed, pcState, call, calls, result, used>>

Operations == {"IsRunningImageAllowed", "GetSignaturesWithAcceptedAuthor"}

-----------------------------------------------------------------------------
(* Scopes and reference matching.                                          *)

NameOnly(r) == r.tag = None /\ r.digest = None
Named(r) == r.name # <<>>       \* a Docker reference that exists, and parses

DockerReferenceIdentity(r) == IF r.tag # None THEN r.name \o <<":", r.tag>> ELSE r.name \o <<"@", r.digest>>

DockerReferenceNamespaces(r) ==
  [k \in 1..Len(r.name) |-> SubSeq(r.name, 1, Len(r.name) + 1 - k)] \o Wildcards[r.name[1]]

(* The first of the identity, the namespaces and "" that has a section     *)
requirementsForImageRef(r) ==
  LET scopes == (IF Named(r) THEN <<DockerReferenceIdentity(r)>> \o DockerReferenceNamespaces(r) ELSE <<>>) \o <<<<>>>>
      found  == {k \in DOMAIN scopes : scopes[k] \in DOMAIN policy.scopes}
  IN  IF found = {} THEN policy.default
      ELSE policy.scopes[scopes[CHOOSE k \in found : \A j \in found : k <= j]]

matchRepoDigestOrExactReferenceValues(intended, signed) ==
  /\ ~NameOnly(signed)
  /\ IF intended.tag # None THEN signed = intended
     ELSE intended.digest # None /\ signed.name = intended.name

remapReferencePrefix(prm, r) ==
  IF IsPrefix(prm.prefix, r.name)
    THEN [r EXCEPT !.name = prm.signedPrefix \o SubSeq(r.name, Len(prm.prefix) + 1, Len(r.name))]
    ELSE r

(* A rewritten reference that is only a host does not parse.               *)
matchesDockerReference(prm, intended, signed) ==
  /\ Named(signed)
  /\ CASE prm.type = "matchExact"             -> Named(intended) /\ ~NameOnly(signed) /\ signed = intended
       [] prm.type = "matchRepoDigestOrExact" -> Named(intended) /\ matchRepoDigestOrExactReferenceValues(intended, signed)
       [] prm.type = "matchRepository"        -> Named(intended) /\ signed.name = intended.name
       [] prm.type = "exactReference"         -> ~NameOnly(signed) /\ signed = prm.ref
       [] prm.type = "exactRepository"        -> signed.name = prm.ref.name
       [] prm.type = "remapIdentity"          ->
            LET r == remapReferencePrefix(prm, intended)
            IN  Named(intended) /\ Len(r.name) > 1 /\ matchRepoDigestOrExactReferenceValues(r, signed)

-----------------------------------------------------------------------------
(* Verification of one signature.                                          *)

Payload(sig) == <<sig.key, sig.digest, sig.ref>>

(* VerifyRekorSET: signed by one of the keys, for this key or certificate, *)
(* this signature and this payload.                                        *)
VerifyRekorSET(rekorKeys, sig, keyOrCert) ==
  /\ sig.set.by \in rekorKeys
  /\ sig.set.over = keyOrCert
  /\ sig.set.of = Payload(sig)

(* x509.Certificate.Verify with the roots and the time                     *)
Verify(cert, root, time) == cert.root = root /\ time \in cert.from..cert.to

verifyFulcioCertificateAtTime(req, sig) ==
  LET cert == Certs[sig.cert]
  IN  /\ Verify(cert, req.root, sig.set.time)
      /\ cert.issuer = req.issuer
      /\ cert.email = req.email

verifyPKI(req, sig) ==
  LET cert == Certs[sig.cert]
  IN  /\ Verify(cert, req.root, now)
      /\ req.email # None => cert.email = req.email
      /\ req.host # None => cert.host = req.host

(* The keys isSignatureAccepted verifies the payload with                  *)
publicKeys(req, sig) ==
  CASE req.by = "keys" ->
         IF req.rekor = {} THEN req.keys
         ELSE {k \in req.keys : sig.set.by # None /\ VerifyRekorSET(req.rekor, sig, k)}
    [] req.by = "fulcio" ->
         IF /\ sig.set.by # None /\ sig.cert # None
            /\ VerifyRekorSET(req.rekor, sig, sig.cert) /\ verifyFulcioCertificateAtTime(req, sig)
           THEN {Certs[sig.cert].key} ELSE {}
    [] OTHER ->   \* "pki"
         IF sig.cert # None /\ verifyPKI(req, sig) THEN {Certs[sig.cert].key} ELSE {}

(* The mechanism's Verify and validateKeyIdentity                          *)
verifyAndExtractSignature(req, sig) == sig.key \in req.keys

(* VerifySigstorePayload before its rules                                  *)
verifySigstorePayloadBlobSignature(req, sig) == sig.key \in publicKeys(req, sig)

signerAccepted(req, sig) ==
  IF req.kind = "signedBy" THEN verifyAndExtractSignature(req, sig) ELSE verifySigstorePayloadBlobSignature(req, sig)

(* validateSignedDockerManifestDigest and validateSignedDockerReference    *)
contentAccepted(req, sig, m) ==
  /\ m = sig.digest
  /\ matchesDockerReference(req.identity, image.ref, sig.ref)

-----------------------------------------------------------------------------
(* The UnparsedImage.                                                      *)

expectedManifestDigest == IF image.instance # None THEN image.instance ELSE image.ref.digest

(* Mutation: the manifest is read again for every use.                     *)
ManifestUncached(m) == m \in {None, source.manifest} /\ (m # None => expectedManifestDigest \in {None, m})

(* Manifest returns m, or fails with None: it is read and compared with    *)
(* the expected digest only once.                                          *)
Manifest(m) ==
  IF cachedManifest # None THEN m = cachedManifest
  ELSE \/ m = None
       \/ m = source.manifest /\ expectedManifestDigest \in {None, m}

CacheManifest(m) == cachedManifest' = IF cachedManifest = None THEN m ELSE cachedManifest

(* UntrustedSignatures returns list; an empty list may be nil, and is then *)
(* not remembered.                                                         *)
UntrustedSignatures(list) ==
  IF cachedSignatures.known THEN list = cachedSignatures.list /\ UNCHANGED <<cachedSignatures, served>>
  ELSE /\ list = source.sigs
       /\ \E known \in {TRUE, list # <<>>} : cachedSignatures' = [known |-> known, list |-> list]
       /\ served' = served \union ToSet(list)

(* The signatures a requirement looks at; it passes over the others.       *)
Considered(kind, sig) == sig.format = IF kind = "signedBy" THEN "simple" ELSE "sigstore"

-----------------------------------------------------------------------------
NoCall == [op |-> None, reqs |-> <<>>, r |-> 0, s |-> 0, list |-> <<>>, accepted |-> <<>>, one |-> FALSE]
NoResult == [op |-> None, allowed |-> FALSE, reqs |-> <<>>, sigs |-> <<>>]

Init ==
  /\ policy \in Policies /\ image \in Images
  /\ source \in [manifest : Manifests, sigs : SignatureLists]
  /\ changes = 0 /\ now = 0
  /\ cachedManifest = None /\ cachedSignatures = [known |-> FALSE, list |-> <<>>] /\ served = {}
  /\ pcState = "Ready" /\ call = NoCall /\ calls = 0
  /\ result = NoResult /\ used = None

TypeOK ==
  /\ pcState \in {"Ready", "InUse", "Destroyed"}
  /\ cachedManifest \in Manifests \union {None}
  /\ cachedSignatures.list \in SignatureLists \union {<<>>}
  /\ call.op \in Operations \union {None}
  /\ result.op \in Operations \union {None}
  /\ used \in Manifests \union {None}
  /\ (pcState = "InUse") <=> (call.op # None)

(* The tag is moved, signatures are added or removed.                      *)
ChangeSource ==
  /\ changes < MaxChanges /\ changes' = changes + 1
  /\ source' \in [manifest : Manifests, sigs : SignatureLists] /\ source' # source
  /\ UNCHANGED <<policy, image, now, unparsed, pcState, call, calls, result, used>>

Tick ==
  /\ now < MaxTime /\ now' = now + 1
  /\ UNCHANGED <<policy, image, source, changes, unparsed, pcState, call, calls, result, used>>

(* An evaluation ends; changeState back to Ready cannot fail in between.   *)
Return(allowed, sigs) ==
  /\ call' = NoCall /\ pcState' = "Ready"
  /\ result' = [op |-> call.op, allowed |-> allowed, reqs |-> call.reqs, sigs |-> sigs]
  /\ UNCHANGED <<environment, calls, used>>

Start(op) ==
  /\ calls < MaxCalls /\ calls' = calls + 1 /\ pcState = "Ready"
  /\ pcState' = "InUse"
  /\ call' = [NoCall EXCEPT !.op = op, !.reqs = requirementsForImageRef(image.ref)]
  /\ result' = NoResult /\ used' = None
  /\ UNCHANGED <<environment, unparsed>>

(* The context is in use, or destroyed.                                    *)
StartRefused(op) ==
  /\ pcState # "Ready" /\ call.op # op
  /\ UNCHANGED vars

Destroy ==
  /\ pcState = "Ready" /\ pcState' = "Destroyed"
  /\ UNCHANGED <<environment, unparsed, call, calls, result, used>>

Allowing == call.op = "IsRunningImageAllowed" /\ call.s = 0
NextRequirement == call' = [call EXCEPT !.r = @ + 1, !.s = 0, !.list = <<>>]

(* IsRunningImageAllowed between two requirements                          *)
AllRequirementsAllow ==
  /\ Allowing /\ call.r = Len(call.reqs)
  /\ Return(call.reqs # <<>>, <<>>) /\ UNCHANGED unparsed

req == call.reqs[call.r + 1]

SimpleRequirement ==
  /\ Allowing /\ call.r < Len(call.reqs) /\ req.kind \in {"insecureAcceptAnything", "reject", "signedBaseLayer"}
  /\ IF req.kind = "insecureAcceptAnything"
       THEN NextRequirement /\ UNCHANGED <<environment, pcState, calls, result, used>>
       ELSE Return(FALSE, <<>>)
  /\ UNCHANGED unparsed

(* isRunningImageAllowed of prSignedBy and prSigstoreSigned reads the      *)
(* signatures.                                                             *)
ReadSignatures ==
  /\ Allowing /\ call.r < Len(call.reqs) /\ req.kind \in {"signedBy", "sigstoreSigned"}
  /\ \E list \in SignatureLists :
       /\ UntrustedSignatures(list)
       /\ call' = [call EXCEPT !.s = 1, !.list = list]
  /\ UNCHANGED <<environment, cachedManifest, pcState, calls, result, used>>

ReadSignaturesFails ==
  /\ \/ Allowing /\ call.r < Len(call.reqs) /\ req.kind \in {"signedBy", "sigstoreSigned"}
     \/ call.op = "GetSignaturesWithAcceptedAuthor" /\ call.s = 0
  /\ ~cachedSignatures.known
  /\ Return(FALSE, <<>>) /\ UNCHANGED unparsed

(* One signature: the manifest is read only if the signer is accepted.     *)
VerifySignature ==
  /\ call.op = "IsRunningImageAllowed" /\ call.s \in 1..Len(call.list)
  /\ LET sig == call.list[call.s]
     IN  IF Considered(req.kind, sig) /\ signerAccepted(req, sig)
           THEN \E m \in Manifests \union {None} :
                  /\ Manifest(m) /\ CacheManifest(m)
                  /\ IF m # None /\ contentAccepted(req, sig, m) THEN NextRequirement ELSE call' = [call EXCEPT !.s = @ + 1]
           ELSE call' = [call EXCEPT !.s = @ + 1] /\ UNCHANGED cachedManifest
  /\ UNCHANGED <<environment, cachedSignatures, served, pcState, calls, result, used>>

NoSignatureAccepted ==
  /\ call.op = "IsRunningImageAllowed" /\ call.s > Len(call.list)
  /\ Return(FALSE, <<>>) /\ UNCHANGED unparsed

(* GetSignaturesWithAcceptedAuthor: the signatures, and each of them with  *)
(* each requirement in turn.                                               *)
ListSignatures ==
  /\ call.op = "GetSignaturesWithAcceptedAuthor" /\ call.s = 0
  /\ \E list \in SignatureLists :
       UntrustedSignatures(list) /\ call' = [call EXCEPT !.s = 1, !.list = list]
  /\ UNCHANGED <<environment, cachedManifest, pcState, calls, result, used>>

NextSignature(keep) ==
  call' = [call EXCEPT !.s = @ + 1, !.r = 0, !.one = FALSE,
                       !.accepted = IF keep THEN Append(@, call.list[call.s]) ELSE @]

RequirementOnSignature ==
  /\ call.op = "GetSignaturesWithAcceptedAuthor" /\ call.s \in 1..Len(call.list) /\ call.r < Len(call.reqs)
  /\ LET sig == call.list[call.s]
     IN  CASE req.kind \in {"insecureAcceptAnything", "signedBaseLayer"} ->
                call' = [call EXCEPT !.r = @ + 1] /\ UNCHANGED cachedManifest
           [] req.kind \in {"reject", "sigstoreSigned"} -> NextSignature(FALSE) /\ UNCHANGED cachedManifest
           [] OTHER ->   \* "signedBy"
                IF Considered(req.kind, sig) /\ signerAccepted(req, sig)
                  THEN \E m \in Manifests \union {None} :
                         /\ Manifest(m) /\ CacheManifest(m)
                         /\ IF m # None /\ contentAccepted(req, sig, m)
                              THEN call' = [call EXCEPT !.r = @ + 1, !.one = TRUE] ELSE NextSignature(FALSE)
                  ELSE NextSignature(FALSE) /\ UNCHANGED cachedManifest
  /\ UNCHANGED <<environment, cachedSignatures, served, pcState, calls, result, used>>

SignatureDone ==
  /\ call.op = "GetSignaturesWithAcceptedAuthor" /\ call.s \in 1..Len(call.list) /\ call.r = Len(call.reqs)
  /\ NextSignature(call.one)
  /\ UNCHANGED <<environment, unparsed, pcState, calls, result, used>>

AllSignaturesDone ==
  /\ call.op = "GetSignaturesWithAcceptedAuthor" /\ call.s > Len(call.list)
  /\ Return(FALSE, call.accepted) /\ UNCHANGED unparsed

(* The caller (copy.copySingleImage) reads the manifest it will use.       *)
UseManifest ==
  /\ result.allowed /\ used = None
  /\ \E m \in Manifests : Manifest(m) /\ CacheManifest(m) /\ used' = m
  /\ UNCHANGED <<environment, cachedSignatures, served, pcState, call, calls, result>>

Next ==
  \/ ChangeSource
  \/ Tick
  \/ \E op \in Operations : Start(op) \/ StartRefused(op)
  \/ Destroy
  \/ AllRequirementsAllow
  \/ SimpleRequirement
  \/ ReadSignatures
  \/ ReadSignaturesFails
  \/ VerifySignature
  \/ NoSignatureAccepted
  \/ ListSignatures
  \/ RequirementOnSignature
  \/ SignatureDone
  \/ AllSignaturesDone
  \/ UseManifest

Spec == Init /\ [][Next]_vars

-----------------------------------------------------------------------------
(* What a requirement is for: a signature that a trusted signer made for   *)
(* this manifest under a name the requirement accepts, with the log entry  *)
(* and the certificate it asks for.  A certificate of a PKI was valid at   *)
(* some time up to now, one of Fulcio when the log entry was made.         *)
Vouches(q, sig, m) ==
  /\ sig.digest = m /\ matchesDockerReference(q.identity, image.ref, sig.ref)
  /\ IF q.kind = "signedBy" THEN sig.format = "simple" /\ sig.key \in q.keys
     ELSE /\ sig.format = "sigstore"
          /\ q.rekor # {} => sig.set.by \in q.rekor /\ sig.set.of = Payload(sig)
          /\ IF q.by = "keys" THEN sig.key \in q.keys /\ (q.rekor # {} => sig.set.over = sig.key)
             ELSE /\ sig.cert # None /\ Certs[sig.cert].key = sig.key /\ Certs[sig.cert].root = q.root
                  /\ q.email # None => Certs[sig.cert].email = q.email
                  /\ q.by = "fulcio" => /\ sig.set.over = sig.cert /\ Certs[sig.cert].issuer = q.issuer
                                        /\ sig.set.time \in Certs[sig.cert].from..Certs[sig.cert].to
                  /\ q.by = "pki" => /\ q.host # None => Certs[sig.cert].host = q.host
                                     /\ \E t \in 0..now : t \in Certs[sig.cert].from..Certs[sig.cert].to

(* The image that is used after IsRunningImageAllowed said yes is one that *)
(* every requirement of its scope vouches for: although the manifest, the  *)
(* signatures and, later, the manifest again are read while the source     *)
(* changes, they belong together, and the digest the reference demands is  *)
(* the digest of what is used.                                             *)
AllowedImageIsTheSignedOne ==
  (result.allowed /\ used # None) =>
    /\ result.reqs # <<>>
    /\ expectedManifestDigest \in {None, used}
    /\ \A q \in ToSet(result.reqs) :
         /\ q.kind \notin {"reject", "signedBaseLayer"}
         /\ q.kind # "insecureAcceptAnything" => \E sig \in served : Vouches(q, sig, used)

(* The signatures GetSignaturesWithAcceptedAuthor returns are vouched for  *)
(* by some requirement and refused by none.                                *)
ReturnedSignaturesAreAccepted ==
  \A sig \in ToSet(result.sigs) :
    LET signedBy == {q \in ToSet(result.reqs) : q.kind = "signedBy"}
    IN  /\ signedBy # {}
        /\ \A q \in signedBy : cachedManifest # None /\ Vouches(q, sig, cachedManifest)
        /\ \A q \in ToSet(result.reqs) : q.kind \notin {"reject", "sigstoreSigned"}

(* Both, for one UnparsedImage and one PolicyContext                       *)
DecisionIsSound == TypeOK /\ AllowedImageIsTheSignedOne /\ ReturnedSignaturesAreAccepted
=============================================================================
