---------------------------- MODULE PolicyConfig ----------------------------
(***************************************************************************)
(* Reading a signature policy (signature/policy_config.go,                 *)
(* policy_config_sigstore.go) and preparing to use its requirements (the   *)
(* first halves of the evaluation in policy_eval_signedby.go and           *)
(* policy_eval_sigstore.go).  The strict JSON reader takes one member at a *)
(* time.  A member's value is null, empty ("", []) or set; decoded it is   *)
(* unset (Go's "" and nil), empty (a slice that is not nil) or set.        *)
(***************************************************************************)
EXTENDS Naturals, FiniteSets

CONSTANTS
  MaxMembers,      \* members read of one requirement
  MaxRequirements, \* requirements of one section
  IdentityDocs,    \* the JSON objects given as signedIdentity
  NestedValues     \* values of the members of fulcio and pki objects

Values == {"null", "empty", "set"}
Kinds  == {"insecureAcceptAnything", "reject", "signedBy", "signedBaseLayer", "sigstoreSigned"}

KeyMaterial == {"keyPath", "keyPaths", "keyData", "keyDatas"}
KeySources  == KeyMaterial \union {"fulcio", "pki"}
Rekor       == {"rekorPublicKeyPath", "rekorPublicKeyPaths", "rekorPublicKeyData", "rekorPublicKeyDatas"}
Roots       == {"caRootsPath", "caRootsData"}
Intermediates == {"caIntermediatesPath", "caIntermediatesData"}
FulcioKeys  == {"caPath", "caData", "oidcIssuer", "subjectEmail"}
PKIKeys     == Roots \union Intermediates \union {"subjectEmail", "subjectHostname"}
Paths       == {"keyPath", "rekorPublicKeyPath", "caPath", "caRootsPath", "caIntermediatesPath"}
PathLists   == {"keyPaths", "rekorPublicKeyPaths"}
Lists       == PathLists \union {"keyDatas", "rekorPublicKeyDatas"}
Text        == Paths \union {"oidcIssuer", "subjectEmail", "subjectHostname"}

(* The keys the fieldResolver of each kind of requirement accepts          *)
Members(kind) ==
  CASE kind = "signedBy"        -> {"keyType", "keyPath", "keyPaths", "keyData", "signedIdentity"}
    [] kind = "sigstoreSigned"  -> KeySources \union Rekor \union {"signedIdentity"}
    [] kind = "signedBaseLayer" -> {"baseLayerIdentity"}
    [] OTHER                    -> {}

Sections == {"default", "scope"}   \* the default list and a scope of a transport

VARIABLES
  phase,     \* "locating", "object", "list", "requirement", "accepted", "rejected"
  sections,  \* number of requirements of each section read so far
  section,   \* the section being read
  kind,      \* type of the requirement being read
  doc,       \* its members, decoded
  nested,    \* the members of its fulcio and pki objects, decoded
  verdict,   \* how the use of the last requirement began
  trust      \* the parts of the trust root it prepared

requirement == <<kind, doc, nested>>
vars == <<phase, sections, section, requirement, verdict, trust>>

NoMembers == [k \in {} |-> "unset"]
NoTrust   == [keys |-> FALSE, fulcio |-> FALSE, pki |-> FALSE, rekor |-> FALSE]

TypeOK ==
  /\ phase \in {"locating", "object", "list", "requirement", "accepted", "rejected"}
  /\ DOMAIN sections \subseteq Sections
  /\ section \in Sections
  /\ kind \in Kinds
  /\ DOMAIN doc \subseteq Members(kind)
  /\ DOMAIN nested.fulcio \subseteq FulcioKeys /\ DOMAIN nested.pki \subseteq PKIKeys
  /\ verdict \in {"unused", "inconsistent", "unusable", "ready"}
  /\ DOMAIN trust = DOMAIN NoTrust

Decode(key, v) == IF key \in Text THEN IF v = "set" THEN "set" ELSE "unset"
                  ELSE IF v = "null" THEN "unset" ELSE v

DecodeObject(o) == [k \in DOMAIN o |-> Decode(k, o[k])]

Given(f, key)    == key \in DOMAIN f /\ f[key] # "unset"
Sources(f, keys) == {k \in keys : Given(f, k)}

-----------------------------------------------------------------------------
(* The constructors.                                                       *)

newPRSigstoreSignedFulcio(f) ==
  /\ Cardinality(Sources(f, {"caPath", "caData"})) = 1
  /\ Given(f, "oidcIssuer") /\ Given(f, "subjectEmail")

newPRSigstoreSignedPKI(f) ==
  /\ Cardinality(Sources(f, Roots)) = 1
  /\ Cardinality(Sources(f, Intermediates)) <= 1
  /\ Sources(f, {"subjectEmail", "subjectHostname"}) # {}

(* A list option refuses a list without entries; the others accept what    *)
(* does not set anything.                                                  *)
OptionsApply(f) == \A k \in Lists \intersect DOMAIN f : f[k] = "set"

(* Mutation: Fulcio without a Rekor key is let through.                    *)
rekorFitsUnchecked(f) == Given(f, "pki") => Sources(f, Rekor) = {}
rekorFits(f) ==
  /\ Given(f, "fulcio") => Sources(f, Rekor) # {}
  /\ Given(f, "pki") => Sources(f, Rekor) = {}

newPRSigstoreSigned(f) ==
  /\ OptionsApply(f)
  /\ Cardinality(Sources(f, KeySources)) = 1
  /\ Cardinality(Sources(f, Rekor)) <= 1
  /\ rekorFits(f)

(* newPRSignedBy counts the sources again after UnmarshalJSON has counted  *)
(* the members.                                                            *)
newPRSignedBy(f) ==
  /\ "keyType" \in DOMAIN f
  /\ Cardinality(DOMAIN f \intersect KeyMaterial) = 1
  /\ Cardinality(Sources(f, KeyMaterial)) = 1

newPRSignedBaseLayer(f) == "baseLayerIdentity" \in DOMAIN f

sbKeyType == {"GPGKeys", "signedByGPGKeys"}   \* two of the four valid ones; the second is not implemented

(* The matches with a value: a reference is "invalid", "nameOnly" or       *)
(* "full"; the two prefixes of remapIdentity are valid or not.             *)
newPRMExactReference(v)  == v = "full"
newPRMExactRepository(v) == v \in {"nameOnly", "full"}
newPRMRemapIdentity(v)   == v = "validPrefixes"

newPolicyReferenceMatchFromJSON(d) ==
  /\ ~d.extra
  /\ CASE d.type \in {"matchExact", "matchRepoDigestOrExact", "matchRepository"} -> d.value = "absent"
       [] d.type = "exactReference"  -> newPRMExactReference(d.value)
       [] d.type = "exactRepository" -> newPRMExactRepository(d.value)
       [] d.type = "remapIdentity"   -> newPRMRemapIdentity(d.value)
       [] OTHER -> FALSE

constructed ==
  CASE kind = "signedBy"        -> newPRSignedBy(doc)
    [] kind = "sigstoreSigned"  -> newPRSigstoreSigned(doc)
    [] kind = "signedBaseLayer" -> newPRSignedBaseLayer(doc)
    [] OTHER                    -> TRUE

-----------------------------------------------------------------------------
(* The use of an accepted requirement.                                     *)

(* loadBytesFromConfigSources: "nil" without a source                      *)
loadBytesFromConfigSources(f, keys, readable) ==
  LET s == Sources(f, keys)
  IN  CASE ~readable /\ (\E k \in s \intersect (Paths \union PathLists) : f[k] = "set") -> "unreadable"
        [] Cardinality(s) > 1 -> "inconsistent"
        [] s = {}             -> "nil"
        [] OTHER              -> f[CHOOSE k \in s : TRUE]

(* Data that must be one PEM file, or several: empty data does not parse   *)
(* and an empty list has nothing to parse.                                 *)
parsed(loaded, isList, parsable) ==
  CASE loaded = "unreadable"             -> "unusable"
    [] loaded = "empty" /\ isList        -> "inconsistent"
    [] loaded \in {"set", "empty"}       -> IF parsable /\ loaded = "set" THEN "ready" ELSE "unusable"
    [] OTHER                             -> loaded

required(loaded) == IF loaded = "nil" THEN "inconsistent" ELSE loaded

prepareFulcioTrustRoot(f, readable, parsable) ==
  LET ca == required(loadBytesFromConfigSources(f, {"caPath", "caData"}, readable))
  IN  IF ~(Given(f, "oidcIssuer") /\ Given(f, "subjectEmail")) THEN "inconsistent" ELSE parsed(ca, FALSE, parsable)

(* UnmarshalCertificatesFromPEM finds no certificates in empty data, which *)
(* is not an error.                                                        *)
preparePKITrustRoot(f, readable, parsable) ==
  LET roots == parsed(required(loadBytesFromConfigSources(f, Roots, readable)), FALSE, parsable)
      loaded == loadBytesFromConfigSources(f, Intermediates, readable)
      inter == IF loaded = "empty" THEN "ready" ELSE parsed(loaded, FALSE, parsable)
  IN  IF Sources(f, {"subjectEmail", "subjectHostname"}) = {} \/ "inconsistent" \in {roots, inter} THEN "inconsistent"
      ELSE IF "unusable" \in {roots, inter} THEN "unusable" ELSE "ready"

(* The parts of the trust root, each with the outcome of preparing it      *)
prepareTrustRoot(readable, parsable) ==
  LET isList(keys) == Sources(doc, keys) \intersect Lists # {}
      part(keys) == parsed(loadBytesFromConfigSources(doc, keys, readable), isList(keys), parsable)
  IN  [keys   |-> part(KeyMaterial),
       fulcio |-> IF Given(doc, "fulcio") THEN prepareFulcioTrustRoot(nested.fulcio, readable, parsable) ELSE "nil",
       pki    |-> IF Given(doc, "pki") THEN preparePKITrustRoot(nested.pki, readable, parsable) ELSE "nil",
       rekor  |-> part(Rekor)]

(* isSignatureAccepted counts the key sources of the trust root and        *)
(* compares them with the presence of Rekor keys.                          *)
isSignatureAccepted(parts) ==
  LET outcomes == {parts[p] : p \in DOMAIN parts}
      sources  == {p \in {"keys", "fulcio", "pki"} : parts[p] # "nil"}
  IN  IF "inconsistent" \in outcomes THEN "inconsistent"
      ELSE IF "unusable" \in outcomes THEN "unusable"
      ELSE IF \/ Cardinality(sources) # 1
              \/ parts.fulcio # "nil" /\ parts.rekor = "nil"
              \/ parts.pki # "nil" /\ parts.rekor # "nil" THEN "inconsistent"
      ELSE "ready"

(* prSignedBy.isSignatureAuthorAccepted up to the trusted identities       *)
isSignatureAuthorAccepted(readable, parsable) ==
  LET data == loadBytesFromConfigSources(doc, KeyMaterial, readable)
  IN  CASE doc["keyType"] # "GPGKeys"      -> "unusable"
        [] data \in {"nil", "inconsistent"} -> "inconsistent"
        [] data = "set" /\ parsable         -> "ready"
        [] OTHER                            -> "unusable"

-----------------------------------------------------------------------------
Init ==
  /\ phase = "locating"
  /\ sections = [s \in {} |-> 0] /\ section = "default"
  /\ kind = "reject" /\ doc = NoMembers /\ nested = [fulcio |-> NoMembers, pki |-> NoMembers]
  /\ verdict = "unused" /\ trust = NoTrust

defaultPolicyPathWithHomeDir(explicit, userExists, rooted, systemExists) ==
  CASE explicit -> "SignaturePolicyPath" [] userExists -> "userPolicyFile" [] rooted -> "rooted systemPolicyPath"
    [] systemExists -> "systemPolicyPath" [] OTHER -> "none"

(* DefaultPolicy                                                           *)
Locate(explicit, userExists, rooted, systemExists) ==
  /\ phase = "locating"
  /\ phase' = IF defaultPolicyPathWithHomeDir(explicit, userExists, rooted, systemExists) = "none"
                THEN "rejected" ELSE "object"
  /\ UNCHANGED <<sections, section, requirement, verdict, trust>>

(* An error: nothing of what was read is returned.                         *)
Reject ==
  /\ phase' = "rejected" /\ sections' = [s \in {} |-> 0] /\ doc' = NoMembers
  /\ nested' = [fulcio |-> NoMembers, pki |-> NoMembers]
  /\ UNCHANGED <<section, kind, verdict, trust>>

(* The file cannot be read or is not JSON; a key the resolver does not     *)
(* know; a value of a wrong type, or trailing data.                        *)
Malformed == phase \in {"object", "list", "requirement"} /\ Reject

(* A member of the policy object or of a transport: a key that was seen    *)
(* before, or a scope the transport refuses, is an error.                  *)
OpenSection(s, validScope) ==
  /\ phase = "object"
  /\ IF s \in DOMAIN sections \/ (s = "scope" /\ ~validScope) THEN Reject
     ELSE /\ section' = s /\ phase' = "list"
          /\ sections' = [t \in DOMAIN sections \union {s} |-> IF t = s THEN 0 ELSE sections[t]]
          /\ UNCHANGED <<requirement, verdict, trust>>

(* newPolicyRequirementFromJSON chooses by type.                           *)
OpenRequirement(k) ==
  /\ phase = "list" /\ sections[section] < MaxRequirements
  /\ IF k \notin Kinds THEN Reject
     ELSE /\ kind' = k /\ doc' = NoMembers /\ nested' = [fulcio |-> NoMembers, pki |-> NoMembers]
          /\ phase' = "requirement" /\ verdict' = "unused" /\ trust' = NoTrust
          /\ UNCHANGED <<sections, section>>

Set(key, v) ==
  /\ doc' = [k \in DOMAIN doc \union {key} |-> IF k = key THEN v ELSE doc[k]]
  /\ UNCHANGED <<phase, sections, section, kind, verdict, trust>>

(* ParanoidUnmarshalJSONObject reads one member of the requirement.        *)
ReadMember(key) ==
  /\ phase = "requirement" /\ Cardinality(DOMAIN doc) < MaxMembers
  /\ IF key \in DOMAIN doc \/ key \notin Members(kind) THEN Reject
     ELSE CASE key \in {"signedIdentity", "baseLayerIdentity"} ->
                 \E d \in IdentityDocs :
                   IF newPolicyReferenceMatchFromJSON(d) THEN Set(key, "set") /\ UNCHANGED nested ELSE Reject
            [] key = "keyType" ->
                 \E t \in sbKeyType \union {"other"} :
                   IF t \notin sbKeyType THEN Reject ELSE Set(key, t) /\ UNCHANGED nested
            [] key = "fulcio" ->
                 \E keys \in SUBSET FulcioKeys : \E o \in [keys -> NestedValues] :
                   IF newPRSigstoreSignedFulcio(DecodeObject(o))
                     THEN Set(key, "set") /\ nested' = [nested EXCEPT !.fulcio = DecodeObject(o)] ELSE Reject
            [] key = "pki" ->
                 \E keys \in SUBSET PKIKeys : \E o \in [keys -> NestedValues] :
                   IF newPRSigstoreSignedPKI(DecodeObject(o))
                     THEN Set(key, "set") /\ nested' = [nested EXCEPT !.pki = DecodeObject(o)] ELSE Reject
            [] OTHER -> \E v \in Values : Set(key, Decode(key, v)) /\ UNCHANGED nested

CloseRequirement ==
  /\ phase = "requirement"
  /\ IF constructed
       THEN /\ phase' = "list" /\ sections' = [sections EXCEPT ![section] = @ + 1]
            /\ UNCHANGED <<section, requirement, verdict, trust>>
       ELSE Reject

(* PolicyRequirements.UnmarshalJSON refuses an empty list.                 *)
CloseSection ==
  /\ phase = "list"
  /\ IF sections[section] = 0 THEN Reject
     ELSE phase' = "object" /\ UNCHANGED <<sections, section, requirement, verdict, trust>>

(* Policy.UnmarshalJSON wants a default.                                   *)
CloseObject ==
  /\ phase = "object"
  /\ IF "default" \in DOMAIN sections
       THEN phase' = "accepted" /\ UNCHANGED <<sections, section, requirement, verdict, trust>>
       ELSE Reject

(* The policy is evaluated: the requirement read last is used.  The files  *)
(* it names may be missing by now, and the data may not parse.             *)
Use(readable, parsable) ==
  /\ phase = "accepted" /\ verdict = "unused"
  /\ CASE kind = "signedBy" ->
            verdict' = isSignatureAuthorAccepted(readable, parsable) /\ UNCHANGED trust
       [] kind = "sigstoreSigned" ->
            LET parts == prepareTrustRoot(readable, parsable)
            IN  /\ verdict' = isSignatureAccepted(parts)
                /\ trust' = IF verdict' = "ready" THEN [p \in DOMAIN parts |-> parts[p] = "ready"] ELSE NoTrust
       [] OTHER -> verdict' = "ready" /\ UNCHANGED trust
  /\ UNCHANGED <<phase, sections, section, requirement>>

Next ==
  \/ \E explicit, userExists, rooted, systemExists \in BOOLEAN : Locate(explicit, userExists, rooted, systemExists)
  \/ Malformed
  \/ \E s \in Sections, validScope \in BOOLEAN : OpenSection(s, validScope)
  \/ \E k \in Kinds \union {"other"} : OpenRequirement(k)
  \/ \E key \in Members("signedBy") \union Members("sigstoreSigned") \union Members("signedBaseLayer") : ReadMember(key)
  \/ CloseRequirement
  \/ CloseSection
  \/ CloseObject
  \/ \E readable, parsable \in BOOLEAN : Use(readable, parsable)

Spec == Init /\ [][Next]_vars

-----------------------------------------------------------------------------
(* IsRunningImageAllowed never meets the empty list it refuses.            *)
ListsAreNotEmpty ==
  phase = "accepted" => "default" \in DOMAIN sections /\ \A s \in DOMAIN sections : sections[s] > 0

(* A trust root has one source of keys, Fulcio always with Rekor and a PKI *)
(* never; a Rekor key the document names is not dropped.                   *)
TrustIsComplete ==
  (kind = "sigstoreSigned" /\ verdict = "ready") =>
    /\ Cardinality({p \in {"keys", "fulcio", "pki"} : trust[p]}) = 1
    /\ trust.fulcio => trust.rekor
    /\ trust.pki => ~trust.rekor
    /\ (\E k \in Rekor \intersect DOMAIN doc : doc[k] = "set") => trust.rekor

(* Whatever policy the reader accepts, its evaluation never ends in one of *)
(* the errors marked "Internal inconsistency" (the empty list of           *)
(* policy_eval.go, the source counts of policy_eval_sigstore.go and        *)
(* policy_eval_signedby.go), and the trust root it verifies with is the    *)
(* complete one: two files check the same rules in two forms, and a gap    *)
(* between them would only show in production.                             *)
PolicyIsConsistent ==
  /\ TypeOK
  /\ ListsAreNotEmpty
  /\ verdict # "inconsistent"
  /\ TrustIsComplete
=============================================================================
