------------------------------ MODULE ImagePull ------------------------------
(***************************************************************************)
(* From a name a user types to the registry an image is read from:         *)
(* pkg/shortnames resolves a short name with the aliases, the search       *)
(* registries and the user's choice, and records the choice; the user's    *)
(* alias file is edited by several processes under a file lock             *)
(* (pkg/sysregistriesv2/shortnames.go); docker/docker_image_src.go tries   *)
(* the mirrors of the best matching registry entry, then the entry itself. *)
(*                                                                         *)
(* A host is a sequence of labels, a name [host, port, path], a reference  *)
(* adds tag and digest; "" is an absent port, tag or digest.  A prefix     *)
(* says whether it starts with "*."; a location may be NoName.             *)
(***************************************************************************)
EXTENDS Naturals, Sequences, SequencesExt, FiniteSets

CONSTANTS
  Pullers, Editors, \* processes that pull, processes that edit aliases
  Inputs,           \* references users type; the host of a short one is <<>>
  Configs,          \* merged configurations (see RegistriesConf)
  Modes,            \* SystemContext.ShortNameMode: "" (not set) or a mode
  Edits,            \* edits of aliases: [name, value], "" removes
  Width,            \* [label |-> length of its text]
  DockerIO, Localhost, \* the hosts with these names
  MaxEdits, MaxReloads \* bounds on edits and changes of the configuration

VARIABLES
  config,   \* what getConfig returns at present
  file,     \* the alias file: [state |-> "ok" or "corrupt", aliases]
  writer,   \* holder of its write lock, or "nobody"
  edits, reloads, \* number of edits and reloads so far
  proc,     \* [process |-> its state]
  truth     \* ghost: what the edits that succeeded should have led to, from
            \* an empty file or, if a write failed since, from what that left

vars == <<config, file, writer, edits, reloads, proc, truth>>
Procs == Pullers \union Editors
Idle  == [pc |-> "idle"]
NoName == [host |-> <<>>, port |-> "", path |-> <<>>]

NameOf(ref)        == [host |-> ref.host, port |-> ref.port, path |-> ref.path]
Ref(name, tag, digest) == [host |-> name.host, port |-> name.port, path |-> name.path, tag |-> tag, digest |-> digest]
DomainOf(name)     == <<name.host, name.port>>
TrimNamed(ref)     == Ref(ref, "", "")
IsShort(ref)       == ref.host = <<>>

(* reference.ParseNormalizedNamed with an explicit host; a digest without  *)
(* a tag gets none, and TagNameOnly adds "latest" if both are absent.      *)
Normalize(ref) ==
  LET path == IF ref.host = DockerIO /\ Len(ref.path) = 1 THEN <<"library">> \o ref.path ELSE ref.path
  IN  Ref([host |-> ref.host, port |-> ref.port, path |-> path], ref.tag, ref.digest)
TagNameOnly(ref) == Ref(ref, IF ref.tag = "" /\ ref.digest = "" THEN "latest" ELSE ref.tag, ref.digest)
InRegistry(reg, ref) == Normalize(Ref([host |-> reg, port |-> ref.port, path |-> ref.path], ref.tag, ref.digest))

-----------------------------------------------------------------------------
(* Choosing a registry entry and rewriting a reference.                    *)

(* The host's labels after the first occurrence of the wildcard's end it.  *)
refMatchingSubdomainPrefix(name, prefix) ==
  LET at == {i \in 2..Len(name.host) : IsPrefix(prefix.host, SubSeq(name.host, i, Len(name.host)))}
  IN  at # {} /\ \A i \in at : i + Len(prefix.host) - 1 = Len(name.host)

refMatchingPrefix(name, prefix) ==
  IF prefix.wildcard THEN refMatchingSubdomainPrefix(name, prefix)
  ELSE /\ prefix.host = name.host
       /\ prefix.port = name.port \/ (prefix.port = "" /\ prefix.path = <<>>)
       /\ IsPrefix(prefix.path, name.path)

Length(prefix) ==
  FoldSeq(LAMBDA l, n : n + Width[l] + 1, 0, prefix.host \o prefix.path)
  + (IF prefix.wildcard THEN 2 ELSE 0) + (IF prefix.port = "" THEN 0 ELSE Width[prefix.port] + 1)

(* The first of the longest; "*" sorts before every label.                 *)
FindRegistry(c, name) ==
  LET matching == {r \in c.regs : refMatchingPrefix(name, r.prefix)}
      longest  == {r \in matching : \A s \in matching : Length(s.prefix) <= Length(r.prefix)}
      first    == {r \in longest : r.prefix.wildcard \/ \A s \in longest : ~s.prefix.wildcard}
  IN  first

(* What follows the prefix is appended to the location.                    *)
Rewritten(ref, prefix, location) ==
  IF location = NoName THEN ref
  ELSE LET rest == IF prefix.wildcard THEN ref.path ELSE SubSeq(ref.path, Len(prefix.path) + 1, Len(ref.path))
           port == IF ref.port # prefix.port THEN ref.port ELSE ""
           name == [host |-> location.host, port |-> IF port # "" THEN port ELSE location.port, path |-> location.path \o rest]
       IN  Ref(name, ref.tag, ref.digest)

rewritable(ref, prefix, location) ==
  location # NoName =>
    /\ ref.port # prefix.port => location.port = "" /\ location.path = <<>>
    /\ LET new == Rewritten(ref, prefix, location) IN new.path # <<>> /\ Normalize(new) = new

(* Mutation: the restriction of one mirror is not looked at. *)
mirrorUsedAlways(reg, mirror, ref) == reg.digestOnly => ref.digest # ""

mirrorUsed(reg, mirror, ref) ==
  IF reg.digestOnly THEN ref.digest # ""
  ELSE /\ mirror.pull = "digest-only" => ref.digest # ""
       /\ mirror.pull = "tag-only" => ref.digest = ""

(* The places of the mirrors in use, and the one behind all mirrors, where *)
(* the entry's own location is.                                            *)
Positions(reg, ref) ==
  {i \in DOMAIN reg.mirrors : mirrorUsed(reg, reg.mirrors[i], ref)} \union {Len(reg.mirrors) + 1}

EndpointAt(reg, i) ==
  IF i \in DOMAIN reg.mirrors THEN reg.mirrors[i]
  ELSE [location |-> reg.location, insecure |-> reg.insecure, pull |-> "primary"]

PullSourcesFromReference(reg, ref) ==
  [i \in Positions(reg, ref) |->
     [endpoint |-> EndpointAt(reg, i), ref |-> Rewritten(ref, reg.prefix, EndpointAt(reg, i).location)]]

(* Without an entry the reference itself is the prefix and the location.   *)
DefaultSources(ref) ==
  [i \in {1} |-> [endpoint |-> [location |-> NameOf(ref), insecure |-> FALSE, pull |-> "primary"], ref |-> ref]]

-----------------------------------------------------------------------------
(* The alias file.                                                         *)

lookup(aliases, name) == IF name \in DOMAIN aliases THEN aliases[name] ELSE NoName

(* A name the file has (perhaps reset to nothing) hides the configuration. *)
ResolveShortNameAlias(path) == IF path \in DOMAIN file.aliases THEN file.aliases[path] ELSE lookup(config.aliases, path)

Edited(aliases, e) ==
  IF e.value = NoName THEN [n \in DOMAIN aliases \ {e.name} |-> aliases[n]]
  ELSE [n \in DOMAIN aliases \union {e.name} |-> IF n = e.name THEN e.value ELSE aliases[n]]

valid(e) == e.value # NoName => e.value.host # <<>> /\ e.value.path # <<>>

Init ==
  /\ config \in Configs
  /\ file = [state |-> "ok", aliases |-> <<>>] /\ truth = <<>>
  /\ writer = "nobody" /\ edits = 0 /\ reloads = 0
  /\ proc = [p \in Procs |-> Idle]

Reload ==
  /\ reloads < MaxReloads /\ reloads' = reloads + 1
  /\ config' \in Configs \ {config}
  /\ UNCHANGED <<file, writer, edits, proc, truth>>

Goto(p, s) == proc' = [proc EXCEPT ![p] = s] /\ UNCHANGED <<config, reloads>>

StartEdit(p, e) ==
  /\ proc[p] = Idle /\ edits < MaxEdits
  /\ valid(e)
  /\ edits' = edits + 1
  /\ Goto(p, [pc |-> "edit", edit |-> e])
  /\ UNCHANGED <<file, writer, truth>>

(* Under the lock: the file is read, and nothing is written if it is       *)
(* corrupt or if the name to remove is not there.                          *)
editShortNameAlias(p) ==
  /\ proc[p].pc = "edit" /\ writer = "nobody"
  /\ IF file.state = "ok" /\ (proc[p].edit.value = NoName => proc[p].edit.name \in DOMAIN file.aliases)
     THEN /\ Goto(p, [pc |-> "open", edit |-> proc[p].edit, aliases |-> Edited(file.aliases, proc[p].edit)])
          /\ writer' = p
     ELSE Goto(p, Idle) /\ UNCHANGED writer
  /\ UNCHANGED <<file, edits, truth>>

OpenFails(p) ==
  /\ proc[p].pc = "open"
  /\ Goto(p, Idle) /\ writer' = "nobody"
  /\ UNCHANGED <<file, edits, truth>>

(* O_TRUNC                                                                 *)
OpenFile(p) ==
  /\ proc[p].pc = "open"
  /\ file' = [state |-> "ok", aliases |-> <<>>]
  /\ Goto(p, [pc |-> "encode", edit |-> proc[p].edit, aliases |-> proc[p].aliases])
  /\ UNCHANGED <<writer, edits, truth>>

Encode(p) ==
  /\ proc[p].pc = "encode"
  /\ file' = [state |-> "ok", aliases |-> proc[p].aliases]
  /\ truth' = Edited(truth, proc[p].edit)
  /\ Goto(p, Idle) /\ writer' = "nobody"
  /\ UNCHANGED edits

(* A write fails, or the process dies and its lock goes, after O_TRUNC: the *)
(* file has none, some or all of the aliases, or ends in the middle of one. *)
EncodeFails(p) ==
  /\ proc[p].pc = "encode"
  /\ \/ /\ file' = [state |-> "corrupt", aliases |-> <<>>]
        /\ UNCHANGED truth
     \/ \E written \in SUBSET DOMAIN proc[p].aliases :
          /\ file' = [state |-> "ok", aliases |-> [n \in written |-> proc[p].aliases[n]]]
          /\ truth' = file'.aliases
  /\ Goto(p, Idle) /\ writer' = "nobody"
  /\ UNCHANGED edits

-----------------------------------------------------------------------------
(* Resolving a name.                                                       *)

(* The caller of Resolve tries the candidates in turn, the next one is at. *)
PullFrom(input, candidates, at, record) ==
  [pc |-> "pull", input |-> input, candidates |-> candidates, at |-> at, record |-> record]
Pull(input, candidates, record) == PullFrom(input, candidates, 1, record)

(* Resolve: the mode is read first.                                        *)
Resolve(p, input, mode, hub) ==
  /\ proc[p] = Idle
  /\ LET m == IF mode # "" THEN mode ELSE config.mode
     IN  Goto(p, IF ~IsShort(input) THEN Pull(input, <<TagNameOnly(Normalize(input))>>, FALSE)
                 ELSE IF hub THEN Pull(input, <<TagNameOnly(InRegistry(DockerIO, input))>>, FALSE)
                 ELSE [pc |-> "alias", input |-> input, mode |-> m])
  /\ UNCHANGED <<file, writer, edits, truth>>

ResolveAlias(p) ==
  /\ proc[p].pc = "alias" /\ writer = "nobody"
  /\ LET input == proc[p].input
         alias == ResolveShortNameAlias(input.path)
     IN  Goto(p, IF file.state = "corrupt" THEN Idle
                 ELSE IF alias # NoName THEN Pull(input, <<TagNameOnly(Ref(alias, input.tag, input.digest))>>, FALSE)
                 ELSE [pc |-> "search", input |-> input, mode |-> proc[p].mode])
  /\ UNCHANGED <<file, writer, edits, truth>>

SearchRegistries(p, terminal) ==
  /\ proc[p].pc = "search"
  /\ LET input == proc[p].input
         candidates == [i \in DOMAIN config.usr |-> TagNameOnly(InRegistry(config.usr[i], input))]
     IN  Goto(p, IF candidates = <<>> THEN Idle
                 ELSE IF proc[p].mode = "disabled" \/ Len(candidates) = 1 THEN Pull(input, candidates, FALSE)
                 ELSE IF ~terminal THEN IF proc[p].mode = "permissive" THEN Pull(input, candidates, FALSE) ELSE Idle
                 ELSE [pc |-> "prompt", input |-> input, candidates |-> candidates])
  /\ UNCHANGED <<file, writer, edits, truth>>

Prompt(p) ==
  /\ proc[p].pc = "prompt"
  /\ \/ Goto(p, Idle)
     \/ \E i \in DOMAIN proc[p].candidates : Goto(p, Pull(proc[p].input, <<Normalize(proc[p].candidates[i])>>, TRUE))
  /\ UNCHANGED <<file, writer, edits, truth>>

(* Names for an image in local storage                                     *)
ResolveLocally(p, input, hub) ==
  /\ proc[p] = Idle /\ writer = "nobody"
  /\ LET complete(regs) == [i \in DOMAIN regs |-> TagNameOnly(InRegistry(regs[i], input))]
         alias == ResolveShortNameAlias(input.path)
         found == IF alias = NoName THEN <<>> ELSE <<TagNameOnly(Ref(alias, input.tag, input.digest))>>
     IN  Goto(p, IF ~IsShort(input) THEN [pc |-> "local", input |-> input, candidates |-> <<TagNameOnly(Normalize(input))>>]
                 ELSE IF hub THEN [pc |-> "local", input |-> input, candidates |-> complete(<<DockerIO>>)]
                 ELSE IF file.state = "corrupt" THEN Idle
                 ELSE [pc |-> "local", input |-> input, candidates |-> found \o complete(<<Localhost>> \o config.usr)])
  /\ UNCHANGED <<file, writer, edits, truth>>

-----------------------------------------------------------------------------
(* Reading from the registry.                                              *)

(* What a caller's SystemContext has: DockerAuthConfig, and                *)
(* DockerBearerRegistryToken.                                              *)
Credentials == [auth : BOOLEAN, token : BOOLEAN]

(* The sources that were not tried yet, and what was tried in vain.        *)
Attempting(next, logical, reg, sys, sources, tried) ==
  [pc |-> "attempt", next |-> next, logical |-> logical, reg |-> reg, sys |-> sys, sources |-> sources, tried |-> tried]

(* newReference: no tag and digest at once.                                *)
referenceRefused(ref) == ref.tag # "" /\ ref.digest # ""

newImageSource(p, sys) ==
  /\ proc[p].pc = "pull" /\ proc[p].at \in DOMAIN proc[p].candidates
  /\ LET ref  == proc[p].candidates[proc[p].at]
         next == PullFrom(proc[p].input, proc[p].candidates, proc[p].at + 1, proc[p].record)
     IN  \/ referenceRefused(ref) /\ Goto(p, next)
         \/ /\ ~referenceRefused(ref) /\ FindRegistry(config, NameOf(ref)) = {}
            /\ Goto(p, Attempting(next, ref, {}, sys, DefaultSources(ref), {}))
         \/ \E reg \in FindRegistry(config, NameOf(ref)) :
              /\ ~referenceRefused(ref)
              /\ LET fails == \E i \in Positions(reg, ref) : ~rewritable(ref, reg.prefix, EndpointAt(reg, i).location)
                 IN  Goto(p, IF fails THEN next
                             ELSE Attempting(next, ref, {reg}, sys, PullSourcesFromReference(reg, ref), {}))
  /\ UNCHANGED <<file, writer, edits, truth>>

(* newDockerClient refuses a blocked name, and that name is the rewritten one. *)
isBlocked(physical) == \E reg \in FindRegistry(config, NameOf(physical)) : reg.blocked

(* DockerAuthConfig is for the domain of the logical reference.            *)
endpointSys(sys, logical, physical) ==
  IF sys.auth /\ DomainOf(physical) # DomainOf(logical) THEN [auth |-> FALSE, token |-> FALSE] ELSE sys

Attempt(i, source, sent) == [at |-> i, ref |-> source.ref, pull |-> source.endpoint.pull, sent |-> sent]

newImageSourceAttempt(p) ==
  /\ proc[p].pc = "attempt"
  /\ \E i \in DOMAIN proc[p].sources :
       LET s == proc[p]
           source == s.sources[i]
           others == [j \in DOMAIN s.sources \ {i} |-> s.sources[j]]
           this   == Attempt(i, source, endpointSys(s.sys, s.logical, source.ref))
       IN  /\ \A j \in DOMAIN others : i < j
           /\ \/ Goto(p, Attempting(s.next, s.logical, s.reg, s.sys, others, s.tried \union {this}))
              \/ /\ ~isBlocked(source.ref)
                 /\ Goto(p, [pc |-> "reading", next |-> s.next, logical |-> s.logical, reg |-> s.reg, sys |-> s.sys,
                             physical |-> source.ref, insecure |-> source.endpoint.insecure,
                             tried |-> s.tried, used |-> this])
  /\ UNCHANGED <<file, writer, edits, truth>>

AllFailed(p) ==
  /\ proc[p].pc = "attempt" /\ DOMAIN proc[p].sources = {}
  /\ Goto(p, proc[p].next)
  /\ UNCHANGED <<file, writer, edits, truth>>

(* The image was pulled: Record edits the alias file if the user chose.    *)
Record(p) ==
  /\ proc[p].pc = "reading"
  /\ Goto(p, IF proc[p].next.record
             THEN [pc |-> "edit", edit |-> [name |-> proc[p].next.input.path, value |-> NameOf(proc[p].logical)]]
             ELSE Idle)
  /\ UNCHANGED <<file, writer, edits, truth>>

Return(p) ==
  /\ \/ proc[p].pc = "local"
     \/ proc[p].pc = "pull" /\ proc[p].at \notin DOMAIN proc[p].candidates
  /\ Goto(p, Idle)
  /\ UNCHANGED <<file, writer, edits, truth>>

Next ==
  \/ Reload
  \/ \E p \in Editors, e \in Edits : StartEdit(p, e)
  \/ \E p \in Pullers, input \in Inputs, hub \in BOOLEAN :
       ResolveLocally(p, input, hub) \/ \E mode \in Modes : Resolve(p, input, mode, hub)
  \/ \E p \in Procs :
       \/ editShortNameAlias(p) \/ OpenFails(p) \/ OpenFile(p) \/ Encode(p) \/ EncodeFails(p)
       \/ ResolveAlias(p) \/ (\E t \in BOOLEAN : SearchRegistries(p, t)) \/ Prompt(p)
       \/ (\E sys \in Credentials : newImageSource(p, sys)) \/ newImageSourceAttempt(p) \/ AllFailed(p) \/ Record(p) \/ Return(p)

Spec == Init /\ [][Next]_vars

-----------------------------------------------------------------------------
(* Properties.                                                             *)

TypeOK ==
  /\ config \in Configs /\ file.state \in {"ok", "corrupt"}
  /\ writer \in Procs \union {"nobody"}
  /\ edits \in 0..MaxEdits /\ reloads \in 0..MaxReloads
  /\ \A p \in Procs : proc[p].pc \in {"idle", "edit", "open", "encode", "alias", "search", "prompt", "local", "pull", "attempt", "reading"}

(* No edit of an alias is lost or undone by another process, and only a    *)
(* writer has ever a shortened file.  A write that fails may lose aliases; *)
(* what it left is kept, and no edit that succeeds after it is lost.       *)
NoEditIsLost == writer = "nobody" /\ file.state = "ok" => file.aliases = truth

Reading == {p \in Pullers : proc[p].pc = "reading"}

(* What the user fixed by tag or digest, and the path, reach the registry. *)
ReferenceIsKept(p) ==
  LET s == proc[p]
  IN  /\ s.physical.digest = s.next.input.digest
      /\ s.next.input.tag # "" => s.physical.tag = s.next.input.tag
      /\ s.physical.tag = "" <=> s.physical.digest # ""
      /\ s.logical.tag = s.physical.tag

(* Mirrors are tried in order and only for what they are for; one is used, *)
(* and the entry's own location too, when those before it all failed.      *)
MirrorsAreTriedInOrder(p) ==
  LET s == proc[p]
  IN  \A reg \in s.reg :
        /\ \A a \in s.tried \union {s.used} :
             /\ a.pull = "digest-only" => s.physical.digest # ""
             /\ a.pull = "tag-only" => s.physical.digest = ""
             /\ reg.digestOnly /\ s.physical.digest = "" => a.pull = "primary"
        /\ \A a \in s.tried : a.at < s.used.at
        /\ \A i \in DOMAIN reg.mirrors :
             i < s.used.at =>
               \/ reg.mirrors[i].pull = "digest-only" /\ s.physical.digest = ""
               \/ reg.mirrors[i].pull = "tag-only" /\ s.physical.digest # ""
               \/ reg.digestOnly /\ s.physical.digest = ""
               \/ \E a \in s.tried : a.at = i /\ a.ref = Rewritten(s.logical, reg.prefix, reg.mirrors[i].location)

Attempts(p) == proc[p].tried \union {proc[p].used}

(* No attempt, failed or not, sends DockerAuthConfig or a token given with *)
(* it to another domain, and the caller's own domain gets all of them.     *)
AuthConfigStaysHome(p) ==
  \A a \in Attempts(p) :
    /\ proc[p].sys.auth /\ (a.sent.auth \/ a.sent.token) => DomainOf(a.ref) = DomainOf(proc[p].logical)
    /\ DomainOf(a.ref) = DomainOf(proc[p].logical) => a.sent = proc[p].sys

(* "We must not blindly send the credentials intended for the primary      *)
(* endpoint to mirrors" (newImageSourceAttempt): neither DockerAuthConfig  *)
(* nor a bearer token goes to another domain.                              *)
CredentialsStayHome ==
  \A p \in Reading : \A a \in Attempts(p) :
    a.sent.auth \/ a.sent.token => DomainOf(a.ref) = DomainOf(proc[p].logical)

(***************************************************************************)
(* Whatever names are typed, aliases edited and configurations loaded: the *)
(* alias file has exactly the edits that succeeded, after a failed write   *)
(* on top of what that left; an image is read with the tag or digest the   *)
(* user gave, from mirrors only as restricted and in order, from the       *)
(* entry's own location last (newImageSource); and DockerAuthConfig, with  *)
(* a token beside it, goes to no other domain (newImageSourceAttempt).     *)
(***************************************************************************)
PullsAreSound ==
  /\ TypeOK
  /\ NoEditIsLost
  /\ \A p \in Reading : /\ ReferenceIsKept(p)
                        /\ MirrorsAreTriedInOrder(p)
                        /\ AuthConfigStaysHome(p)
=============================================================================
