-------------------------- MODULE MCRegistryConfig --------------------------
(***************************************************************************)
(* What decides how a registry is accessed, each explored on its own: the  *)
(* registries.conf files and their cache, the names and locations of a     *)
(* pull, and the stored credentials.  A pull takes one merged              *)
(* configuration and one set of credentials, so the behaviours of these    *)
(* parts are alternatives, chosen by part.                                 *)
(***************************************************************************)
EXTENDS Naturals, Sequences, TLC

CONSTANTS
  Parts, Goroutines, Contexts, Text, AliasNames, AliasValues, DropIns,
  InitialDisks, Documents, MaxConfEdits, Nobody, Pullers, Editors, Inputs,
  Configs, Modes, Edits, Width, DockerIO, Localhost, MaxEdits, MaxReloads,
  Processes, HelperLists, AuthModes, InitialFiles, LoginKeys, Users,
  MaxOperations

VARIABLE part   \* what this behaviour is about

VARIABLES
  disk, confEdits, mutex, cache, call, promised
Conf == INSTANCE RegistriesConf WITH
  Procs <- Goroutines, MaxEdits <- MaxConfEdits, edits <- confEdits
confVars == <<disk, confEdits, mutex, cache, call, promised>>

(* Every drop-in is one place of DropIns, apart from the main files, and   *)
(* the files a context may read are among those on disk, there or not.     *)
ASSUME ConfAssumption ==
  /\ MaxConfEdits \in Nat /\ Nobody \notin Goroutines
  /\ DOMAIN DropIns \subseteq Nat \ {0}
  /\ \A i \in DOMAIN DropIns : DropIns[i].dir # ""
  /\ \A i, j \in DOMAIN DropIns : DropIns[i] = DropIns[j] => i = j
  /\ \A docs \in InitialDisks :
       /\ {DropIns[i] : i \in DOMAIN DropIns} \union {Conf!Main("user")} \subseteq DOMAIN docs
       /\ \A ctx \in Contexts :
            Conf!Main(IF ctx.confPath THEN "explicit" ELSE IF ctx.root THEN "root" ELSE "system") \in DOMAIN docs
       /\ \A f \in DOMAIN docs : \A doc \in Documents[f] \union {docs[f]} :
            doc.there \in {"file", "missing", "unreadable"}

VARIABLES
  config, file, writer, edits, reloads, proc, truth
Pull == INSTANCE ImagePull
pullVars == <<config, file, writer, edits, reloads, proc, truth>>

(* A merged configuration has passed postProcessRegistries: mirrors are    *)
(* restricted one by one or all by digest, never in both ways.             *)
ASSUME PullAssumption ==
  /\ MaxEdits \in Nat /\ MaxReloads \in Nat
  /\ "nobody" \notin Pullers \union Editors
  /\ \A c \in Configs : \A reg \in c.regs :
       /\ Len(reg.mirrors) \in Nat /\ DOMAIN reg.mirrors = 1..Len(reg.mirrors)
       /\ \A i \in DOMAIN reg.mirrors :
            /\ reg.mirrors[i].pull \in {"", "all", "digest-only", "tag-only"}
            /\ reg.digestOnly => reg.mirrors[i].pull = ""

VARIABLES
  helpers, mode, files, stores, authProc, last, operations, began
Auth == INSTANCE DockerConfig WITH
  Modes <- AuthModes, proc <- authProc
authVars == <<helpers, mode, began, files, stores, authProc, last, operations>>

(* Users pass registries and namespaces, at least one helper is configured *)
(* (the auth files are the default), and the entries that were there       *)
(* before are for the registries they are under.                           *)
ASSUME AuthAssumption ==
  /\ MaxOperations \in Nat
  /\ \A list \in HelperLists :
       Len(list) \in Nat \ {0} /\ DOMAIN list = 1..Len(list) /\ \A i \in DOMAIN list : list[i] \in Auth!ExternalHelpers \union {Auth!AuthFile}
  /\ \A key \in LoginKeys :
       key = Auth!Key(key.path) /\ key.path \in Seq(STRING) /\ Len(key.path) >= 1
  /\ \A contents \in InitialFiles :
       /\ DOMAIN contents = {"auth", "config", "docker", "legacy"}
       /\ \A f \in DOMAIN contents :
            /\ \A key \in DOMAIN contents[f].credHelpers : contents[f].credHelpers[key] \in Auth!ExternalHelpers
            /\ \A key \in DOMAIN contents[f].auths :
                 \/ contents[f].auths[key] = Auth!NoCred
                 \/ Auth!BelongsTo(contents[f].auths[key], key, f = "legacy")

vars == <<part, confVars, pullVars, authVars>>

-----------------------------------------------------------------------------
(* registries.conf: the system's and the user's main file and a file given *)
(* explicitly, one drop-in of the system and one of the user.  The         *)
(* documents have what can be overridden, what conflicts, and what is      *)
(* refused.                                                                *)
Place(t, url, domain, wildcard, special) ==
  [trimmed |-> t, url |-> url, domain |-> domain, wildcard |-> wildcard, special |-> special]

MCText == [l \in {"", "a.com", "a.com/", "b.com", "http://a.com", "*.c.com", "*.c.com/x"} |->
  CASE l = ""             -> Place("", FALSE, FALSE, FALSE, FALSE)
    [] l = "a.com"        -> Place("a.com", FALSE, TRUE, FALSE, FALSE)
    [] l = "a.com/"       -> Place("a.com", FALSE, TRUE, FALSE, FALSE)
    [] l = "b.com"        -> Place("b.com", FALSE, TRUE, FALSE, FALSE)
    [] l = "http://a.com" -> Place("http://a.com", TRUE, FALSE, FALSE, TRUE)
    [] l = "*.c.com"      -> Place("*.c.com", FALSE, FALSE, TRUE, FALSE)
    [] l = "*.c.com/x"    -> Place("*.c.com/x", FALSE, FALSE, TRUE, TRUE)]

MCAliasNames  == [n \in {"short", "a.com/long"} |-> n = "short"]
MCAliasValues == [v \in {"a.com/repo", "repo"} |-> v = "a.com/repo"]

Entry(prefix, location, blocked) ==
  [prefix |-> prefix, location |-> location, blocked |-> blocked, insecure |-> FALSE,
   digestOnly |-> FALSE, pull |-> "", mirrors |-> <<>>]

Mirrored(digestOnly, location, pull) ==
  [Entry("", "a.com", FALSE) EXCEPT
     !.digestOnly = digestOnly,
     !.mirrors = <<[location |-> location, insecure |-> FALSE, pull |-> pull]>>]

V1(search, insecure, block) == [search |-> search, insecure |-> insecure, block |-> block]
NoV1 == V1(<<>>, <<>>, <<>>)
V2(regs, usr, credHelpers, shortMode, aliases) ==
  [regs |-> regs, usr |-> usr, helpers |-> credHelpers, mode |-> shortMode, als |-> "",
   aliases |-> aliases]
NoV2 == V2(<<>>, <<>>, <<>>, "", <<>>)
Doc(v1, v2) == [there |-> "file", v1 |-> v1, v2 |-> v2]

Base     == Doc(NoV1, V2(<<Entry("", "a.com/", FALSE), Entry("a.com", "a.com", FALSE)>>,
                         <<<<"a.com">>>>, <<<<>>>>, "enforcing", "short" :> "a.com/repo"))
Old      == Doc(V1(<<<<"b.com">>>>, <<<<"b.com">>>>, <<<<"a.com/", "b.com">>>>), NoV2)
Mixed    == Doc(V1(<<<<>>>>, <<>>, <<>>), V2(<<>>, <<>>, <<>>, "disabled", <<>>))
Override == Doc(NoV1, V2(<<Entry("a.com", "b.com", FALSE), Mirrored(FALSE, "b.com", "tag-only")>>,
                         <<>>, <<<<"pass">>>>, "disabled", <<>>))
Resets   == Doc(NoV1, [V2(<<Entry("*.c.com", "", TRUE)>>, <<<<>>>>, <<>>, "", "short" :> "")
                         EXCEPT !.als = "helper"])

Refused ==
  {Doc(NoV1, V2(regs, <<>>, <<>>, "", <<>>)) : regs \in
     {<<Entry("", "", FALSE)>>, <<Entry("a.com", "", FALSE)>>, <<Entry("*.c.com/x", "", FALSE)>>,
      <<Entry("", "http://a.com", FALSE)>>,
      <<Entry("", "a.com", FALSE), Entry("b.com", "a.com", TRUE)>>,
      <<Mirrored(TRUE, "b.com", "all")>>, <<Mirrored(FALSE, "", "")>>,
      <<Mirrored(FALSE, "b.com", "never")>>}}
  \union {Doc(NoV1, V2(<<>>, <<<<"*.c.com">>>>, <<>>, "", <<>>)),
          Doc(NoV1, V2(<<>>, <<>>, <<>>, "loud", <<>>)),
          Doc(NoV1, V2(<<>>, <<>>, <<>>, "", "a.com/long" :> "a.com/repo")),
          Doc(NoV1, V2(<<>>, <<>>, <<>>, "", "short" :> "repo"))}

(* As in RegistriesConf.                                                   *)
Main(path) == [dir |-> "", name |-> path]
Missing    == [there |-> "missing"]
Unreadable == [there |-> "unreadable"]

DropIn(d, n) == [dir |-> d, name |-> n]
MCDropIns == <<DropIn("system", "10"), DropIn("user", "20")>>

MCDocuments ==
  Main("system") :> {Old} @@ Main("user") :> {Missing} @@ Main("explicit") :> {}
  @@ DropIn("system", "10") :> {} @@ DropIn("user", "20") :> {Missing, Resets}

D0 == Main("system") :> Base @@ Main("user") :> Missing @@ Main("explicit") :> Base
      @@ DropIn("system", "10") :> Override @@ DropIn("user", "20") :> Resets

MCInitialDisks ==
  {D0, [D0 EXCEPT ![Main("user")] = Mixed], [D0 EXCEPT ![Main("explicit")] = Missing],
   [D0 EXCEPT ![Main("system")] = Missing], [D0 EXCEPT ![Main("system")] = Unreadable]}
  \union {[D0 EXCEPT ![DropIn("user", "20")] = d] : d \in Refused \union {Old, Unreadable}}

MCContexts == {[confPath |-> c, dirPath |-> FALSE, root |-> FALSE] : c \in BOOLEAN}

(* Pulls: a configuration with an entry and a nested one, a wildcard of    *)
(* the same length as a host, mirrors with and without restrictions, a     *)
(* blocked entry that is relocated and one that is not; and configurations *)
(* with other search registries.  One process pulls, one edits aliases.    *)
Name(host, port, path)     == [host |-> host, port |-> port, path |-> path]
Prefix(wildcard, host, path) == [wildcard |-> wildcard, host |-> host, port |-> "", path |-> path]
Ref(host, path, tag, digest) ==
  [host |-> host, port |-> "", path |-> path, tag |-> tag, digest |-> digest]

NoName == Name(<<>>, "", <<>>)
ACom == <<"a", "com">>
BCom == <<"b", "com">>
Hub  == <<"docker", "io">>
Local == <<"localhost">>

Mirror(host, pull) == [location |-> Name(host, "", <<>>), insecure |-> TRUE, pull |-> pull]
Reg(prefix, location, mirrors, digestOnly, blocked) ==
  [prefix |-> prefix, location |-> location, mirrors |-> mirrors, digestOnly |-> digestOnly,
   blocked |-> blocked, insecure |-> FALSE]

C1 == [mode |-> "permissive", usr |-> <<ACom, Hub>>,
       aliases |-> <<"x">> :> Name(ACom, "", <<"ns", "x">>),
       regs |-> {Reg(Prefix(FALSE, ACom, <<>>), Name(ACom, "", <<>>),
                     <<Mirror(BCom, "tag-only"), Mirror(Local, "digest-only")>>, FALSE, FALSE),
                 Reg(Prefix(FALSE, ACom, <<"ns">>), Name(BCom, "", <<"other">>), <<>>, FALSE, TRUE),
                 Reg(Prefix(FALSE, BCom, <<"other", "x">>), Name(BCom, "", <<>>), <<>>, FALSE, FALSE),
                 Reg(Prefix(TRUE, <<"io">>, <<>>), NoName, <<Mirror(BCom, "")>>, TRUE, FALSE)}]

C2 == [mode |-> "enforcing", usr |-> <<BCom, ACom>>, aliases |-> <<>>,
       regs |-> {Reg(Prefix(FALSE, BCom, <<>>), Name(BCom, "", <<>>), <<>>, FALSE, TRUE),
                 Reg(Prefix(TRUE, <<"com">>, <<>>), NoName, <<Mirror(Local, "all")>>, FALSE, FALSE)}]

C3 == [C2 EXCEPT !.mode = "disabled", !.usr = <<>>]

MCConfigs == {C1, C2, C3}
MCInputs ==
  {Ref(<<>>, <<"x">>, "", ""), Ref(<<>>, <<"y">>, "t", ""), Ref(<<>>, <<"x">>, "", "d"),
   Ref(ACom, <<"ns", "x">>, "t", "d"), Ref(BCom, <<"x">>, "", ""), Ref(Hub, <<"y">>, "", ""),
   [Ref(ACom, <<"y">>, "t", "") EXCEPT !.port = "5000"]}
MCEdits ==
  {[name |-> <<"x">>, value |-> Name(BCom, "", <<"x">>)], [name |-> <<"x">>, value |-> NoName],
   [name |-> <<"y">>, value |-> Name(Hub, "", <<"library", "y">>)],
   [name |-> <<"y">>, value |-> Name(<<>>, "", <<"y">>)]}
MCWidth == [l \in {"a", "b", "com", "io", "docker", "localhost", "ns", "other", "x", "y",
                   "library", "5000"} |->
  CASE l \in {"a", "b", "x", "y"} -> 1 [] l \in {"io", "ns"} -> 2 [] l = "com" -> 3
    [] l = "5000" -> 4 [] l = "other" -> 5 [] l = "docker" -> 6 [] l = "library" -> 7
    [] OTHER -> 9]

(* Credentials: what docker left behind is nothing; a URL and an empty     *)
(* entry, with an old file; or an entry for a helper.                      *)
Key(path) == [url |-> FALSE, path |-> path]
quay == Key(<<"quay.io">>)
quayNS == Key(<<"quay.io", "ns">>)
hub == Key(<<"docker.io">>)
DockerHubURL == [url |-> TRUE, path |-> <<"index.docker.io", "v1">>]
MCLoginKeys == {quay, quayNS, hub}

AuthFile == "containers-auth.json"
MCHelperLists == {<<AuthFile>>, <<"h1", AuthFile>>}
MCAuthModes == {"default", "compat", "legacyfile", "noruntime"}

Empty == [auths |-> <<>>, credHelpers |-> <<>>, other |-> FALSE]
By(key, user) == [path |-> key.path, user |-> user]

MCInitialFiles ==
  {("auth" :> Empty) @@ ("config" :> Empty) @@ ("docker" :> d) @@ ("legacy" :> l) :
     d \in {Empty,
            [auths |-> (DockerHubURL :> By(hub, "docker"))
                       @@ (quay :> [path |-> <<>>, user |-> "nobody"]),
             credHelpers |-> <<>>, other |-> TRUE],
            [auths |-> (hub :> By(hub, "docker")), credHelpers |-> (quay :> "h2") @@ (DockerHubURL :> "h2"),
             other |-> TRUE]},
     l \in {Empty,
            [Empty EXCEPT !.auths =
               ([url |-> TRUE, path |-> <<"quay.io", "v1">>] :> By(quay, "old"))]}}

-----------------------------------------------------------------------------
(* A behaviour is about one part; the variables of the others keep the     *)
(* value Unused.                                                           *)
Unused == "unused"

confInit ==
  IF part = "conf" THEN Conf!Init
  ELSE /\ disk = Unused /\ confEdits = Unused /\ mutex = Unused /\ cache = Unused
       /\ call = Unused /\ promised = Unused
pullInit ==
  IF part = "pull" THEN Pull!Init
  ELSE /\ config = Unused /\ file = Unused /\ writer = Unused /\ edits = Unused
       /\ reloads = Unused /\ proc = Unused /\ truth = Unused
authInit ==
  IF part = "auth" THEN Auth!Init
  ELSE /\ helpers = Unused /\ mode = Unused /\ files = Unused /\ stores = Unused
       /\ authProc = Unused /\ last = Unused /\ operations = Unused /\ began = Unused
Init ==
  /\ part \in Parts
  /\ confInit /\ pullInit /\ authInit

ConfStep ==
  /\ part = "conf" /\ Conf!Next
  /\ UNCHANGED <<part, pullVars, authVars>>
PullStep ==
  /\ part = "pull" /\ Pull!Next
  /\ UNCHANGED <<part, confVars, authVars>>
AuthStep ==
  /\ part = "auth" /\ Auth!Next
  /\ UNCHANGED <<part, confVars, pullVars>>

Next == ConfStep \/ PullStep \/ AuthStep

Spec == Init /\ [][Next]_vars

(* Goroutines are alike.                                                   *)
Symmetry == Permutations(Goroutines)

-----------------------------------------------------------------------------
(* Properties.  Each is the property of the same name of a part's module.  *)

(* A configuration that getConfig or TryUpdatingCache returns never shows  *)
(* a file older than one that a call which had ended before it began has   *)
(* shown, or than an invalidation of the cache before it began; and it is  *)
(* the merge of the files read, in the order of the manual.                *)
ConfigIsCurrent == part = "conf" => Conf!ConfigIsCurrent

(* Whatever names are typed, aliases edited and configurations loaded: the *)
(* alias file has exactly the edits that succeeded, after a failed write   *)
(* on top of what that left; an image is read with the tag or digest the   *)
(* user gave, from mirrors only as restricted and in order; and            *)
(* DockerAuthConfig, with a token beside it, goes to no other domain.      *)
PullsAreSound == part = "pull" => Pull!PullsAreSound

(* "We must not blindly send the credentials intended for the primary      *)
(* endpoint to mirrors" (newImageSourceAttempt): neither DockerAuthConfig  *)
(* nor a bearer token goes to another domain.                              *)
CredentialsStayHome == part = "pull" => Pull!CredentialsStayHome

(* Credentials are found where SetCredentials put them and nowhere else,   *)
(* and docker's file keeps what is not an entry of "auths".                *)
CredentialsAreSound == part = "auth" => Auth!CredentialsAreSound
=============================================================================
