---------------------------- MODULE DockerConfig ----------------------------
(***************************************************************************)
(* pkg/docker/config/config.go: credentials of registries, in auth files   *)
(* and in external credential helpers.  Several processes log in and out   *)
(* and look credentials up.  An auth file is read, edited and replaced     *)
(* without a lock; writing it is atomic.                                   *)
(*                                                                         *)
(* A key is a registry or a namespace in one, as a path; files written by  *)
(* docker also have URLs as keys.  A credential is tagged with the path it *)
(* was created for.                                                        *)
(***************************************************************************)
EXTENDS Integers, Sequences

CONSTANTS
  Processes,
  HelperLists,     \* what sysregistriesv2.CredentialHelpers may return
  Modes,           \* which file the SystemContext selects
  InitialFiles,    \* the contents of all files
  LoginKeys,       \* keys that users pass
  Users,
  MaxOperations    \* bound: operations

VARIABLES
  helpers, mode,   \* configuration
  files,           \* path -> contents
  stores,          \* external helper -> key -> credential
  proc,            \* the operation of each process
  last,            \* the last operation that ended, and whether it met no error
  operations,      \* how many were started
  began            \* ghost: the files at the beginning

vars == <<helpers, mode, began, files, stores, proc, last, operations>>

AuthFile == "containers-auth.json"      \* sysregistriesv2.AuthenticationFileHelper
ExternalHelpers == {"h1", "h2"}
NoCred == [path |-> <<>>, user |-> "nobody"]
Key(path) == [url |-> FALSE, path |-> path]
Registry(key) == Key(<<key.path[1]>>)
isNamespaced(key) == ~key.url /\ Len(key.path) > 1
DockerHubURL == [url |-> TRUE, path |-> <<"index.docker.io", "v1">>]

(* A process between operations, and in one: call is what prepareForEdit   *)
(* made of the arguments, and the helper todo[at] is next.                 *)
Idle == [pc |-> "idle"]
Call(op, key, cred, todo) == [op |-> op, key |-> key, cred |-> cred, todo |-> todo]
Running(call, at, failed, loggedIn) ==
  [pc |-> "run", call |-> call, at |-> at, failed |-> failed, loggedIn |-> loggedIn]
Writing(call, at, failed, loggedIn, edited) ==
  [pc |-> "write", call |-> call, at |-> at, failed |-> failed, loggedIn |-> loggedIn, edited |-> edited]

Init ==
  /\ helpers \in HelperLists
  /\ mode \in Modes
  /\ files \in InitialFiles /\ began = files
  /\ stores = [h \in ExternalHelpers |-> <<>>]
  /\ proc = [p \in Processes |-> Idle]
  /\ last = [op |-> "none", key |-> Key(<<"quay.io">>), cred |-> NoCred,
             result |-> "none", clean |-> FALSE]
  /\ operations = 0

-----------------------------------------------------------------------------
(* Files and keys *)

userSpecifiedPath == mode \in {"authfile", "compat", "legacyfile"}

(* getPathToAuth, for reading and writing; "none" is the error if          *)
(* $XDG_RUNTIME_DIR does not exist.                                        *)
getPathToAuth ==
  CASE mode = "compat" -> "docker"
    [] mode = "legacyfile" -> "legacy"
    [] mode = "noruntime" -> "none"
    [] OTHER -> "auth"

getAuthFilePaths ==
  IF userSpecifiedPath THEN <<getPathToAuth>>
  ELSE IF getPathToAuth = "none" THEN <<"config", "docker", "legacy">>
  ELSE <<getPathToAuth, "config", "docker", "legacy">>

normalizeRegistry(host) ==
  IF host \in {"registry-1.docker.io", "docker.io"} THEN "index.docker.io" ELSE host

(* The host of a key that is a URL; other keys keep their path.            *)
normalizeAuthFileKey(key, legacyFormat) ==
  LET path == IF legacyFormat \/ key.url THEN <<key.path[1]>> ELSE key.path
  IN IF Len(path) = 1 THEN <<normalizeRegistry(path[1])>> ELSE path

(* The keys to look up, the best match first.                              *)
authKeyLookupOrder(key, legacyFormat) ==
  IF legacyFormat THEN <<Registry(key)>>
  ELSE [i \in 1..Len(key.path) |-> Key([j \in 1..(Len(key.path) - i + 1) |-> key.path[j]])]

Stored(h, key) == IF key \in DOMAIN stores[h] THEN stores[h][key] ELSE NoCred

(* findCredentialsInFile: a set, because keys that only match after        *)
(* normalization are taken in the random order of a Go map.  An empty      *)
(* entry ends the search.                                                  *)
findCredentialsInFile(key, path) ==
  LET contents == files[path]
      legacy == path = "legacy"
      order == authKeyLookupOrder(key, legacy)
      there == {i \in DOMAIN order : order[i] \in DOMAIN contents.auths}
      normalized == {k \in DOMAIN contents.auths :
                       normalizeAuthFileKey(k, legacy) = <<normalizeRegistry(key.path[1])>>}
  IN CASE Registry(key) \in DOMAIN contents.credHelpers ->
            {Stored(contents.credHelpers[Registry(key)], Registry(key))}
       [] Registry(key) \notin DOMAIN contents.credHelpers /\ there # {} ->
            {contents.auths[order[i]] : i \in {j \in there : \A k \in there : j <= k}}
       [] OTHER -> IF normalized = {} THEN {NoCred} ELSE {contents.auths[k] : k \in normalized}

(* getCredentialsFromAuthFiles: the first file with credentials.           *)
getCredentialsFromAuthFiles(key) ==
  LET paths == getAuthFilePaths
      Reached(i) == \A j \in 1..(i - 1) : NoCred \in findCredentialsInFile(key, paths[j])
      found == UNION {findCredentialsInFile(key, paths[i]) \ {NoCred} :
                        i \in {k \in DOMAIN paths : Reached(k)}}
  IN found \cup (IF Reached(Len(paths) + 1) THEN {NoCred} ELSE {})

(* What one helper has for the key; an external one knows registries only. *)
Found(h, key) == IF h = AuthFile THEN getCredentialsFromAuthFiles(key) ELSE {Stored(h, Registry(key))}

-----------------------------------------------------------------------------
(* The operations *)

(* prepareForEdit: in Docker's format namespaces cannot be recorded, and   *)
(* helpers Docker does not know are not used.                              *)
Refused(op, key) == mode = "compat" /\ op \in {"set", "remove"} /\ isNamespaced(key)
EditKey(op, key) ==
  IF mode = "compat" /\ op \in {"set", "remove"} /\ key = Key(<<"docker.io">>)
  THEN DockerHubURL ELSE key

Goto(p, s) == proc' = [proc EXCEPT ![p] = s]

Begin(p, op, key, user) ==
  /\ proc[p].pc = "idle" /\ operations < MaxOperations
  /\ ~Refused(op, key)
  /\ operations' = operations + 1
  /\ Goto(p, Running(Call(op, EditKey(op, key), [path |-> key.path, user |-> user],
                          IF mode = "compat" /\ op # "get" THEN <<AuthFile>> ELSE helpers),
                     1, FALSE, FALSE))
  /\ UNCHANGED <<helpers, mode, began, files, stores, last>>

(* The rest of an operation after one helper: an error is collected and    *)
(* the next helper tried.                                                  *)
Continue(p, failed, loggedIn) ==
  Goto(p, Running(proc[p].call, proc[p].at + 1, proc[p].failed \/ failed, proc[p].loggedIn \/ loggedIn))

Return(p, result) ==
  /\ Goto(p, Idle)
  /\ last' = [op |-> proc[p].call.op, key |-> Key(proc[p].call.cred.path), cred |-> proc[p].call.cred,
              result |-> result, clean |-> ~proc[p].failed]

helper(p) == proc[p].call.todo[proc[p].at]

(* An operation op, at the auth files or at an external helper             *)
At(p, op, inFile) ==
  /\ proc[p].pc = "run" /\ proc[p].call.op = op
  /\ proc[p].at \in DOMAIN proc[p].call.todo
  /\ (helper(p) = AuthFile) = inFile

Put(f, key, value) == [k \in DOMAIN f \cup {key} |-> IF k = key THEN value ELSE f[k]]
Drop(f, keys) == [k \in DOMAIN f \ keys |-> f[k]]

(* Mutation: Docker's file gets the editor's "credHelpers".                *)
ModifiedInFull(contents, auths, credHelpers) ==
  [auths |-> auths, credHelpers |-> credHelpers, other |-> mode = "compat" /\ contents.other]

(* What is written after an editor: modifyJSON marshals what the editor    *)
(* made; modifyDockerConfigJSON replaces "auths" in the file as it was     *)
(* read, and keeps the rest, also what it does not understand.             *)
Modified(contents, auths, credHelpers) ==
  IF mode = "compat" THEN [auths |-> auths, credHelpers |-> contents.credHelpers, other |-> contents.other]
  ELSE [auths |-> auths, credHelpers |-> credHelpers, other |-> FALSE]

helperAccepts(key) == ~isNamespaced(key)

(* SetCredentials with an external helper: the first success returns.      *)
SetInHelper(p) ==
  /\ At(p, "set", FALSE)
  /\ LET key == proc[p].call.key
     IN \/ /\ helperAccepts(key)
           /\ stores' = [stores EXCEPT ![helper(p)] = Put(@, key, proc[p].call.cred)]
           /\ Return(p, "ok")
        \/ Continue(p, TRUE, FALSE) /\ UNCHANGED <<stores, last>>
  /\ UNCHANGED <<helpers, mode, began, files, operations>>

(* modifyJSON and modifyDockerConfigJSON up to the call of the editor fail *)
(* without a path, and for the legacy format.                              *)
Writable == getPathToAuth \notin {"none", "legacy"}

EditFails(p) ==
  /\ \E op \in {"set", "remove", "removeall"} : At(p, op, TRUE)
  /\ Continue(p, TRUE, FALSE)
  /\ UNCHANGED <<helpers, mode, began, files, stores, last, operations>>

(* SetCredentials, the editor: an entry in credHelpers takes precedence,   *)
(* and the file is not written then.                                       *)
SetInFile(p) ==
  /\ At(p, "set", TRUE) /\ Writable
  /\ LET contents == files[getPathToAuth]
         call == proc[p].call
     IN IF call.key \in DOMAIN contents.credHelpers
        THEN /\ ~isNamespaced(call.key)
             /\ stores' = [stores EXCEPT ![contents.credHelpers[call.key]] = Put(@, call.key, call.cred)]
             /\ Return(p, "ok")
        ELSE /\ Goto(p, Writing(call, proc[p].at, proc[p].failed, proc[p].loggedIn,
                                Modified(contents, Put(contents.auths, call.key, call.cred), contents.credHelpers)))
             /\ UNCHANGED <<stores, last>>
  /\ UNCHANGED <<helpers, mode, began, files, operations>>

(* RemoveAuthentication: removeFromCredHelper; namespaced keys are not     *)
(* there.                                                                  *)
RemoveFromHelper(p) ==
  /\ At(p, "remove", FALSE)
  /\ LET key == proc[p].call.key
         there == ~isNamespaced(key) /\ key \in DOMAIN stores[helper(p)]
     IN \/ /\ stores' = IF there THEN [stores EXCEPT ![helper(p)] = Drop(@, {key})] ELSE stores
           /\ Continue(p, FALSE, there)
        \/ Continue(p, TRUE, FALSE) /\ UNCHANGED stores
  /\ UNCHANGED <<helpers, mode, began, files, last, operations>>

(* The editor of RemoveAuthentication, and its helper.                     *)
RemoveFromFile(p) ==
  /\ At(p, "remove", TRUE) /\ Writable
  /\ LET contents == files[getPathToAuth]
         key == proc[p].call.key
         inner == key \in DOMAIN contents.credHelpers /\ ~isNamespaced(key)
         h == contents.credHelpers[key]
         there == inner /\ key \in DOMAIN stores[h]
     IN /\ stores' = IF there THEN [stores EXCEPT ![h] = Drop(@, {key})] ELSE stores
        /\ Goto(p, Writing(proc[p].call, proc[p].at, proc[p].failed,
                           proc[p].loggedIn \/ there \/ key \in DOMAIN contents.auths,
                           Modified(contents, Drop(contents.auths, {key}), contents.credHelpers)))
  /\ UNCHANGED <<helpers, mode, began, files, last, operations>>

(* RemoveAllAuthentication: the registries are deleted one by one, in no   *)
(* order, up to the first error.                                           *)
RemoveAllFromHelper(p) ==
  /\ At(p, "removeall", FALSE)
  /\ \E deleted \in SUBSET DOMAIN stores[helper(p)], failed \in BOOLEAN :
       /\ failed \/ deleted = DOMAIN stores[helper(p)]
       /\ stores' = [stores EXCEPT ![helper(p)] = Drop(@, deleted)]
       /\ Continue(p, failed, FALSE)
  /\ UNCHANGED <<helpers, mode, began, files, last, operations>>

RemoveAllFromFile(p) ==
  /\ At(p, "removeall", TRUE) /\ Writable
  /\ LET contents == files[getPathToAuth]
     IN \E deleted \in SUBSET DOMAIN contents.credHelpers :
          /\ stores' = [h \in ExternalHelpers |-> Drop(stores[h], {k \in deleted : contents.credHelpers[k] = h})]
          /\ IF deleted = DOMAIN contents.credHelpers
             THEN Goto(p, Writing(proc[p].call, proc[p].at, proc[p].failed, proc[p].loggedIn,
                                  Modified(contents, <<>>, <<>>)))
             ELSE Continue(p, TRUE, FALSE)
  /\ UNCHANGED <<helpers, mode, began, files, last, operations>>

(* The end of modifyJSON and modifyDockerConfigJSON.                       *)
WriteFile(p) ==
  /\ proc[p].pc = "write"
  /\ \/ /\ files' = [files EXCEPT ![getPathToAuth] = proc[p].edited]
        /\ IF proc[p].call.op = "set" THEN Return(p, "ok")
           ELSE Continue(p, FALSE, FALSE) /\ UNCHANGED last
     \/ Continue(p, TRUE, FALSE) /\ UNCHANGED <<files, last>>
  /\ UNCHANGED <<helpers, mode, began, stores, operations>>

(* getCredentialsWithHomeDir: the first helper that has credentials; the   *)
(* error of one is collected.                                              *)
Get(p) ==
  /\ proc[p].pc = "run" /\ proc[p].call.op = "get" /\ proc[p].at \in DOMAIN proc[p].call.todo
  /\ \/ Continue(p, TRUE, FALSE) /\ UNCHANGED last
     \/ LET key == proc[p].call.key
        IN \E c \in Found(helper(p), key) :
             IF c # NoCred
             THEN /\ Goto(p, Idle)
                  /\ last' = [op |-> "get", key |-> key, cred |-> c, result |-> "ok", clean |-> ~proc[p].failed]
             ELSE Continue(p, FALSE, FALSE) /\ UNCHANGED last
  /\ UNCHANGED <<helpers, mode, began, files, stores, operations>>

(* All helpers were tried.                                                 *)
Finish(p) ==
  /\ proc[p].pc = "run" /\ proc[p].at \notin DOMAIN proc[p].call.todo
  /\ LET op == proc[p].call.op
     IN Return(p, IF op = "set" \/ proc[p].failed THEN "error"
                  ELSE IF op = "get" THEN "none"
                  ELSE IF op = "remove" /\ ~proc[p].loggedIn THEN "not logged in"
                  ELSE "ok")
  /\ UNCHANGED <<helpers, mode, began, files, stores, operations>>

Done ==
  /\ operations = MaxOperations /\ \A p \in Processes : proc[p].pc = "idle"
  /\ UNCHANGED vars

Next ==
  \/ Done
  \/ \E p \in Processes :
       \/ \E key \in LoginKeys :
            \/ \E u \in Users : Begin(p, "set", key, u)
            \/ \E op \in {"get", "remove"} : Begin(p, op, key, "nobody")
       \/ Begin(p, "removeall", Key(<<"quay.io">>), "nobody")   \* the key is not used
       \/ SetInHelper(p) \/ SetInFile(p) \/ RemoveFromHelper(p) \/ RemoveFromFile(p)
       \/ RemoveAllFromHelper(p) \/ RemoveAllFromFile(p) \/ EditFails(p) \/ WriteFile(p)
       \/ Get(p) \/ Finish(p)

Spec == Init /\ [][Next]_vars

-----------------------------------------------------------------------------
(* Properties *)

TypeOK ==
  /\ helpers \in HelperLists /\ mode \in Modes
  /\ operations \in 0..MaxOperations
  /\ \A p \in Processes : proc[p].pc \in {"idle", "run", "write"}
  /\ \A h \in ExternalHelpers : \A k \in DOMAIN stores[h] : stores[h][k].path # <<>>

(* The credential was created for the registry of the key, under one of    *)
(* its names, and for the key itself or a namespace it is in.              *)
Covers(cred, key) ==
  /\ normalizeRegistry(cred.path[1]) = normalizeRegistry(key.path[1])
  /\ Len(cred.path) > 1 => /\ Len(cred.path) <= Len(key.path)
                           /\ \A i \in 1..Len(cred.path) : cred.path[i] = key.path[i]

(* The same of an entry under key in a file or a helper; the host is all   *)
(* that counts of a URL, and of every key in the legacy format.            *)
BelongsTo(cred, key, legacyFormat) ==
  /\ cred.path \in Seq(STRING) /\ Len(cred.path) >= 1
  /\ normalizeRegistry(cred.path[1]) = normalizeRegistry(key.path[1])
  /\ IF legacyFormat \/ key.url \/ Len(key.path) = 1 THEN Len(cred.path) = 1 ELSE cred.path = key.path

(* Whatever was stored by whom and in which form, no registry ever gets    *)
(* the credentials of another one, nor a repository those of a namespace   *)
(* that it is not in.                                                      *)
CredentialsStayWithTheRegistry ==
  /\ (last.op = "get" /\ last.result = "ok") => Covers(last.cred, last.key)
  /\ \A key \in LoginKeys : \A c \in getCredentialsFromAuthFiles(key) \ {NoCred} : Covers(c, key)

(* What a lookup that meets no error may return: credentials of the first  *)
(* helper that has some.                                                   *)
Lookup(key) ==
  UNION {Found(helpers[i], key) \ {NoCred} :
           i \in {k \in DOMAIN helpers : \A j \in 1..(k - 1) : NoCred \in Found(helpers[j], key)}}

(* Other credentials that a lookup of the key prefers or may choose: those *)
(* of a helper for the registry of a namespace; for Docker Hub, recorded   *)
(* in Docker's file under a URL, also those of a helper for either name or *)
(* of an entry under another name; and, as Docker's file alone is written, *)
(* those that a helper configured before it has.                           *)
Shadowed(key) ==
  \/ helpers[1] = AuthFile /\ Registry(key) \in DOMAIN files[getPathToAuth].credHelpers
                           /\ isNamespaced(key)
  \/ /\ mode = "compat" /\ key = Key(<<"docker.io">>)
     /\ \/ {key, DockerHubURL} \cap DOMAIN files[getPathToAuth].credHelpers # {}
        \/ \E k \in DOMAIN files[getPathToAuth].auths :
             k # DockerHubURL /\ normalizeAuthFileKey(k, FALSE) = <<"index.docker.io">>
  \/ /\ mode = "compat"
     /\ ~\E i \in DOMAIN helpers :
           /\ helpers[i] = AuthFile
           /\ \A j \in 1..(i - 1) : helpers[j] # AuthFile /\ Stored(helpers[j], Registry(key)) = NoCred

(* After a login that met no error, when no process is in an operation, a  *)
(* lookup of the same key finds the new credentials, also when the key is  *)
(* renamed for Docker's file or when helpers are configured.               *)
LoginIsEffective ==
  (/\ last.op = "set" /\ last.result = "ok" /\ last.clean
   /\ \A p \in Processes : proc[p].pc = "idle"
   /\ ~Shadowed(last.key)) => Lookup(last.key) = {last.cred}

(* Editing Docker's file keeps everything that is not an entry of "auths", *)
(* as it was at the beginning.                                             *)
DockerFileIsKept ==
  mode = "compat" =>
    /\ files["docker"].other = began["docker"].other
    /\ files["docker"].credHelpers = began["docker"].credHelpers

(* Credentials are found where they were put and nowhere else.             *)
CredentialsAreSound ==
  TypeOK /\ CredentialsStayWithTheRegistry /\ LoginIsEffective /\ DockerFileIsKept
=============================================================================
