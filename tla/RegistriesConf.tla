--------------------------- MODULE RegistriesConf ---------------------------
(***************************************************************************)
(* The configuration of registries (pkg/sysregistriesv2): goroutines look  *)
(* it up in a cache shared by the process, load it from a main file and    *)
(* drop-in files when it is not there, and merge the files, while somebody *)
(* edits them and the process invalidates the cache.  Names and locations  *)
(* are opaque; what the code asks of their text is in the constant Text.   *)
(* A slice that may be nil is <<>> (nil) or <<s>>.                         *)
(***************************************************************************)
EXTENDS Naturals, Sequences, SequencesExt

CONSTANTS
  Procs,      \* goroutines
  Contexts,   \* values of SystemContext: [confPath, dirPath, root : BOOLEAN]
  Text,       \* [location |-> [trimmed, url, domain, wildcard, special]]
  AliasNames, \* [name |-> TRUE if it is a valid short name]
  AliasValues,\* [value |-> TRUE if it parses as registry and repository]
  DropIns,    \* the drop-in files [dir, name], directories and names in the order they are walked
  InitialDisks, \* the files at first, [file |-> contents]
  Documents,  \* [file |-> the contents it may be given]
  MaxEdits,   \* edits of files
  Nobody

VARIABLES
  disk,     \* [file |-> [doc, version]]
  edits,    \* number of edits so far
  mutex,    \* holder of configMutex
  cache,    \* configCache: configWrapper to configuration
  call,     \* each goroutine's call
  promised  \* ghost: per wrapper, the versions a new call may not go back behind

vars == <<disk, edits, mutex, cache, call, promised>>

Main(path) == [dir |-> "", name |-> path]
Files      == DOMAIN disk
Missing    == [there |-> "missing"]
Unreadable == [there |-> "unreadable"]
Failed     == [ok |-> FALSE]
Idle       == [pc |-> "idle"]
NoTable    == [k \in {} |-> Nobody]

(* Table t with the entries of u, which win                                *)
Updated(t, u) == [k \in DOMAIN u \union DOMAIN t |-> IF k \in DOMAIN u THEN u[k] ELSE t[k]]
With(t, k, v) == [x \in DOMAIN t \union {k} |-> IF x = k THEN v ELSE t[x]]

-----------------------------------------------------------------------------
(* Which files are read.                                                   *)

newConfigWrapper(ctx) ==
  LET user == disk[Main("user")].doc.there # "missing"
      dirs == IF ctx.dirPath THEN <<"explicit", "">> ELSE IF ctx.root THEN <<"root", "user">> ELSE <<"system", "user">>
  IN  IF ~ctx.confPath /\ user
      THEN [path |-> "user", dir |-> IF ctx.dirPath THEN "explicit" ELSE "", userDir |-> IF ctx.dirPath THEN "" ELSE "user"]
      ELSE [path |-> IF ctx.confPath THEN "explicit" ELSE IF ctx.root THEN "root" ELSE "system",
            dir |-> dirs[1], userDir |-> dirs[2]]

(* The places of a wrapper's files in the order they are read: 0 for the   *)
(* main file, then those of its drop-ins in DropIns.                       *)
DropInsOf(w) == {i \in DOMAIN DropIns : DropIns[i].dir \in {w.dir, w.userDir}}
Places(w)    == {0} \union DropInsOf(w)
FileAt(w, i) == IF i = 0 THEN Main(w.path) ELSE DropIns[i]

dropInConfigs(w) == {i \in DropInsOf(w) : disk[DropIns[i]].doc.there # "missing"}

-----------------------------------------------------------------------------
(* One file.                                                               *)

parsable(l) == ~Text[l].url

isSet(conf) == conf.regs # <<>> \/ conf.usr # <<>> \/ conf.helpers # <<>> \/ conf.mode # "" \/ conf.als # "" \/ conf.aliases # <<>>

(* A version 1 file lists locations; each becomes a registry.              *)
ConvertToV2(v1) ==
  LET trimmed(s) == {Text[l].trimmed : l \in ToSet(s)}
      reg(l) == [prefix |-> l, location |-> l, blocked |-> l \in trimmed(v1.block), insecure |-> l \in trimmed(v1.insecure),
                 digestOnly |-> FALSE, pull |-> "", mirrors |-> <<>>]
  IN  [regs |-> SetToSeq({reg(l) : l \in trimmed(v1.block) \union trimmed(v1.insecure)}),
       usr |-> v1.search, helpers |-> <<>>, mode |-> "", als |-> "", aliases |-> <<>>]

Normalized(reg) ==
  [reg EXCEPT !.location = Text[@].trimmed,
              !.prefix = IF @ = "" THEN Text[reg.location].trimmed ELSE Text[@].trimmed,
              !.mirrors = [i \in DOMAIN @ |-> [@[i] EXCEPT !.location = Text[@].trimmed]]]

mirrorOK(reg, m) ==
  /\ parsable(m.location) /\ Text[m.location].trimmed # ""
  /\ ~(reg.digestOnly /\ m.pull # "")
  /\ m.pull \in {"", "all", "digest-only", "tag-only"}

registryOK(reg) ==
  /\ parsable(reg.location)
  /\ IF reg.prefix = "" THEN Text[reg.location].trimmed # ""
     ELSE parsable(reg.prefix) /\ (Text[reg.prefix].wildcard \/ Text[reg.location].trimmed # "")
  /\ reg.pull = ""
  /\ \A i \in DOMAIN reg.mirrors : mirrorOK(reg, reg.mirrors[i])

Where(reg) == IF reg.location = "" THEN reg.prefix ELSE reg.location

noConflicts(regs) ==
  \A i, j \in DOMAIN regs :
    Where(regs[i]) = Where(regs[j]) => regs[i].insecure = regs[j].insecure /\ regs[i].blocked = regs[j].blocked

searchable(usr) == \A i \in DOMAIN usr : \A j \in DOMAIN usr[i] : parsable(usr[i][j]) /\ Text[usr[i][j]].domain

(* Of several registries with one prefix the first counts.                 *)
firstOfEach(regs) ==
  [p \in {regs[i].prefix : i \in DOMAIN regs} |-> regs[CHOOSE i \in DOMAIN regs : regs[i].prefix = p /\ \A j \in 1..i - 1 : regs[j].prefix # p]]

newShortNameAliasCache(path, aliases) == [n \in DOMAIN aliases |-> [value |-> aliases[n], origin |-> path]]

aliasesOK(aliases) == \A n \in DOMAIN aliases : AliasNames[n] /\ (aliases[n] = "" \/ AliasValues[aliases[n]])

isV1(doc) == doc.v1.search # <<>> \/ doc.v1.insecure # <<>> \/ doc.v1.block # <<>>

asV2(doc) ==
  IF isV1(doc) THEN ConvertToV2([search |-> doc.v1.search,
                                 insecure |-> FlattenSeq(doc.v1.insecure), block |-> FlattenSeq(doc.v1.block)])
  ELSE doc.v2

normalizedRegs(conf) == [i \in DOMAIN conf.regs |-> Normalized(conf.regs[i])]

valid(doc) ==
  LET conf == asV2(doc)
      regs == normalizedRegs(conf)
  IN  /\ isV1(doc) => /\ ~isSet(doc.v2)
                      /\ \A l \in ToSet(FlattenSeq(doc.v1.block \o doc.v1.insecure)) : parsable(l)
      /\ \A i \in DOMAIN conf.regs : registryOK(conf.regs[i])
      /\ noConflicts(regs)
      /\ searchable(conf.usr)
      /\ conf.mode \in {"", "disabled", "enforcing", "permissive"}
      /\ \A i \in DOMAIN regs : Text[regs[i].prefix].wildcard => ~Text[regs[i].prefix].special
      /\ aliasesOK(conf.aliases)

parsedConfig(f, conf) ==
  [ok |-> TRUE, regs |-> firstOfEach(normalizedRegs(conf)), origin |-> f.name,
   helpers |-> conf.helpers, mode |-> conf.mode, als |-> conf.als,
   usr |-> [i \in DOMAIN conf.usr |-> [j \in DOMAIN conf.usr[i] |-> Text[conf.usr[i][j]].trimmed]],
   aliases |-> newShortNameAliasCache(f.name, conf.aliases)]

loadConfigFile(f, doc, forceV2) ==
  IF (isV1(doc) => ~forceV2) /\ valid(doc) THEN parsedConfig(f, asV2(doc)) ELSE Failed

NoConfig == [ok |-> TRUE, regs |-> NoTable, usr |-> <<>>, origin |-> "", helpers |-> <<>>, mode |-> "", als |-> "", aliases |-> NoTable]

(* What the updates set replaces what c had; tables are merged.            *)
updateWithConfigurationFrom(c, u) ==
  [ok |-> TRUE, regs |-> Updated(c.regs, u.regs),
   usr     |-> IF u.usr # <<>> THEN u.usr ELSE c.usr,
   origin  |-> IF u.usr # <<>> THEN u.origin ELSE c.origin,
   helpers |-> IF u.helpers # <<>> THEN u.helpers ELSE c.helpers,
   mode    |-> IF u.mode # "" THEN u.mode ELSE c.mode,
   als     |-> IF u.als # "" THEN u.als ELSE c.als,
   aliases |-> Updated(c.aliases, u.aliases)]

(* A list of helpers that is nil or empty is replaced.                     *)
OrAuthFile(list) == IF \A i \in DOMAIN list : list[i] = <<>> THEN <<<<"containers-auth.json">>>> ELSE list

WithDefaults(c) ==
  [ok |-> TRUE, regs |-> c.regs, usr |-> c.usr, origin |-> c.origin, helpers |-> OrAuthFile(c.helpers),
   mode |-> IF c.mode = "" THEN "permissive" ELSE c.mode, als |-> c.als, aliases |-> c.aliases]

-----------------------------------------------------------------------------
(* The steps of a call.  A call carries the configuration built so far and *)
(* (a ghost) what every file was when it was read.                         *)

Versions(from) == [f \in DOMAIN from |-> from[f].version]
NewestOf(a, b) == [f \in Files |-> IF a[f] >= b[f] THEN a[f] ELSE b[f]]
Promised(w)    == IF w \in DOMAIN promised THEN promised[w] ELSE [f \in Files |-> 0]

Init ==
  /\ \E docs \in InitialDisks : disk = [f \in DOMAIN docs |-> [doc |-> docs[f], version |-> 0]]
  /\ edits = 0 /\ mutex = Nobody
  /\ cache = NoTable /\ promised = NoTable
  /\ call = [p \in Procs |-> Idle]

Edit(f, doc) ==
  /\ edits < MaxEdits /\ doc # disk[f].doc
  /\ edits' = edits + 1
  /\ disk' = [disk EXCEPT ![f] = [doc |-> doc, version |-> edits']]
  /\ UNCHANGED <<mutex, cache, call, promised>>

(* getConfig starts with the cache, TryUpdatingCache does not use it.      *)
Begin(p, ctx, pc) ==
  /\ call[p] = Idle
  /\ LET w == newConfigWrapper(ctx)
     IN  call' = [call EXCEPT ![p] = [pc |-> pc, ctx |-> ctx, w |-> w, floor |-> Promised(w)]]
  /\ UNCHANGED <<disk, edits, mutex, cache, promised>>

Return(p, config, from) ==
  LET w == call[p].w
  IN  /\ call' = [call EXCEPT ![p] = [pc |-> "returned", w |-> w, floor |-> @.floor, config |-> config, from |-> from]]
      /\ promised' = IF config.ok THEN With(promised, w, NewestOf(Promised(w), Versions(from))) ELSE promised

getConfig(p) ==
  /\ call[p].pc = "lookup" /\ mutex = Nobody
  /\ IF call[p].w \in DOMAIN cache
     THEN Return(p, cache[call[p].w].config, cache[call[p].w].from)
     ELSE /\ call' = [call EXCEPT ![p] = [pc |-> "load", ctx |-> @.ctx, w |-> @.w, floor |-> @.floor]]
          /\ UNCHANGED promised
  /\ UNCHANGED <<disk, edits, mutex, cache>>

(* Mutation: the files are loaded without holding configMutex. *)
LockedByNobody(p) == Nobody

(* tryUpdatingCache holds configMutex until it returns.                    *)
LockedBy(p) == p

tryUpdatingCache(p) ==
  /\ call[p].pc = "load" /\ mutex = Nobody
  /\ LET main   == disk[Main(call[p].w.path)]
         loaded == IF main.doc.there = "file" THEN loadConfigFile(Main(call[p].w.path), main.doc, FALSE)
                   ELSE IF main.doc.there = "missing" /\ ~call[p].ctx.confPath THEN NoConfig
                   ELSE Failed
     IN  IF ~loaded.ok THEN Return(p, Failed, disk) /\ UNCHANGED mutex
         ELSE /\ mutex' = LockedBy(p)
              /\ call' = [call EXCEPT ![p] = [pc |-> "list", ctx |-> @.ctx, w |-> @.w, floor |-> @.floor, config |-> loaded,
                                             from |-> disk]]
              /\ UNCHANGED promised
  /\ UNCHANGED <<disk, edits, cache>>

ListDropIns(p) ==
  /\ call[p].pc = "list"
  /\ call' = [call EXCEPT ![p] = [pc |-> "dropIn", ctx |-> @.ctx, w |-> @.w, floor |-> @.floor, config |-> @.config,
                                 todo |-> dropInConfigs(@.w),
                                 from |-> [f \in Files |-> IF f = Main(@.w.path) THEN @.from[f] ELSE disk[f]]]]
  /\ UNCHANGED <<disk, edits, mutex, cache, promised>>

ListDropInsFails(p) ==
  /\ call[p].pc = "list"
  /\ Return(p, Failed, call[p].from)
  /\ mutex' = Nobody
  /\ UNCHANGED <<disk, edits, cache>>

LoadDropIn(p, i) ==
  /\ call[p].pc = "dropIn" /\ i \in call[p].todo /\ \A j \in call[p].todo : i <= j
  /\ LET f      == DropIns[i]
         loaded == IF disk[f].doc.there = "file" THEN loadConfigFile(f, disk[f].doc, TRUE) ELSE Failed
     IN  IF disk[f].doc.there # "missing" /\ ~loaded.ok
         THEN Return(p, Failed, call[p].from) /\ mutex' = Nobody
         ELSE /\ call' = [call EXCEPT ![p] = [pc |-> "dropIn", ctx |-> @.ctx, w |-> @.w, floor |-> @.floor,
                                 config |-> IF loaded.ok THEN updateWithConfigurationFrom(@.config, loaded) ELSE @.config,
                                 todo |-> @.todo \ {i}, from |-> [@.from EXCEPT ![f] = disk[f]]]]
              /\ UNCHANGED <<mutex, promised>>
  /\ UNCHANGED <<disk, edits, cache>>

Store(p) ==
  /\ call[p].pc = "dropIn" /\ call[p].todo = {}
  /\ LET config == WithDefaults(call[p].config)
     IN  /\ cache' = With(cache, call[p].w, [config |-> config, from |-> call[p].from])
         /\ Return(p, config, call[p].from)
  /\ mutex' = Nobody
  /\ UNCHANGED <<disk, edits>>

InvalidateCache ==
  /\ mutex = Nobody
  /\ cache' = NoTable
  /\ promised' = Updated(promised, [w \in DOMAIN cache |-> NewestOf(Promised(w), Versions(disk))])
  /\ UNCHANGED <<disk, edits, mutex, call>>

Finish(p) ==
  /\ call[p].pc = "returned"
  /\ call' = [call EXCEPT ![p] = Idle]
  /\ UNCHANGED <<disk, edits, mutex, cache, promised>>

Next ==
  \/ \E f \in Files : \E doc \in Documents[f] : Edit(f, doc)
  \/ \E p \in Procs :
       \/ \E ctx \in Contexts, pc \in {"lookup", "load"} : Begin(p, ctx, pc)
       \/ getConfig(p) \/ tryUpdatingCache(p) \/ ListDropIns(p) \/ ListDropInsFails(p)
       \/ (\E i \in DOMAIN DropIns : LoadDropIn(p, i)) \/ Store(p) \/ Finish(p)
  \/ InvalidateCache

Spec == Init /\ [][Next]_vars

-----------------------------------------------------------------------------
(* Properties.                                                             *)

Returned == {p \in Procs : call[p].pc = "returned" /\ call[p].config.ok}

TypeOK ==
  /\ \A f \in Files : disk[f].doc.there \in {"file", "missing", "unreadable"} /\ disk[f].version <= MaxEdits
  /\ mutex \in Procs \union {Nobody}
  /\ \A p \in Procs : call[p].pc \in {"idle", "lookup", "load", "list", "dropIn", "returned"}
  /\ \A w \in DOMAIN cache : cache[w].config.ok

(* The places where a file was found, and what each of them says           *)
Found(w, from)    == {i \in Places(w) : from[FileAt(w, i)].doc.there = "file"}
ConfigsOf(w, from) == [i \in Found(w, from) |-> loadConfigFile(FileAt(w, i), from[FileAt(w, i)].doc, FALSE)]

LastOf(i, places) == i \in places /\ \A j \in places : j <= i

(* A setting has the value of the last place that gives it, a table has    *)
(* for every key the entry of the last place that has the key.             *)
IsLast(confs, field, none, default, value) ==
  LET given == {i \in DOMAIN confs : confs[i][field] # none}
  IN  IF given = {} THEN value = default ELSE \E i \in given : LastOf(i, given) /\ value = confs[i][field]

IsUnion(confs, field, table) ==
  /\ DOMAIN table = UNION {DOMAIN confs[i][field] : i \in DOMAIN confs}
  /\ \A k \in DOMAIN table : \E i \in DOMAIN confs :
       /\ LastOf(i, {j \in DOMAIN confs : k \in DOMAIN confs[j][field]})
       /\ table[k] = confs[i][field][k]

(* containers-registries.conf.d: of the files, in order, the last that has *)
(* a prefix, an alias or a setting gives it; the rest have their defaults. *)
MergedInOrder(confs, c) ==
  /\ \A i \in DOMAIN confs : confs[i].ok
  /\ IsUnion(confs, "regs", c.regs) /\ IsUnion(confs, "aliases", c.aliases)
  /\ IsLast(confs, "usr", <<>>, <<>>, c.usr)
  /\ \A i \in DOMAIN confs : LastOf(i, {j \in DOMAIN confs : confs[j].usr # <<>>}) => c.origin = confs[i].origin
  /\ IsLast(confs, "als", "", "", c.als)
  /\ IsLast(confs, "mode", "", "permissive", c.mode)
  /\ \E list \in {<<>>} \union {confs[i].helpers : i \in DOMAIN confs} :
       IsLast(confs, "helpers", <<>>, <<>>, list) /\ c.helpers = OrAuthFile(list)

(***************************************************************************)
(* A configuration that getConfig or TryUpdatingCache returns never shows  *)
(* a file older than one that a call which had ended before it began has   *)
(* shown, or than the file was when the cache was invalidated before it    *)
(* began, although getConfig unlocks configMutex between the lookup and    *)
(* the load; and it is the merge of the files read, in their order, as     *)
(* the manual describes it.                                                *)
(***************************************************************************)
ConfigIsCurrent ==
  /\ TypeOK
  /\ \A p \in Returned : \A i \in Places(call[p].w) :
       LET f == FileAt(call[p].w, i) IN call[p].from[f].version >= call[p].floor[f]
  /\ \A p \in Returned : MergedInOrder(ConfigsOf(call[p].w, call[p].from), call[p].config)
=============================================================================
