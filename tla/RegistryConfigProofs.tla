------------------------ MODULE RegistryConfigProofs ------------------------
(***************************************************************************)
(* Proofs about the parts of MCRegistryConfig.  A behaviour is about one   *)
(* part, so a part's invariant is an invariant of the whole if the part's  *)
(* Init establishes it and the part's Next preserves it.                   *)
(***************************************************************************)
EXTENDS MCRegistryConfig, SequenceTheorems, TLAPS

-----------------------------------------------------------------------------
(* registries.conf and its cache.  What a goroutine has merged while it    *)
(* holds configMutex is the merge of the files it has read, and no version *)
(* it read is older than one promised: promises are only made with         *)
(* configMutex held, of versions that were on disk.                        *)

(* The operators below take the state they speak of as arguments: d is the *)
(* disk, m the holder of configMutex and pr the promises.                  *)

Known(w, d) == \A i \in Conf!Places(w) : Conf!FileAt(w, i) \in DOMAIN d

PromisedIn(pr, d, w) == IF w \in DOMAIN pr THEN pr[w] ELSE [f \in DOMAIN d |-> 0]

(* Files as they were read, no older than versions                         *)
Fresh(from, versions, d) ==
  /\ DOMAIN from = DOMAIN d
  /\ \A f \in DOMAIN d : /\ from[f].version \in Nat
                         /\ versions[f] <= from[f].version /\ from[f].version <= d[f].version

(* What the files read so far say, those at the places in rest excepted    *)
ReadOf(w, from, rest) ==
  [i \in Conf!Found(w, from) \ rest |-> Conf!loadConfigFile(Conf!FileAt(w, i), from[Conf!FileAt(w, i)].doc, FALSE)]

(* A merge before the defaults are set                                     *)
Merges(confs, c) ==
  /\ \A i \in DOMAIN confs : confs[i].ok
  /\ Conf!IsUnion(confs, "regs", c.regs) /\ Conf!IsUnion(confs, "aliases", c.aliases)
  /\ Conf!IsLast(confs, "usr", <<>>, <<>>, c.usr)
  /\ \A i \in DOMAIN confs : Conf!LastOf(i, {j \in DOMAIN confs : confs[j].usr # <<>>}) => c.origin = confs[i].origin
  /\ Conf!IsLast(confs, "als", "", "", c.als)
  /\ Conf!IsLast(confs, "mode", "", "", c.mode)
  /\ Conf!IsLast(confs, "helpers", <<>>, <<>>, c.helpers)

Rest(c) == IF c.pc = "list" THEN Conf!DropInsOf(c.w) ELSE c.todo

Loading == {"list", "dropIn"}

Started(c, d, pr) ==
  /\ Known(c.w, d)
  /\ \A f \in DOMAIN d : c.floor[f] \in Nat /\ c.floor[f] <= PromisedIn(pr, d, c.w)[f]

(* A goroutine that holds configMutex                                      *)
MergedSoFar(c, d, pr) ==
  /\ Fresh(c.from, PromisedIn(pr, d, c.w), d)
  /\ Rest(c) \subseteq Conf!DropInsOf(c.w)
  /\ \A i \in Conf!Found(c.w, c.from) \ Rest(c), j \in Rest(c) : i < j
  /\ Merges(ReadOf(c.w, c.from, Rest(c)), c.config)

IsCurrent(w, from, conf, versions, d) ==
  /\ Fresh(from, versions, d)
  /\ Conf!MergedInOrder(Conf!ConfigsOf(w, from), conf)

(* Call c of goroutine p                                                   *)
CallOK(c, p, m, d, pr) ==
  /\ c.pc \in {"idle", "lookup", "load", "list", "dropIn", "returned"}
  /\ c.pc \in Loading <=> m = p
  /\ c.pc # "idle" => Started(c, d, pr)
  /\ c.pc \in Loading => MergedSoFar(c, d, pr)
  /\ c.pc = "returned" /\ c.config.ok => IsCurrent(c.w, c.from, c.config, c.floor, d)

DiskOK(d, n) ==
  /\ \E docs \in InitialDisks : DOMAIN d = DOMAIN docs
  /\ \A f \in DOMAIN d : /\ d[f].doc.there \in {"file", "missing", "unreadable"}
                         /\ d[f].version \in Nat /\ d[f].version <= n

PromisesOK(pr, d) ==
  \A w \in DOMAIN pr : \A f \in DOMAIN d : pr[w][f] \in Nat /\ pr[w][f] <= d[f].version

CacheOK(entries, d, pr) ==
  \A w \in DOMAIN entries :
    entries[w].config.ok /\ IsCurrent(w, entries[w].from, entries[w].config, PromisedIn(pr, d, w), d)

(* What ConfigIsCurrent needs to be inductive.                             *)
ConfInvariant ==
  /\ confEdits \in Nat /\ confEdits <= MaxConfEdits /\ DiskOK(disk, confEdits)
  /\ mutex \in Goroutines \cup {Nobody} /\ DOMAIN call = Goroutines
  /\ PromisesOK(promised, disk) /\ CacheOK(cache, disk, promised)
  /\ \A p \in Goroutines : CallOK(call[p], p, mutex, disk, promised)

(* A setting after one more file                                           *)
LEMMA SettingExtends ==
  ASSUME NEW confs, NEW more, NEW i \in Nat, DOMAIN confs \subseteq Nat, \A j \in DOMAIN confs : j < i,
         DOMAIN more = DOMAIN confs \cup {i}, \A j \in DOMAIN confs : more[j] = confs[j],
         NEW field, NEW none, NEW value, Conf!IsLast(confs, field, none, none, value)
  PROVE  Conf!IsLast(more, field, none, none, IF more[i][field] # none THEN more[i][field] ELSE value)
<1> DEFINE old == {j \in DOMAIN confs : confs[j][field] # none}
           new == {j \in DOMAIN more : more[j][field] # none}
<1>1. \A j \in old : j < i
  OBVIOUS
<1>2. CASE more[i][field] # none
  <2>1. new = old \cup {i}
    BY <1>2
  <2>2. Conf!LastOf(i, new)
    <3>1. \A j \in new : j <= i
      BY <1>1, <2>1
    <3> QED BY <2>1, <3>1 DEF Conf!LastOf
  <2> QED BY <1>2, <2>1, <2>2 DEF Conf!IsLast
<1>3. CASE more[i][field] = none
  <2>1. new = old
    BY <1>3
  <2>2. \A j \in old : more[j] = confs[j]
    OBVIOUS
  <2>3. IF old = {} THEN value = none ELSE \E j \in old : Conf!LastOf(j, old) /\ value = confs[j][field]
    BY DEF Conf!IsLast
  <2> HIDE DEF old, new
  <2>4. IF new = {} THEN value = none ELSE \E j \in new : Conf!LastOf(j, new) /\ value = more[j][field]
    BY <2>1, <2>2, <2>3
  <2> QED BY <1>3, <2>4 DEF Conf!IsLast, new
<1> QED BY <1>2, <1>3

(* A table after one more file                                             *)
LEMMA TableExtends ==
  ASSUME NEW confs, NEW more, NEW i \in Nat, DOMAIN confs \subseteq Nat, \A j \in DOMAIN confs : j < i,
         DOMAIN more = DOMAIN confs \cup {i}, \A j \in DOMAIN confs : more[j] = confs[j],
         NEW field, NEW table, Conf!IsUnion(confs, field, table)
  PROVE  Conf!IsUnion(more, field, Conf!Updated(table, more[i][field]))
<1> DEFINE u == more[i][field]
           result == Conf!Updated(table, u)
           OldPlaces(k) == {j \in DOMAIN confs : k \in DOMAIN confs[j][field]}
           NewPlaces(k) == {j \in DOMAIN more : k \in DOMAIN more[j][field]}
<1>1. /\ DOMAIN result = DOMAIN u \cup DOMAIN table
      /\ \A k \in DOMAIN result : result[k] = IF k \in DOMAIN u THEN u[k] ELSE table[k]
  BY DEF Conf!Updated
<1>2. DOMAIN result = UNION {DOMAIN more[j][field] : j \in DOMAIN more}
  <2>1. UNION {DOMAIN more[j][field] : j \in DOMAIN more} = DOMAIN u \cup UNION {DOMAIN confs[j][field] : j \in DOMAIN confs}
    OBVIOUS
  <2> QED BY <1>1, <2>1 DEF Conf!IsUnion
<1>3. ASSUME NEW k \in DOMAIN result
      PROVE  \E j \in DOMAIN more : Conf!LastOf(j, NewPlaces(k)) /\ result[k] = more[j][field][k]
  <2>1. CASE k \in DOMAIN u
    <3>1. i \in NewPlaces(k) /\ \A j \in NewPlaces(k) : j <= i
      BY <2>1
    <3>2. Conf!LastOf(i, NewPlaces(k))
      BY <3>1 DEF Conf!LastOf
    <3> QED BY <1>1, <2>1, <3>2
  <2>2. CASE k \notin DOMAIN u
    <3>1. NewPlaces(k) = OldPlaces(k)
      BY <2>2
    <3>2. PICK j \in DOMAIN confs : Conf!LastOf(j, OldPlaces(k)) /\ table[k] = confs[j][field][k]
      BY <1>1, <2>2 DEF Conf!IsUnion
    <3>3. j \in DOMAIN more /\ more[j] = confs[j] /\ result[k] = table[k]
      BY <1>1, <2>2
    <3> QED BY <3>1, <3>2, <3>3
  <2> QED BY <2>1, <2>2
<1> QED BY <1>2, <1>3 DEF Conf!IsUnion

(* updateWithConfigurationFrom merges one more file.                       *)
LEMMA MergeExtends ==
  ASSUME NEW confs, NEW more, NEW i \in Nat, DOMAIN confs \subseteq Nat, \A j \in DOMAIN confs : j < i,
         DOMAIN more = DOMAIN confs \cup {i}, \A j \in DOMAIN confs : more[j] = confs[j],
         more[i].ok, NEW c, Merges(confs, c)
  PROVE  Merges(more, Conf!updateWithConfigurationFrom(c, more[i]))
<1> DEFINE u == more[i]
           r == Conf!updateWithConfigurationFrom(c, u)
<1>1. /\ r.regs = Conf!Updated(c.regs, u["regs"]) /\ r.aliases = Conf!Updated(c.aliases, u["aliases"])
      /\ r.usr = (IF u["usr"] # <<>> THEN u["usr"] ELSE c.usr)
      /\ r.origin = (IF u["usr"] # <<>> THEN u.origin ELSE c.origin)
      /\ r.helpers = (IF u["helpers"] # <<>> THEN u["helpers"] ELSE c.helpers)
      /\ r.mode = (IF u["mode"] # "" THEN u["mode"] ELSE c.mode)
      /\ r.als = (IF u["als"] # "" THEN u["als"] ELSE c.als)
  BY DEF Conf!updateWithConfigurationFrom
<1> HIDE DEF u, r
<1>2. u = more[i]
  BY DEF u
<1>3. \A j \in DOMAIN more : more[j].ok
  BY DEF Merges
<1>4. Conf!IsUnion(more, "regs", r.regs) /\ Conf!IsUnion(more, "aliases", r.aliases)
  BY <1>1, <1>2, TableExtends DEF Merges
<1>5. \A field, none, value : Conf!IsLast(confs, field, none, none, value) =>
        Conf!IsLast(more, field, none, none, IF u[field] # none THEN u[field] ELSE value)
  BY <1>2, SettingExtends
<1>6. /\ Conf!IsLast(more, "usr", <<>>, <<>>, r.usr) /\ Conf!IsLast(more, "helpers", <<>>, <<>>, r.helpers)
      /\ Conf!IsLast(more, "mode", "", "", r.mode) /\ Conf!IsLast(more, "als", "", "", r.als)
  <2>1. Conf!IsLast(more, "usr", <<>>, <<>>, r.usr)
    <3>1. Conf!IsLast(confs, "usr", <<>>, <<>>, c.usr)
      BY DEF Merges
    <3>2. Conf!IsLast(more, "usr", <<>>, <<>>, IF u["usr"] # <<>> THEN u["usr"] ELSE c.usr)
      BY <1>5, <3>1, Zenon
    <3> QED BY <1>1, <3>2, Zenon
  <2>2. Conf!IsLast(more, "helpers", <<>>, <<>>, r.helpers)
    <3>1. Conf!IsLast(confs, "helpers", <<>>, <<>>, c.helpers)
      BY DEF Merges
    <3>2. Conf!IsLast(more, "helpers", <<>>, <<>>, IF u["helpers"] # <<>> THEN u["helpers"] ELSE c.helpers)
      BY <1>5, <3>1, Zenon
    <3> QED BY <1>1, <3>2, Zenon
  <2>3. Conf!IsLast(more, "mode", "", "", r.mode)
    <3>1. Conf!IsLast(confs, "mode", "", "", c.mode)
      BY DEF Merges
    <3>2. Conf!IsLast(more, "mode", "", "", IF u["mode"] # "" THEN u["mode"] ELSE c.mode)
      BY <1>5, <3>1, Zenon
    <3> QED BY <1>1, <3>2, Zenon
  <2>4. Conf!IsLast(more, "als", "", "", r.als)
    <3>1. Conf!IsLast(confs, "als", "", "", c.als)
      BY DEF Merges
    <3>2. Conf!IsLast(more, "als", "", "", IF u["als"] # "" THEN u["als"] ELSE c.als)
      BY <1>5, <3>1, Zenon
    <3> QED BY <1>1, <3>2, Zenon
  <2> QED BY <2>1, <2>2, <2>3, <2>4
<1>7. ASSUME NEW j \in DOMAIN more, Conf!LastOf(j, {k \in DOMAIN more : more[k].usr # <<>>})
      PROVE  r.origin = more[j].origin
  <2>1. CASE u.usr # <<>>
    <3>1. i \in {k \in DOMAIN more : more[k].usr # <<>>}
      BY <1>2, <2>1
    <3>2. i <= j /\ j \in DOMAIN confs \cup {i}
      BY <1>7, <3>1 DEF Conf!LastOf
    <3>3. j = i
      BY <3>2
    <3> QED BY <1>1, <1>2, <2>1, <3>3
  <2>2. CASE u.usr = <<>>
    <3>1. {k \in DOMAIN more : more[k].usr # <<>>} = {k \in DOMAIN confs : confs[k].usr # <<>>}
      BY <1>2, <2>2
    <3>2. j \in DOMAIN confs /\ more[j] = confs[j]
      BY <1>7, <3>1 DEF Conf!LastOf
    <3>3. c.origin = confs[j].origin
      BY <1>7, <3>1, <3>2 DEF Merges
    <3> QED BY <1>1, <2>2, <3>2, <3>3
  <2> QED BY <2>1, <2>2
<1> QED BY <1>3, <1>4, <1>6, <1>7 DEF Merges, u, r

(* Before the first file there is nothing, after it what it says.          *)
LEMMA MergeStarts ==
  ASSUME NEW confs
  PROVE  /\ DOMAIN confs = {} => Merges(confs, Conf!NoConfig)
         /\ DOMAIN confs = {0} /\ confs[0].ok => Merges(confs, confs[0])
<1>1. ASSUME DOMAIN confs = {} PROVE Merges(confs, Conf!NoConfig)
  <2>1. /\ Conf!NoConfig.regs = Conf!NoTable /\ Conf!NoConfig.aliases = Conf!NoTable
        /\ Conf!NoConfig.usr = <<>> /\ Conf!NoConfig.helpers = <<>> /\ Conf!NoConfig.mode = "" /\ Conf!NoConfig.als = ""
    BY DEF Conf!NoConfig
  <2>2. DOMAIN Conf!NoTable = {}
    BY DEF Conf!NoTable
  <2>3. \A field : Conf!IsUnion(confs, field, Conf!NoTable)
    BY <1>1, <2>2 DEF Conf!IsUnion
  <2>4. \A field, none : Conf!IsLast(confs, field, none, none, none)
    BY <1>1 DEF Conf!IsLast
  <2> QED BY <1>1, <2>1, <2>3, <2>4 DEF Merges
<1>2. ASSUME DOMAIN confs = {0}, confs[0].ok PROVE Merges(confs, confs[0])
  <2>1. \A S : S \subseteq {0} /\ S # {} => S = {0}
    OBVIOUS
  <2>2. Conf!LastOf(0, {0})
    BY DEF Conf!LastOf
  <2>3. ASSUME NEW field PROVE Conf!IsUnion(confs, field, confs[0][field])
    <3>1. UNION {DOMAIN confs[j][field] : j \in DOMAIN confs} = DOMAIN confs[0][field]
      BY <1>2
    <3>2. \A k \in DOMAIN confs[0][field] : {j \in DOMAIN confs : k \in DOMAIN confs[j][field]} = {0}
      BY <1>2
    <3> QED BY <1>2, <2>2, <3>1, <3>2 DEF Conf!IsUnion
  <2>4. ASSUME NEW field, NEW none PROVE Conf!IsLast(confs, field, none, none, confs[0][field])
    <3> DEFINE S == {j \in DOMAIN confs : confs[j][field] # none}
    <3>1. (S = {} /\ confs[0][field] = none) \/ S = {0}
      BY <1>2
    <3> QED BY <2>2, <3>1 DEF Conf!IsLast
  <2>5. \A i \in DOMAIN confs : confs[0].origin = confs[i].origin
    BY <1>2
  <2>6. Conf!IsUnion(confs, "regs", confs[0].regs) /\ Conf!IsUnion(confs, "aliases", confs[0].aliases)
    BY <2>3
  <2>7. /\ Conf!IsLast(confs, "usr", <<>>, <<>>, confs[0].usr) /\ Conf!IsLast(confs, "helpers", <<>>, <<>>, confs[0].helpers)
        /\ Conf!IsLast(confs, "mode", "", "", confs[0].mode) /\ Conf!IsLast(confs, "als", "", "", confs[0].als)
    BY <2>4
  <2> QED BY <1>2, <2>5, <2>6, <2>7 DEF Merges
<1> QED BY <1>1, <1>2

(* The defaults complete a merge.                                          *)
LEMMA MergeEnds ==
  ASSUME NEW confs, NEW c, Merges(confs, c)
  PROVE  Conf!MergedInOrder(confs, Conf!WithDefaults(c))
<1> DEFINE r == Conf!WithDefaults(c)
<1>1. /\ r.regs = c.regs /\ r.aliases = c.aliases /\ r.usr = c.usr /\ r.origin = c.origin /\ r.als = c.als
      /\ r.mode = (IF c.mode = "" THEN "permissive" ELSE c.mode) /\ r.helpers = Conf!OrAuthFile(c.helpers)
  BY DEF Conf!WithDefaults
<1> HIDE DEF r
<1>2. Conf!IsLast(confs, "mode", "", "permissive", r.mode)
  <2> DEFINE S == {i \in DOMAIN confs : confs[i].mode # ""}
  <2>1. IF S = {} THEN c.mode = "" ELSE \E i \in S : Conf!LastOf(i, S) /\ c.mode = confs[i].mode
    BY DEF Merges, Conf!IsLast
  <2>2. CASE S = {}
    BY <1>1, <2>1, <2>2 DEF Conf!IsLast
  <2>3. CASE S # {}
    BY <1>1, <2>1, <2>3 DEF Conf!IsLast
  <2> QED BY <2>2, <2>3
<1>3. c.helpers \in {<<>>} \cup {confs[i].helpers : i \in DOMAIN confs}
  BY DEF Merges, Conf!IsLast
<1>4. \E list \in {<<>>} \union {confs[i].helpers : i \in DOMAIN confs} :
        Conf!IsLast(confs, "helpers", <<>>, <<>>, list) /\ r.helpers = Conf!OrAuthFile(list)
  BY <1>1, <1>3 DEF Merges
<1> QED BY <1>1, <1>2, <1>4 DEF Merges, Conf!MergedInOrder, r

(* A promise is a version that was on disk.                                *)
LEMMA PromisedValues ==
  ASSUME NEW pr, NEW d, PromisesOK(pr, d), \A f \in DOMAIN d : d[f].version \in Nat
  PROVE  \A w : \A f \in DOMAIN d : PromisedIn(pr, d, w)[f] \in Nat /\ PromisedIn(pr, d, w)[f] <= d[f].version
<1> SUFFICES ASSUME NEW w, NEW f \in DOMAIN d
             PROVE  PromisedIn(pr, d, w)[f] \in Nat /\ PromisedIn(pr, d, w)[f] <= d[f].version
  OBVIOUS
<1>1. CASE w \in DOMAIN pr
  BY <1>1 DEF PromisedIn, PromisesOK
<1>2. CASE w \notin DOMAIN pr
  BY <1>2 DEF PromisedIn
<1> QED BY <1>1, <1>2

(* Nothing on disk gets older.                                             *)
Grows(d, e) ==
  /\ DOMAIN e = DOMAIN d
  /\ \A f \in DOMAIN d : d[f].version \in Nat /\ e[f].version \in Nat /\ d[f].version <= e[f].version

(* What was fresh stays so while the disk grows and the versions asked for *)
(* do not.                                                                 *)
LEMMA FreshStays ==
  ASSUME NEW from, NEW v, NEW u, NEW d, NEW e, Fresh(from, v, d), Grows(d, e),
         \A f \in DOMAIN d : v[f] \in Nat /\ u[f] \in Nat /\ u[f] <= v[f]
  PROVE  Fresh(from, u, e)
<1> SUFFICES ASSUME NEW f \in DOMAIN d
             PROVE  from[f].version \in Nat /\ u[f] <= from[f].version /\ from[f].version <= e[f].version
  BY DEF Fresh, Grows
<1> DEFINE a == from[f].version  b == d[f].version  x == e[f].version  y == u[f]  z == v[f]
<1>1. a \in Nat /\ b \in Nat /\ x \in Nat /\ y \in Nat /\ z \in Nat /\ z <= a /\ a <= b /\ b <= x /\ y <= z
  BY DEF Fresh, Grows
<1> HIDE DEF a, b, x, y, z
<1>2. y <= a /\ a <= x
  BY <1>1
<1> QED BY <1>1, <1>2 DEF a, x, y

(* A call is not disturbed by the others, who promise nothing while it     *)
(* holds configMutex.                                                      *)
LEMMA CallStays ==
  ASSUME NEW c, NEW p, NEW m, NEW n, NEW d, NEW e, NEW pr, NEW qr,
         CallOK(c, p, m, d, pr), Grows(d, e), n = p <=> m = p,
         \A w : \A f \in DOMAIN d : /\ PromisedIn(pr, d, w)[f] \in Nat /\ PromisedIn(qr, e, w)[f] \in Nat
                                    /\ PromisedIn(pr, d, w)[f] <= PromisedIn(qr, e, w)[f],
         m # p \/ pr = qr
  PROVE  CallOK(c, p, n, e, qr)
<1>1. DOMAIN e = DOMAIN d
  BY DEF Grows
<1>2. c.pc # "idle" => Started(c, e, qr)
  <2> SUFFICES ASSUME c.pc # "idle" PROVE Started(c, e, qr)
    OBVIOUS
  <2>1. Known(c.w, e)
    BY <1>1 DEF CallOK, Started, Known
  <2>2. ASSUME NEW f \in DOMAIN d PROVE c.floor[f] \in Nat /\ c.floor[f] <= PromisedIn(qr, e, c.w)[f]
    <3>1. c.floor[f] \in Nat /\ c.floor[f] <= PromisedIn(pr, d, c.w)[f]
      BY DEF CallOK, Started
    <3> QED BY <3>1
  <2> QED BY <1>1, <2>1, <2>2 DEF Started
<1>3. c.pc \in Loading => MergedSoFar(c, e, qr)
  <2> SUFFICES ASSUME c.pc \in Loading PROVE MergedSoFar(c, e, qr)
    OBVIOUS
  <2>1. m = p /\ pr = qr /\ MergedSoFar(c, d, pr)
    BY DEF CallOK
  <2>2. PromisedIn(qr, e, c.w) = PromisedIn(pr, d, c.w)
    BY <1>1, <2>1 DEF PromisedIn
  <2>3. Fresh(c.from, PromisedIn(qr, e, c.w), e)
    BY <2>1, <2>2, FreshStays DEF MergedSoFar
  <2> QED BY <2>1, <2>3 DEF MergedSoFar
<1>4. c.pc = "returned" /\ c.config.ok => IsCurrent(c.w, c.from, c.config, c.floor, e)
  <2> SUFFICES ASSUME c.pc = "returned", c.config.ok PROVE IsCurrent(c.w, c.from, c.config, c.floor, e)
    OBVIOUS
  <2>1. IsCurrent(c.w, c.from, c.config, c.floor, d) /\ \A f \in DOMAIN d : c.floor[f] \in Nat
    BY DEF CallOK, Started
  <2>2. Fresh(c.from, c.floor, e)
    BY <2>1, FreshStays DEF IsCurrent
  <2> QED BY <2>1, <2>2 DEF IsCurrent
<1> QED BY <1>2, <1>3, <1>4 DEF CallOK

(* The cache stays fresh while no promise goes beyond it.                  *)
LEMMA CacheStays ==
  ASSUME NEW entries, NEW d, NEW e, NEW pr, NEW qr, CacheOK(entries, d, pr), Grows(d, e),
         \A w : \A f \in DOMAIN d : PromisedIn(pr, d, w)[f] \in Nat /\ PromisedIn(qr, e, w)[f] \in Nat,
         \A w \in DOMAIN entries : \A f \in DOMAIN d :
           PromisedIn(qr, e, w)[f] \in {PromisedIn(pr, d, w)[f], entries[w].from[f].version}
  PROVE  CacheOK(entries, e, qr)
<1> SUFFICES ASSUME NEW w \in DOMAIN entries
             PROVE  IsCurrent(w, entries[w].from, entries[w].config, PromisedIn(qr, e, w), e)
  BY DEF CacheOK
<1> DEFINE from == entries[w].from
           v == PromisedIn(pr, d, w)
           u == PromisedIn(qr, e, w)
<1>1. IsCurrent(w, from, entries[w].config, v, d)
  BY DEF CacheOK
<1>2. \A f \in DOMAIN d : v[f] \in Nat /\ u[f] \in Nat /\ u[f] \in {v[f], from[f].version}
  OBVIOUS
<1> HIDE DEF from, v, u
<1>3. Fresh(from, u, d)
  BY <1>1, <1>2 DEF IsCurrent, Fresh
<1>4. Fresh(from, u, e)
  BY <1>2, <1>3, FreshStays
<1> QED BY <1>1, <1>4 DEF IsCurrent, from, u

(* The files before any edit, and no call                                  *)
LEMMA ConfInitially == Conf!Init => ConfInvariant
<1> SUFFICES ASSUME Conf!Init PROVE ConfInvariant
  OBVIOUS
<1>1. PICK docs \in InitialDisks : disk = [f \in DOMAIN docs |-> [doc |-> docs[f], version |-> 0]]
  BY DEF Conf!Init
<1>2. /\ confEdits = 0 /\ mutex = Nobody /\ DOMAIN cache = {} /\ DOMAIN promised = {}
      /\ DOMAIN call = Goroutines /\ \A p \in Goroutines : call[p].pc = "idle"
  BY DEF Conf!Init, Conf!NoTable, Conf!Idle
<1>3. DiskOK(disk, confEdits)
  <2>1. \A f \in DOMAIN disk : disk[f].doc = docs[f] /\ disk[f].version = 0 /\ f \in DOMAIN docs
    BY <1>1
  <2>2. \A f \in DOMAIN disk : disk[f].doc.there \in {"file", "missing", "unreadable"}
    BY <2>1, ConfAssumption
  <2>3. DOMAIN disk = DOMAIN docs
    BY <1>1
  <2> QED BY <1>2, <2>1, <2>2, <2>3 DEF DiskOK
<1>4. PromisesOK(promised, disk) /\ CacheOK(cache, disk, promised)
  BY <1>2 DEF PromisesOK, CacheOK
<1>5. \A p \in Goroutines : CallOK(call[p], p, mutex, disk, promised)
  BY <1>2, ConfAssumption DEF CallOK, Loading
<1>6. confEdits \in Nat /\ confEdits <= MaxConfEdits
  <2>1. MaxConfEdits \in Nat
    BY ConfAssumption
  <2> QED BY <1>2, <2>1
<1> QED BY <1>2, <1>3, <1>4, <1>5, <1>6 DEF ConfInvariant

(* The types of the disk                                                   *)
LEMMA DiskGrows ==
  ASSUME ConfInvariant
  PROVE  /\ Grows(disk, disk)
         /\ \A w : /\ Conf!Promised(w) = PromisedIn(promised, disk, w)
                   /\ \A f \in DOMAIN disk : /\ PromisedIn(promised, disk, w)[f] \in Nat
                                             /\ PromisedIn(promised, disk, w)[f] <= disk[f].version
<1>1. \A f \in DOMAIN disk : disk[f].version \in Nat
  BY DEF ConfInvariant, DiskOK
<1>2. Grows(disk, disk)
  BY <1>1 DEF Grows
<1>3. \A w : \A f \in DOMAIN disk : PromisedIn(promised, disk, w)[f] \in Nat /\ PromisedIn(promised, disk, w)[f] <= disk[f].version
  BY <1>1, PromisedValues DEF ConfInvariant
<1>4. \A w : Conf!Promised(w) = PromisedIn(promised, disk, w)
  BY DEF Conf!Promised, PromisedIn, Conf!Files
<1> QED BY <1>2, <1>3, <1>4

(* A step of one goroutine that promises nothing and stores nothing        *)
LEMMA CallKeeps ==
  ASSUME ConfInvariant, NEW p \in Goroutines, NEW c, call' = [call EXCEPT ![p] = c],
         UNCHANGED <<disk, confEdits, cache, promised>>, mutex' \in Goroutines \cup {Nobody},
         \A q \in Goroutines : q # p => (mutex' = q <=> mutex = q),
         CallOK(c, p, mutex', disk, promised)
  PROVE  ConfInvariant'
<1>1. DOMAIN call' = Goroutines /\ call'[p] = c /\ \A q \in Goroutines : q # p => call'[q] = call[q]
  BY DEF ConfInvariant
<1>2. ASSUME NEW q \in Goroutines, q # p PROVE CallOK(call[q], q, mutex', disk, promised)
  <2>1. CallOK(call[q], q, mutex, disk, promised)
    BY DEF ConfInvariant
  <2>2. mutex' = q <=> mutex = q
    BY <1>2
  <2> QED BY <2>1, <2>2 DEF CallOK
<1>3. \A q \in Goroutines : CallOK(call'[q], q, mutex', disk', promised')
  BY <1>1, <1>2
<1> QED BY <1>1, <1>3 DEF ConfInvariant

(* A call that returns, with a configuration that is current if there is   *)
(* one; what is in the cache for its wrapper is then this configuration.   *)
LEMMA ReturnKeeps ==
  ASSUME ConfInvariant, NEW p \in Goroutines, call[p].pc # "idle", NEW conf, NEW from,
         Conf!Return(p, conf, from), UNCHANGED <<disk, confEdits>>, mutex \in {p, Nobody}, mutex' = Nobody,
         conf.ok => IsCurrent(call[p].w, from, conf, PromisedIn(promised, disk, call[p].w), disk),
         CacheOK(cache', disk, promised),
         conf.ok /\ call[p].w \in DOMAIN cache' => cache'[call[p].w].from = from
  PROVE  ConfInvariant'
<1> DEFINE w == call[p].w
           c == [pc |-> "returned", w |-> w, floor |-> call[p].floor, config |-> conf, from |-> from]
<1>1. /\ call' = [call EXCEPT ![p] = c] /\ DOMAIN call = Goroutines
      /\ promised' = IF conf.ok THEN Conf!With(promised, w, Conf!NewestOf(Conf!Promised(w), Conf!Versions(from))) ELSE promised
  BY DEF Conf!Return, ConfInvariant
<1>2. DOMAIN call' = Goroutines /\ call'[p] = c /\ \A q \in Goroutines : q # p => call'[q] = call[q]
  BY <1>1
<1>3. /\ Grows(disk, disk)
      /\ \A v : \A f \in DOMAIN disk : /\ PromisedIn(promised, disk, v)[f] \in Nat
                                       /\ PromisedIn(promised, disk, v)[f] <= disk[f].version
  BY DiskGrows
<1>4. ~conf.ok => promised' = promised
  BY <1>1
<1>5. ASSUME conf.ok
      PROVE  /\ DOMAIN promised' = DOMAIN promised \cup {w}
             /\ \A v \in DOMAIN promised : v # w => promised'[v] = promised[v]
             /\ \A f \in DOMAIN disk : /\ promised'[w][f] = from[f].version /\ from[f].version \in Nat
                                       /\ PromisedIn(promised, disk, w)[f] <= from[f].version
                                       /\ from[f].version <= disk[f].version
  <2> DEFINE new == Conf!NewestOf(Conf!Promised(w), Conf!Versions(from))
  <2>1. promised' = Conf!With(promised, w, new)
    BY <1>1, <1>5
  <2>2. Fresh(from, PromisedIn(promised, disk, w), disk) /\ Conf!Promised(w) = PromisedIn(promised, disk, w)
    BY <1>5, DiskGrows DEF IsCurrent
  <2>3. \A f \in DOMAIN disk : /\ new[f] = IF PromisedIn(promised, disk, w)[f] >= from[f].version
                                              THEN PromisedIn(promised, disk, w)[f] ELSE from[f].version
    BY <2>2 DEF Conf!NewestOf, Conf!Versions, Conf!Files, Fresh
  <2>4. \A f \in DOMAIN disk : /\ from[f].version \in Nat /\ PromisedIn(promised, disk, w)[f] <= from[f].version
                               /\ from[f].version <= disk[f].version
    BY <2>2 DEF Fresh
  <2> HIDE DEF new, w
  <2>5. \A f \in DOMAIN disk : new[f] = from[f].version
    BY <1>3, <2>3, <2>4
  <2>6. /\ DOMAIN promised' = DOMAIN promised \cup {w} /\ promised'[w] = new
        /\ \A v \in DOMAIN promised : v # w => promised'[v] = promised[v]
    BY <2>1 DEF Conf!With
  <2> QED BY <2>4, <2>5, <2>6
<1> HIDE DEF w
<1>6. \A v : v # w => PromisedIn(promised', disk, v) = PromisedIn(promised, disk, v)
  BY <1>4, <1>5 DEF PromisedIn
<1>7. ASSUME NEW f \in DOMAIN disk
      PROVE  /\ conf.ok => PromisedIn(promised', disk, w)[f] = from[f].version
             /\ PromisedIn(promised', disk, w)[f] \in Nat
             /\ PromisedIn(promised, disk, w)[f] <= PromisedIn(promised', disk, w)[f]
             /\ PromisedIn(promised', disk, w)[f] <= disk[f].version
  <2>1. CASE conf.ok
    <3>1. PromisedIn(promised', disk, w)[f] = from[f].version
      BY <1>5, <2>1 DEF PromisedIn
    <3> QED BY <1>5, <2>1, <3>1
  <2>2. CASE ~conf.ok
    BY <1>3, <1>4, <2>2
  <2> QED BY <2>1, <2>2
<1>8. \A v : \A f \in DOMAIN disk : /\ PromisedIn(promised', disk, v)[f] \in Nat
                                    /\ PromisedIn(promised, disk, v)[f] <= PromisedIn(promised', disk, v)[f]
                                    /\ PromisedIn(promised', disk, v)[f] <= disk[f].version
  <2> SUFFICES ASSUME NEW v, NEW f \in DOMAIN disk
               PROVE  /\ PromisedIn(promised', disk, v)[f] \in Nat
                      /\ PromisedIn(promised, disk, v)[f] <= PromisedIn(promised', disk, v)[f]
                      /\ PromisedIn(promised', disk, v)[f] <= disk[f].version
    OBVIOUS
  <2>1. CASE v = w
    BY <1>7, <2>1
  <2>2. CASE v # w
    BY <1>3, <1>6, <2>2
  <2> QED BY <2>1, <2>2
<1>9. PromisesOK(promised', disk)
  BY <1>8 DEF PromisesOK, PromisedIn
<1>10. CacheOK(cache', disk, promised')
  <2>1. ASSUME NEW v \in DOMAIN cache', NEW f \in DOMAIN disk
        PROVE  PromisedIn(promised', disk, v)[f] \in {PromisedIn(promised, disk, v)[f], cache'[v].from[f].version}
    <3>1. CASE v # w
      BY <1>6, <3>1
    <3>2. CASE v = w /\ conf.ok
      BY <1>7, <3>2 DEF w
    <3>3. CASE v = w /\ ~conf.ok
      BY <1>4, <3>3
    <3> QED BY <3>1, <3>2, <3>3
  <2> QED BY <1>3, <1>8, <2>1, CacheStays
<1>11. ASSUME NEW q \in Goroutines, q # p PROVE CallOK(call[q], q, mutex', disk, promised')
  <2>1. CallOK(call[q], q, mutex, disk, promised) /\ mutex # q /\ mutex' # q
    BY <1>11, ConfAssumption DEF ConfInvariant
  <2> QED BY <1>3, <1>8, <2>1, CallStays
<1>12. CallOK(c, p, mutex', disk, promised')
  <2>1. Started(call[p], disk, promised)
    BY DEF ConfInvariant, CallOK
  <2>2. Started(c, disk, promised')
    <3>1. ASSUME NEW f \in DOMAIN disk PROVE c.floor[f] \in Nat /\ c.floor[f] <= PromisedIn(promised', disk, w)[f]
      <4>1. call[p].floor[f] \in Nat /\ call[p].floor[f] <= PromisedIn(promised, disk, w)[f]
        BY <2>1 DEF Started, w
      <4> QED BY <1>3, <1>7, <4>1
    <3>2. Known(w, disk) /\ c.w = w
      BY <2>1 DEF Started, w
    <3> QED BY <3>1, <3>2 DEF Started
  <2>3. conf.ok => IsCurrent(w, from, conf, call[p].floor, disk)
    <3> SUFFICES ASSUME conf.ok PROVE Fresh(from, call[p].floor, disk)
      BY DEF IsCurrent, w
    <3>1. Fresh(from, PromisedIn(promised, disk, w), disk)
      BY DEF IsCurrent, w
    <3>2. \A f \in DOMAIN disk : call[p].floor[f] \in Nat /\ call[p].floor[f] <= PromisedIn(promised, disk, w)[f]
      BY <2>1 DEF Started, w
    <3> QED BY <1>3, <3>1, <3>2, FreshStays
  <2>4. mutex' # p /\ c.pc = "returned" /\ c.w = w /\ c.from = from /\ c.config = conf /\ c.floor = call[p].floor
    BY ConfAssumption
  <2> QED BY <2>2, <2>3, <2>4 DEF CallOK, Loading
<1>13. \A q \in Goroutines : CallOK(call'[q], q, mutex', disk', promised')
  BY <1>2, <1>11, <1>12
<1> QED BY <1>2, <1>9, <1>10, <1>13 DEF ConfInvariant

(* An edit makes a file newer.                                             *)
LEMMA EditKeeps ==
  ASSUME ConfInvariant, NEW f \in DOMAIN disk, NEW doc \in Documents[f], Conf!Edit(f, doc)
  PROVE  ConfInvariant'
<1>1. /\ confEdits < MaxConfEdits /\ confEdits' = confEdits + 1
      /\ disk' = [disk EXCEPT ![f] = [doc |-> doc, version |-> confEdits']]
      /\ UNCHANGED <<mutex, cache, call, promised>>
  BY DEF Conf!Edit
<1>2. confEdits \in Nat /\ confEdits' \in Nat /\ confEdits' <= MaxConfEdits /\ confEdits <= confEdits'
  <2>1. confEdits \in Nat /\ MaxConfEdits \in Nat
    BY ConfAssumption DEF ConfInvariant
  <2> QED BY <1>1, <2>1
<1>3. /\ DOMAIN disk' = DOMAIN disk /\ disk'[f] = [doc |-> doc, version |-> confEdits']
      /\ \A g \in DOMAIN disk : g # f => disk'[g] = disk[g]
  BY <1>1
<1>4. \A g \in DOMAIN disk : /\ disk[g].version \in Nat /\ disk[g].version <= confEdits
                             /\ disk[g].doc.there \in {"file", "missing", "unreadable"}
  BY DEF ConfInvariant, DiskOK
<1>5. PICK docs \in InitialDisks : DOMAIN disk = DOMAIN docs
  BY DEF ConfInvariant, DiskOK
<1>6. doc.there \in {"file", "missing", "unreadable"}
  BY <1>5, ConfAssumption
<1>7. \A g \in DOMAIN disk : /\ disk'[g].version \in Nat /\ disk'[g].version <= confEdits' /\ disk[g].version <= disk'[g].version
                             /\ disk'[g].doc.there \in {"file", "missing", "unreadable"}
  BY <1>2, <1>3, <1>4, <1>6
<1>8. DiskOK(disk', confEdits')
  BY <1>3, <1>5, <1>7 DEF DiskOK
<1>9. Grows(disk, disk')
  BY <1>3, <1>4, <1>7 DEF Grows
<1>10. \A w : PromisedIn(promised, disk', w) = PromisedIn(promised, disk, w)
  BY <1>3 DEF PromisedIn
<1>11. \A w : \A g \in DOMAIN disk : PromisedIn(promised, disk, w)[g] \in Nat /\ PromisedIn(promised, disk, w)[g] <= disk[g].version
  BY DiskGrows
<1>12. PromisesOK(promised, disk')
  <2> SUFFICES ASSUME NEW w \in DOMAIN promised, NEW g \in DOMAIN disk
               PROVE  promised[w][g] \in Nat /\ promised[w][g] <= disk'[g].version
    BY <1>3 DEF PromisesOK
  <2>1. promised[w][g] \in Nat /\ promised[w][g] <= disk[g].version
    BY DEF ConfInvariant, PromisesOK
  <2> QED BY <1>4, <1>7, <2>1
<1>13. CacheOK(cache, disk', promised)
  BY <1>9, <1>10, <1>11, CacheStays DEF ConfInvariant
<1>14. \A p \in Goroutines : CallOK(call[p], p, mutex, disk', promised)
  BY <1>9, <1>10, <1>11, CallStays DEF ConfInvariant
<1> QED BY <1>1, <1>2, <1>8, <1>12, <1>13, <1>14 DEF ConfInvariant

(* The files of a context are on disk, there or not.                       *)
LEMMA WrapperIsKnown ==
  ASSUME ConfInvariant, NEW ctx \in Contexts
  PROVE  Known(Conf!newConfigWrapper(ctx), disk)
<1> DEFINE w == Conf!newConfigWrapper(ctx)
<1>1. PICK docs \in InitialDisks : DOMAIN disk = DOMAIN docs
  BY DEF ConfInvariant, DiskOK
<1>2. /\ {DropIns[i] : i \in DOMAIN DropIns} \union {Conf!Main("user")} \subseteq DOMAIN docs
      /\ Conf!Main(IF ctx.confPath THEN "explicit" ELSE IF ctx.root THEN "root" ELSE "system") \in DOMAIN docs
  BY ConfAssumption
<1>3. w.path = "user" \/ w.path = (IF ctx.confPath THEN "explicit" ELSE IF ctx.root THEN "root" ELSE "system")
  BY DEF Conf!newConfigWrapper
<1>4. Conf!Main(w.path) \in DOMAIN disk
  BY <1>1, <1>2, <1>3
<1> HIDE DEF w
<1>5. \A i \in Conf!DropInsOf(w) : DropIns[i] \in DOMAIN disk
  BY <1>1, <1>2 DEF Conf!DropInsOf
<1> QED BY <1>4, <1>5 DEF Known, Conf!Places, Conf!FileAt, w

(* A call begins with what is promised then.                               *)
LEMMA BeginKeeps ==
  ASSUME ConfInvariant, NEW p \in Goroutines, NEW ctx \in Contexts, NEW pc \in {"lookup", "load"}, Conf!Begin(p, ctx, pc)
  PROVE  ConfInvariant'
<1>1. PICK w : w = Conf!newConfigWrapper(ctx)
  OBVIOUS
<1>2. PICK floor : floor = Conf!Promised(w)
  OBVIOUS
<1> DEFINE c == [pc |-> pc, ctx |-> ctx, w |-> w, floor |-> floor]
<1>3. /\ call[p].pc = "idle" /\ call' = [call EXCEPT ![p] = c]
      /\ UNCHANGED <<disk, confEdits, mutex, cache, promised>>
  BY <1>1, <1>2 DEF Conf!Begin, Conf!Idle
<1>4. mutex # p /\ mutex \in Goroutines \cup {Nobody}
  BY <1>3 DEF ConfInvariant, CallOK, Loading
<1>5. Started(c, disk, promised)
  <2>1. Known(w, disk)
    BY <1>1, WrapperIsKnown
  <2>2. \A f \in DOMAIN disk : floor[f] \in Nat /\ floor[f] <= PromisedIn(promised, disk, w)[f]
    BY <1>2, DiskGrows
  <2> QED BY <2>1, <2>2 DEF Started
<1>6. CallOK(c, p, mutex', disk, promised)
  BY <1>3, <1>4, <1>5 DEF CallOK, Loading
<1> HIDE DEF c
<1> QED BY <1>3, <1>4, <1>6, CallKeeps

(* A finished call                                                         *)
LEMMA FinishKeeps ==
  ASSUME ConfInvariant, NEW p \in Goroutines, Conf!Finish(p)
  PROVE  ConfInvariant'
<1>1. /\ call[p].pc = "returned" /\ call' = [call EXCEPT ![p] = Conf!Idle] /\ Conf!Idle.pc = "idle"
      /\ UNCHANGED <<disk, confEdits, mutex, cache, promised>>
  BY DEF Conf!Finish, Conf!Idle
<1>2. mutex # p /\ mutex \in Goroutines \cup {Nobody}
  BY <1>1 DEF ConfInvariant, CallOK, Loading
<1>3. CallOK(Conf!Idle, p, mutex', disk, promised)
  BY <1>1, <1>2 DEF CallOK, Loading
<1> QED BY <1>1, <1>2, <1>3, CallKeeps

(* The lookup in the cache                                                 *)
LEMMA GetConfigKeeps ==
  ASSUME ConfInvariant, NEW p \in Goroutines, Conf!getConfig(p)
  PROVE  ConfInvariant'
<1>1. /\ call[p].pc = "lookup" /\ mutex = Nobody /\ UNCHANGED <<disk, confEdits, mutex, cache>>
  BY DEF Conf!getConfig
<1>2. CASE call[p].w \in DOMAIN cache
  <2>1. PICK conf, from : conf = cache[call[p].w].config /\ from = cache[call[p].w].from
    OBVIOUS
  <2>2. Conf!Return(p, conf, from)
    BY <1>2, <2>1 DEF Conf!getConfig
  <2>3. IsCurrent(call[p].w, from, conf, PromisedIn(promised, disk, call[p].w), disk)
    BY <1>2, <2>1 DEF ConfInvariant, CacheOK
  <2>4. CacheOK(cache', disk, promised) /\ cache'[call[p].w].from = from
    BY <1>1, <2>1 DEF ConfInvariant
  <2> QED BY <1>1, <2>2, <2>3, <2>4, ReturnKeeps
<1>3. CASE call[p].w \notin DOMAIN cache
  <2>1. PICK c : c = [pc |-> "load", ctx |-> call[p].ctx, w |-> call[p].w, floor |-> call[p].floor]
    OBVIOUS
  <2>2. call' = [call EXCEPT ![p] = c] /\ UNCHANGED promised
    BY <1>3, <2>1 DEF Conf!getConfig
  <2>3. Started(call[p], disk, promised)
    BY <1>1 DEF ConfInvariant, CallOK
  <2>4. c.pc = "load" /\ Started(c, disk, promised)
    BY <2>1, <2>3 DEF Started
  <2>5. mutex # p
    BY <1>1, ConfAssumption
  <2>6. CallOK(c, p, mutex', disk, promised)
    BY <1>1, <2>4, <2>5 DEF CallOK, Loading
  <2> QED BY <1>1, <2>2, <2>6, CallKeeps
<1> QED BY <1>2, <1>3

(* InvalidateCache promises what is on disk now.                           *)
LEMMA InvalidateKeeps ==
  ASSUME ConfInvariant, Conf!InvalidateCache
  PROVE  ConfInvariant'
<1>1. /\ mutex = Nobody /\ DOMAIN cache' = {} /\ UNCHANGED <<disk, confEdits, mutex, call>>
      /\ promised' = Conf!Updated(promised, [w \in DOMAIN cache |-> Conf!NewestOf(Conf!Promised(w), Conf!Versions(disk))])
  BY DEF Conf!InvalidateCache, Conf!NoTable
<1>2. /\ Grows(disk, disk)
      /\ \A w : /\ Conf!Promised(w) = PromisedIn(promised, disk, w)
                /\ \A f \in DOMAIN disk : /\ PromisedIn(promised, disk, w)[f] \in Nat
                                          /\ PromisedIn(promised, disk, w)[f] <= disk[f].version
  BY DiskGrows
<1>3. /\ DOMAIN promised' = DOMAIN cache \cup DOMAIN promised
      /\ \A w \in DOMAIN promised' :
           promised'[w] = IF w \in DOMAIN cache THEN Conf!NewestOf(Conf!Promised(w), Conf!Versions(disk)) ELSE promised[w]
  BY <1>1 DEF Conf!Updated
<1>4. \A w \in DOMAIN cache : \A f \in DOMAIN disk :
        promised'[w][f] = IF PromisedIn(promised, disk, w)[f] >= disk[f].version
                            THEN PromisedIn(promised, disk, w)[f] ELSE disk[f].version
  BY <1>2, <1>3 DEF Conf!NewestOf, Conf!Versions, Conf!Files
<1>5. \A f \in DOMAIN disk : disk[f].version \in Nat
  BY <1>2 DEF Grows
<1>6. \A w \in DOMAIN cache : \A f \in DOMAIN disk : promised'[w][f] = disk[f].version
  BY <1>2, <1>4, <1>5
<1>7. \A w : w \notin DOMAIN cache => PromisedIn(promised', disk, w) = PromisedIn(promised, disk, w)
  BY <1>3 DEF PromisedIn
<1>8. \A w \in DOMAIN cache : \A f \in DOMAIN disk : PromisedIn(promised', disk, w)[f] = disk[f].version
  BY <1>3, <1>6 DEF PromisedIn
<1>9. \A w : \A f \in DOMAIN disk : /\ PromisedIn(promised', disk, w)[f] \in Nat
                                    /\ PromisedIn(promised, disk, w)[f] <= PromisedIn(promised', disk, w)[f]
                                    /\ PromisedIn(promised', disk, w)[f] <= disk[f].version
  BY <1>2, <1>5, <1>7, <1>8
<1>10. PromisesOK(promised', disk)
  BY <1>9 DEF PromisesOK, PromisedIn
<1>11. CacheOK(cache', disk, promised')
  BY <1>1 DEF CacheOK
<1>12. ASSUME NEW q \in Goroutines PROVE CallOK(call[q], q, mutex, disk, promised')
  <2>1. CallOK(call[q], q, mutex, disk, promised) /\ mutex # q
    BY <1>1, ConfAssumption DEF ConfInvariant
  <2> QED BY <1>2, <1>9, <2>1, CallStays
<1> QED BY <1>1, <1>10, <1>11, <1>12 DEF ConfInvariant

(* The places of a wrapper's files: drop-ins have positive numbers, and    *)
(* no two places have one file.                                            *)
LEMMA PlacesAreApart ==
  ASSUME NEW w
  PROVE  /\ Conf!DropInsOf(w) \subseteq Nat \ {0} /\ Conf!DropInsOf(w) \subseteq DOMAIN DropIns
         /\ 0 \in Conf!Places(w) /\ Conf!Places(w) = {0} \cup Conf!DropInsOf(w)
         /\ Conf!FileAt(w, 0) = Conf!Main(w.path)
         /\ \A i \in Conf!DropInsOf(w) : Conf!FileAt(w, i) = DropIns[i]
         /\ \A i, j \in Conf!Places(w) : Conf!FileAt(w, i) = Conf!FileAt(w, j) => i = j
<1>1. Conf!DropInsOf(w) \subseteq Nat \ {0} /\ Conf!DropInsOf(w) \subseteq DOMAIN DropIns
  BY ConfAssumption DEF Conf!DropInsOf
<1>2. 0 \in Conf!Places(w) /\ Conf!Places(w) = {0} \cup Conf!DropInsOf(w)
  BY DEF Conf!Places
<1>3. Conf!FileAt(w, 0) = Conf!Main(w.path) /\ \A i \in Conf!DropInsOf(w) : Conf!FileAt(w, i) = DropIns[i]
  BY <1>1 DEF Conf!FileAt
<1>4. Conf!Main(w.path).dir = ""
  BY DEF Conf!Main
<1>5. /\ \A i \in Conf!DropInsOf(w) : DropIns[i].dir # ""
      /\ \A i, j \in Conf!DropInsOf(w) : DropIns[i] = DropIns[j] => i = j
  BY <1>1, ConfAssumption
<1>6. \A i, j \in Conf!Places(w) : Conf!FileAt(w, i) = Conf!FileAt(w, j) => i = j
  <2> SUFFICES ASSUME NEW i \in Conf!Places(w), NEW j \in Conf!Places(w), Conf!FileAt(w, i) = Conf!FileAt(w, j) PROVE i = j
    OBVIOUS
  <2>1. CASE i \in Conf!DropInsOf(w) /\ j \in Conf!DropInsOf(w)
    BY <1>3, <1>5, <2>1
  <2>2. CASE i = 0 /\ j \in Conf!DropInsOf(w)
    <3>1. DropIns[j].dir = "" /\ DropIns[j].dir # ""
      BY <1>3, <1>4, <1>5, <2>2
    <3> QED BY <3>1
  <2>3. CASE i \in Conf!DropInsOf(w) /\ j = 0
    <3>1. DropIns[i].dir = "" /\ DropIns[i].dir # ""
      BY <1>3, <1>4, <1>5, <2>3
    <3> QED BY <3>1
  <2> QED BY <1>2, <2>1, <2>2, <2>3
<1> QED BY <1>1, <1>2, <1>3, <1>6

(* Loading the main file                                                   *)
LEMMA TryUpdatingKeeps ==
  ASSUME ConfInvariant, NEW p \in Goroutines, Conf!tryUpdatingCache(p)
  PROVE  ConfInvariant'
<1>1. call[p].pc = "load" /\ mutex = Nobody /\ UNCHANGED <<disk, confEdits, cache>>
  BY DEF Conf!tryUpdatingCache
<1>2. PICK w, main : w = call[p].w /\ main = disk[Conf!Main(call[p].w.path)]
  OBVIOUS
<1>3. PICK loaded : loaded = IF main.doc.there = "file" THEN Conf!loadConfigFile(Conf!Main(w.path), main.doc, FALSE)
                             ELSE IF main.doc.there = "missing" /\ ~call[p].ctx.confPath THEN Conf!NoConfig ELSE Conf!Failed
  OBVIOUS
<1>4. IF ~loaded.ok THEN Conf!Return(p, Conf!Failed, disk) /\ UNCHANGED mutex
      ELSE /\ mutex' = p /\ UNCHANGED promised
           /\ call' = [call EXCEPT ![p] = [pc |-> "list", ctx |-> call[p].ctx, w |-> w, floor |-> call[p].floor,
                                           config |-> loaded, from |-> disk]]
  BY <1>2, <1>3 DEF Conf!tryUpdatingCache, Conf!LockedBy
<1>5. CASE ~loaded.ok
  <2>1. PICK from : from = disk
    OBVIOUS
  <2>2. Conf!Return(p, Conf!Failed, from) /\ mutex' = Nobody /\ ~Conf!Failed.ok
    BY <1>1, <1>4, <1>5, <2>1 DEF Conf!Failed
  <2>3. CacheOK(cache', disk, promised)
    BY <1>1 DEF ConfInvariant
  <2> QED BY <1>1, <2>2, <2>3, ReturnKeeps
<1>6. CASE loaded.ok
  <2>1. PICK c : c = [pc |-> "list", ctx |-> call[p].ctx, w |-> w, floor |-> call[p].floor, config |-> loaded, from |-> disk]
    OBVIOUS
  <2>2. c.pc = "list" /\ c.w = w /\ c.floor = call[p].floor /\ c.config = loaded /\ c.from = disk
    BY <2>1
  <2>3. Rest(c) = Conf!DropInsOf(w)
    BY <2>2 DEF Rest
  <2>4. Started(c, disk, promised)
    <3>1. Started(call[p], disk, promised)
      BY <1>1 DEF ConfInvariant, CallOK
    <3> QED BY <1>2, <2>2, <3>1 DEF Started
  <2>5. Fresh(disk, PromisedIn(promised, disk, w), disk)
    <3>1. /\ Grows(disk, disk)
          /\ \A f \in DOMAIN disk : PromisedIn(promised, disk, w)[f] \in Nat /\ PromisedIn(promised, disk, w)[f] <= disk[f].version
      BY DiskGrows
    <3> QED BY <3>1 DEF Grows, Fresh
  <2>6. Conf!Found(w, disk) \ Conf!DropInsOf(w) = IF main.doc.there = "file" THEN {0} ELSE {}
    BY <1>2, PlacesAreApart DEF Conf!Found
  <2>7. \A i \in Conf!Found(w, disk) \ Conf!DropInsOf(w), j \in Conf!DropInsOf(w) : i < j
    <3>1. Conf!DropInsOf(w) \subseteq Nat \ {0} /\ \A i \in Conf!Found(w, disk) \ Conf!DropInsOf(w) : i = 0
      BY <2>6, PlacesAreApart
    <3> QED BY <3>1
  <2>8. Merges(ReadOf(w, disk, Conf!DropInsOf(w)), loaded)
    <3> DEFINE confs == ReadOf(w, disk, Conf!DropInsOf(w))
    <3>1. CASE main.doc.there = "file"
      <4>0. Conf!Found(w, disk) \ Conf!DropInsOf(w) = {0}
        BY <2>6, <3>1
      <4>1. DOMAIN confs = {0} /\ confs[0] = loaded
        <5>1. DOMAIN confs = {0}
          BY <4>0 DEF ReadOf
        <5>2. confs[0] = Conf!loadConfigFile(Conf!FileAt(w, 0), disk[Conf!FileAt(w, 0)].doc, FALSE)
          BY <4>0 DEF ReadOf
        <5>3. Conf!FileAt(w, 0) = Conf!Main(w.path)
          BY PlacesAreApart
        <5> QED BY <1>2, <1>3, <3>1, <5>1, <5>2, <5>3
      <4> HIDE DEF confs
      <4>2. Merges(confs, confs[0])
        BY <1>6, <4>1, MergeStarts
      <4> QED BY <4>1, <4>2 DEF confs
    <3>2. CASE main.doc.there # "file"
      <4>0. Conf!Found(w, disk) \ Conf!DropInsOf(w) = {}
        BY <2>6, <3>2
      <4>1. DOMAIN confs = {}
        BY <4>0 DEF ReadOf
      <4>2. loaded = Conf!NoConfig
        BY <1>3, <1>6, <3>2 DEF Conf!Failed
      <4> HIDE DEF confs
      <4> QED BY <4>1, <4>2, MergeStarts DEF confs
    <3> QED BY <3>1, <3>2
  <2>9. MergedSoFar(c, disk, promised)
    BY <2>2, <2>3, <2>5, <2>7, <2>8 DEF MergedSoFar
  <2>10. CallOK(c, p, p, disk, promised)
    BY <2>2, <2>4, <2>9 DEF CallOK, Loading
  <2>11. mutex' = p /\ call' = [call EXCEPT ![p] = c] /\ UNCHANGED promised
    BY <1>4, <1>6, <2>1
  <2>12. \A q \in Goroutines : q # p => mutex' # q /\ mutex # q
    BY <1>1, <2>11, ConfAssumption
  <2> QED BY <1>1, <2>10, <2>11, <2>12, CallKeeps
<1> QED BY <1>5, <1>6

(* Listing the drop-ins: what was read before is the main file.            *)
LEMMA ListKeeps ==
  ASSUME ConfInvariant, NEW p \in Goroutines, Conf!ListDropIns(p)
  PROVE  ConfInvariant'
<1>1. call[p].pc = "list" /\ UNCHANGED <<disk, confEdits, mutex, cache, promised>>
  BY DEF Conf!ListDropIns
<1>2. PICK w, from, todo, read :
        /\ w = call[p].w /\ from = call[p].from /\ todo = Conf!dropInConfigs(call[p].w)
        /\ read = [f \in DOMAIN disk |-> IF f = Conf!Main(call[p].w.path) THEN call[p].from[f] ELSE disk[f]]
  OBVIOUS
<1>3. PICK c : c = [pc |-> "dropIn", ctx |-> call[p].ctx, w |-> w, floor |-> call[p].floor, config |-> call[p].config,
                    todo |-> todo, from |-> read]
  OBVIOUS
<1>4. call' = [call EXCEPT ![p] = c]
  BY <1>2, <1>3 DEF Conf!ListDropIns, Conf!Files
<1>5. c.pc = "dropIn" /\ c.w = w /\ c.floor = call[p].floor /\ c.config = call[p].config /\ c.from = read /\ Rest(c) = todo
  BY <1>3 DEF Rest
<1>6. Started(call[p], disk, promised) /\ MergedSoFar(call[p], disk, promised) /\ Rest(call[p]) = Conf!DropInsOf(w) /\ mutex = p
  BY <1>1, <1>2 DEF ConfInvariant, CallOK, Rest, Loading
<1>7. Started(c, disk, promised)
  BY <1>2, <1>5, <1>6 DEF Started
<1>8. Fresh(read, PromisedIn(promised, disk, w), disk)
  <2>1. Fresh(from, PromisedIn(promised, disk, w), disk)
    BY <1>2, <1>6 DEF MergedSoFar
  <2>2. /\ Grows(disk, disk)
        /\ \A f \in DOMAIN disk : PromisedIn(promised, disk, w)[f] \in Nat /\ PromisedIn(promised, disk, w)[f] <= disk[f].version
    BY DiskGrows
  <2>3. DOMAIN read = DOMAIN disk /\ \A f \in DOMAIN disk : read[f] = from[f] \/ read[f] = disk[f]
    BY <1>2
  <2> QED BY <2>1, <2>2, <2>3 DEF Grows, Fresh
<1>9. todo \subseteq Conf!DropInsOf(w) /\ \A i \in Conf!DropInsOf(w) : disk[DropIns[i]].doc.there = "file" => i \in todo
  BY <1>2 DEF Conf!dropInConfigs
<1>10. Known(w, disk)
  BY <1>2, <1>6 DEF Started
<1>11. \A i \in Conf!DropInsOf(w) : read[Conf!FileAt(w, i)] = disk[DropIns[i]]
  <2> SUFFICES ASSUME NEW i \in Conf!DropInsOf(w) PROVE read[Conf!FileAt(w, i)] = disk[DropIns[i]]
    OBVIOUS
  <2>1. /\ i \in Conf!Places(w) /\ i # 0 /\ 0 \in Conf!Places(w)
        /\ Conf!FileAt(w, i) = DropIns[i] /\ Conf!FileAt(w, 0) = Conf!Main(w.path)
    BY PlacesAreApart
  <2>2. DropIns[i] # Conf!Main(w.path)
    BY <2>1, PlacesAreApart
  <2>3. DropIns[i] \in DOMAIN disk
    BY <1>10, <2>1 DEF Known
  <2> QED BY <1>2, <2>1, <2>2, <2>3
<1>12. read[Conf!FileAt(w, 0)] = from[Conf!FileAt(w, 0)]
  <2>1. Conf!Main(w.path) \in DOMAIN disk /\ Conf!FileAt(w, 0) = Conf!Main(w.path)
    BY <1>10, PlacesAreApart DEF Known
  <2> QED BY <1>2, <2>1
<1>13. Conf!Found(w, read) \ todo = Conf!Found(w, from) \ Conf!DropInsOf(w)
  <2>1. \A i \in Conf!Found(w, read) \ todo : i = 0
    BY <1>9, <1>11, PlacesAreApart DEF Conf!Found
  <2>2. \A i \in Conf!Found(w, from) \ Conf!DropInsOf(w) : i = 0
    BY PlacesAreApart DEF Conf!Found
  <2>3. 0 \in Conf!Found(w, read) <=> 0 \in Conf!Found(w, from)
    BY <1>12, PlacesAreApart DEF Conf!Found
  <2>4. 0 \notin todo /\ 0 \notin Conf!DropInsOf(w)
    BY <1>9, PlacesAreApart
  <2> QED BY <2>1, <2>2, <2>3, <2>4
<1>14. \A i \in Conf!Found(w, from) \ Conf!DropInsOf(w) : i = 0
  BY PlacesAreApart DEF Conf!Found
<1>15. ReadOf(w, read, todo) = ReadOf(w, from, Conf!DropInsOf(w))
  BY <1>12, <1>13, <1>14 DEF ReadOf
<1>16. MergedSoFar(c, disk, promised)
  <2>1. \A i \in Conf!Found(w, read) \ todo, j \in todo : i < j
    BY <1>2, <1>6, <1>9, <1>13 DEF MergedSoFar
  <2>2. Merges(ReadOf(w, read, todo), c.config)
    BY <1>2, <1>5, <1>6, <1>15 DEF MergedSoFar
  <2> QED BY <1>5, <1>8, <1>9, <2>1, <2>2 DEF MergedSoFar
<1>17. CallOK(c, p, mutex', disk, promised)
  BY <1>1, <1>5, <1>6, <1>7, <1>16 DEF CallOK, Loading
<1>18. mutex' \in Goroutines \cup {Nobody}
  BY <1>1 DEF ConfInvariant
<1> QED BY <1>1, <1>4, <1>17, <1>18, CallKeeps

(* A file read with forceV2 says what it says without.                     *)
LEMMA ForcedFileIsSame ==
  ASSUME NEW f, NEW doc, Conf!loadConfigFile(f, doc, TRUE).ok
  PROVE  Conf!loadConfigFile(f, doc, FALSE) = Conf!loadConfigFile(f, doc, TRUE)
<1>1. ~Conf!Failed.ok
  BY DEF Conf!Failed
<1> QED BY <1>1 DEF Conf!loadConfigFile

(* A failure while configMutex is held                                     *)
LEMMA FailureKeeps ==
  ASSUME ConfInvariant, NEW p \in Goroutines, call[p].pc \in Loading, Conf!Return(p, Conf!Failed, call[p].from),
         mutex' = Nobody, UNCHANGED <<disk, confEdits, cache>>
  PROVE  ConfInvariant'
<1>1. PICK from : from = call[p].from
  OBVIOUS
<1>2. mutex = p /\ call[p].pc # "idle"
  BY DEF ConfInvariant, CallOK, Loading
<1>3. Conf!Return(p, Conf!Failed, from) /\ ~Conf!Failed.ok
  BY <1>1 DEF Conf!Failed
<1>4. CacheOK(cache', disk, promised)
  BY DEF ConfInvariant
<1> QED BY <1>2, <1>3, <1>4, ReturnKeeps

(* Loading a drop-in                                                       *)
LEMMA LoadKeeps ==
  ASSUME ConfInvariant, NEW p \in Goroutines, NEW i \in DOMAIN DropIns, Conf!LoadDropIn(p, i)
  PROVE  ConfInvariant'
<1>1. /\ call[p].pc = "dropIn" /\ i \in call[p].todo /\ (\A j \in call[p].todo : i <= j) /\ UNCHANGED <<disk, confEdits, cache>>
  BY DEF Conf!LoadDropIn
<1>2. PICK w, from, todo : w = call[p].w /\ from = call[p].from /\ todo = call[p].todo
  OBVIOUS
<1>3. PICK f, loaded, read :
        /\ f = DropIns[i]
        /\ loaded = IF disk[DropIns[i]].doc.there = "file" THEN Conf!loadConfigFile(DropIns[i], disk[DropIns[i]].doc, TRUE) ELSE Conf!Failed
        /\ read = [call[p].from EXCEPT ![DropIns[i]] = disk[DropIns[i]]]
  OBVIOUS
<1>4. IF disk[f].doc.there # "missing" /\ ~loaded.ok THEN Conf!Return(p, Conf!Failed, call[p].from) /\ mutex' = Nobody
      ELSE /\ call' = [call EXCEPT ![p] = [pc |-> "dropIn", ctx |-> call[p].ctx, w |-> w, floor |-> call[p].floor,
                         config |-> IF loaded.ok THEN Conf!updateWithConfigurationFrom(call[p].config, loaded) ELSE call[p].config,
                         todo |-> todo \ {i}, from |-> read]]
           /\ UNCHANGED <<mutex, promised>>
  BY <1>2, <1>3 DEF Conf!LoadDropIn
<1>5. CASE disk[f].doc.there # "missing" /\ ~loaded.ok
  BY <1>1, <1>4, <1>5, FailureKeeps DEF Loading
<1>6. CASE ~(disk[f].doc.there # "missing" /\ ~loaded.ok)
  <2>1. PICK conf : conf = IF loaded.ok THEN Conf!updateWithConfigurationFrom(call[p].config, loaded) ELSE call[p].config
    OBVIOUS
  <2>2. PICK c : c = [pc |-> "dropIn", ctx |-> call[p].ctx, w |-> w, floor |-> call[p].floor, config |-> conf,
                      todo |-> todo \ {i}, from |-> read]
    OBVIOUS
  <2>3. c.pc = "dropIn" /\ c.w = w /\ c.floor = call[p].floor /\ c.config = conf /\ c.from = read /\ Rest(c) = todo \ {i}
    BY <2>2 DEF Rest
  <2>4. call' = [call EXCEPT ![p] = c] /\ UNCHANGED <<mutex, promised>>
    BY <1>4, <1>6, <2>1, <2>2
  <2>5. Started(call[p], disk, promised) /\ MergedSoFar(call[p], disk, promised) /\ Rest(call[p]) = todo /\ mutex = p
    BY <1>1, <1>2 DEF ConfInvariant, CallOK, Rest, Loading
  <2>6. Started(c, disk, promised)
    BY <1>2, <2>3, <2>5 DEF Started
  <2>7. /\ Fresh(from, PromisedIn(promised, disk, w), disk) /\ todo \subseteq Conf!DropInsOf(w)
        /\ \A k \in Conf!Found(w, from) \ todo, j \in todo : k < j
        /\ Merges(ReadOf(w, from, todo), call[p].config)
    BY <1>2, <2>5 DEF MergedSoFar
  <2>8. i \in todo /\ i \in Conf!DropInsOf(w) /\ i \in Conf!Places(w) /\ i \in Nat /\ Conf!FileAt(w, i) = f
    BY <1>1, <1>2, <1>3, <2>7, PlacesAreApart
  <2>9. f \in DOMAIN disk /\ DOMAIN from = DOMAIN disk
    BY <1>2, <2>5, <2>7, <2>8 DEF Started, Known, Fresh
  <2>10. DOMAIN read = DOMAIN disk /\ read[f] = disk[f] /\ \A g \in DOMAIN disk : g # f => read[g] = from[g]
    BY <1>2, <1>3, <2>9
  <2>11. Fresh(read, PromisedIn(promised, disk, w), disk)
    <3>1. /\ Grows(disk, disk)
          /\ \A g \in DOMAIN disk : PromisedIn(promised, disk, w)[g] \in Nat /\ PromisedIn(promised, disk, w)[g] <= disk[g].version
      BY DiskGrows
    <3> QED BY <2>7, <2>10, <3>1 DEF Grows, Fresh
  <2>12. \A k \in Conf!Places(w) : k # i => read[Conf!FileAt(w, k)] = from[Conf!FileAt(w, k)]
    <3> SUFFICES ASSUME NEW k \in Conf!Places(w), k # i PROVE read[Conf!FileAt(w, k)] = from[Conf!FileAt(w, k)]
      OBVIOUS
    <3>1. Conf!FileAt(w, k) # f
      BY <2>8, PlacesAreApart
    <3>2. Conf!FileAt(w, k) \in DOMAIN disk
      BY <1>2, <2>5 DEF Started, Known
    <3> QED BY <2>10, <3>1, <3>2
  <2>13. \A k : k # i => (k \in Conf!Found(w, read) <=> k \in Conf!Found(w, from))
    BY <2>12 DEF Conf!Found
  <2>14. i \in Conf!Found(w, read) <=> disk[f].doc.there = "file"
    BY <2>8, <2>10 DEF Conf!Found
  <2>15. \A j \in todo \ {i} : i < j
    <3>1. todo \subseteq Nat /\ i \in Nat /\ \A j \in todo : i <= j
      BY <1>1, <1>2, <2>7, PlacesAreApart
    <3> QED BY <3>1
  <2>16. \A k \in Conf!Found(w, read) \ (todo \ {i}), j \in todo \ {i} : k < j
    BY <2>7, <2>13, <2>15
  <2> DEFINE old == ReadOf(w, from, todo)
             new == ReadOf(w, read, todo \ {i})
  <2>17. /\ DOMAIN old = Conf!Found(w, from) \ todo /\ DOMAIN new = Conf!Found(w, read) \ (todo \ {i})
         /\ \A k \in DOMAIN old : old[k] = Conf!loadConfigFile(Conf!FileAt(w, k), from[Conf!FileAt(w, k)].doc, FALSE)
         /\ \A k \in DOMAIN new : new[k] = Conf!loadConfigFile(Conf!FileAt(w, k), read[Conf!FileAt(w, k)].doc, FALSE)
    BY DEF ReadOf
  <2>18. new = [k \in DOMAIN new |-> new[k]] /\ old = [k \in DOMAIN old |-> old[k]]
    BY DEF ReadOf
  <2>19. DOMAIN old \subseteq Conf!Places(w) /\ i \notin DOMAIN old
    BY <2>8, <2>17 DEF Conf!Found
  <2> HIDE DEF old, new
  <2>20. DOMAIN new = DOMAIN old \cup (IF disk[f].doc.there = "file" THEN {i} ELSE {})
    BY <2>8, <2>13, <2>14, <2>17
  <2>21. \A k \in DOMAIN old : k \in DOMAIN new /\ new[k] = old[k]
    <3> SUFFICES ASSUME NEW k \in DOMAIN old PROVE k \in DOMAIN new /\ new[k] = old[k]
      OBVIOUS
    <3>1. k \in DOMAIN new /\ k # i /\ k \in Conf!Places(w)
      BY <2>19, <2>20
    <3>2. read[Conf!FileAt(w, k)] = from[Conf!FileAt(w, k)]
      BY <2>12, <3>1
    <3> QED BY <2>17, <3>1, <3>2
  <2>22. Merges(new, conf)
    <3>1. CASE disk[f].doc.there = "file"
      <4>1. loaded.ok /\ loaded = Conf!loadConfigFile(f, disk[f].doc, TRUE)
        BY <1>3, <1>6, <3>1
      <4>2. new[i] = loaded /\ DOMAIN new = DOMAIN old \cup {i}
        <5>1. DOMAIN new = DOMAIN old \cup {i}
          BY <2>20, <3>1
        <5>2. new[i] = Conf!loadConfigFile(f, disk[f].doc, FALSE)
          BY <2>8, <2>10, <2>17, <5>1
        <5>3. Conf!loadConfigFile(f, disk[f].doc, FALSE) = Conf!loadConfigFile(f, disk[f].doc, TRUE)
          BY <4>1, ForcedFileIsSame
        <5> QED BY <4>1, <5>1, <5>2, <5>3
      <4>3. DOMAIN old \subseteq Nat /\ \A j \in DOMAIN old : j < i
        <5>1. DOMAIN old \subseteq Nat
          BY <2>19, PlacesAreApart
        <5>2. \A j \in DOMAIN old : j < i
          BY <2>7, <2>8, <2>17
        <5> QED BY <5>1, <5>2
      <4>4. Merges(old, call[p].config)
        BY <2>7 DEF old
      <4>5. PICK sofar : sofar = call[p].config
        OBVIOUS
      <4>6. Merges(new, Conf!updateWithConfigurationFrom(sofar, new[i]))
        BY <2>8, <2>21, <4>1, <4>2, <4>3, <4>4, <4>5, MergeExtends
      <4> QED BY <2>1, <4>1, <4>2, <4>5, <4>6
    <3>2. CASE disk[f].doc.there # "file"
      <4>1. ~loaded.ok
        BY <1>3, <3>2 DEF Conf!Failed
      <4>2. DOMAIN new = DOMAIN old
        BY <2>20, <3>2
      <4>3. new = old
        BY <2>18, <2>21, <4>2
      <4> QED BY <2>1, <2>7, <4>1, <4>3 DEF old
    <3> QED BY <3>1, <3>2
  <2>23. MergedSoFar(c, disk, promised)
    BY <2>3, <2>7, <2>11, <2>16, <2>22 DEF MergedSoFar, new
  <2>24. CallOK(c, p, mutex', disk, promised)
    BY <2>3, <2>4, <2>5, <2>6, <2>23 DEF CallOK, Loading
  <2>25. mutex' \in Goroutines \cup {Nobody}
    BY <2>4 DEF ConfInvariant
  <2> QED BY <1>1, <2>4, <2>24, <2>25, CallKeeps
<1> QED BY <1>5, <1>6

(* Storing and returning the result                                        *)
LEMMA StoreKeeps ==
  ASSUME ConfInvariant, NEW p \in Goroutines, Conf!Store(p)
  PROVE  ConfInvariant'
<1>1. call[p].pc = "dropIn" /\ call[p].todo = {} /\ mutex' = Nobody /\ UNCHANGED <<disk, confEdits>>
  BY DEF Conf!Store
<1>2. PICK w, from, conf : w = call[p].w /\ from = call[p].from /\ conf = Conf!WithDefaults(call[p].config)
  OBVIOUS
<1>3. cache' = Conf!With(cache, w, [config |-> conf, from |-> from]) /\ Conf!Return(p, conf, from)
  BY <1>2 DEF Conf!Store
<1>4. MergedSoFar(call[p], disk, promised) /\ mutex = p /\ Rest(call[p]) = {}
  BY <1>1 DEF ConfInvariant, CallOK, Loading, Rest
<1>5. ReadOf(w, from, {}) = Conf!ConfigsOf(w, from)
  <2>1. Conf!Found(w, from) \ {} = Conf!Found(w, from)
    OBVIOUS
  <2> QED BY <2>1 DEF ReadOf, Conf!ConfigsOf
<1>6. IsCurrent(w, from, conf, PromisedIn(promised, disk, w), disk)
  <2>1. Merges(Conf!ConfigsOf(w, from), call[p].config) /\ Fresh(from, PromisedIn(promised, disk, w), disk)
    BY <1>2, <1>4, <1>5 DEF MergedSoFar
  <2>2. PICK c, confs : c = call[p].config /\ confs = Conf!ConfigsOf(w, from)
    OBVIOUS
  <2>3. Conf!MergedInOrder(confs, Conf!WithDefaults(c))
    BY <2>1, <2>2, MergeEnds
  <2> QED BY <1>2, <2>1, <2>2, <2>3 DEF IsCurrent
<1>7. conf.ok
  BY <1>2 DEF Conf!WithDefaults
<1>8. /\ DOMAIN cache' = DOMAIN cache \cup {w} /\ cache'[w] = [config |-> conf, from |-> from]
      /\ \A v \in DOMAIN cache : v # w => cache'[v] = cache[v]
  BY <1>3 DEF Conf!With
<1>9. CacheOK(cache', disk, promised)
  BY <1>6, <1>7, <1>8 DEF ConfInvariant, CacheOK
<1>10. cache'[call[p].w].from = from
  BY <1>2, <1>8
<1> QED BY <1>1, <1>2, <1>3, <1>4, <1>6, <1>9, <1>10, ReturnKeeps

(* Every step keeps the invariant.                                         *)
LEMMA ConfNext == ConfInvariant /\ Conf!Next => ConfInvariant'
<1> SUFFICES ASSUME ConfInvariant, Conf!Next PROVE ConfInvariant'
  OBVIOUS
<1>1. CASE \E f \in DOMAIN disk : \E doc \in Documents[f] : Conf!Edit(f, doc)
  BY <1>1, EditKeeps
<1>2. CASE Conf!InvalidateCache
  BY <1>2, InvalidateKeeps
<1>3. ASSUME NEW p \in Goroutines,
             \/ \E ctx \in Contexts, pc \in {"lookup", "load"} : Conf!Begin(p, ctx, pc)
             \/ Conf!getConfig(p) \/ Conf!tryUpdatingCache(p) \/ Conf!ListDropIns(p) \/ Conf!ListDropInsFails(p)
             \/ (\E i \in DOMAIN DropIns : Conf!LoadDropIn(p, i)) \/ Conf!Store(p) \/ Conf!Finish(p)
      PROVE  ConfInvariant'
  <2>1. CASE \E ctx \in Contexts, pc \in {"lookup", "load"} : Conf!Begin(p, ctx, pc)
    BY <2>1, BeginKeeps
  <2>2. CASE Conf!ListDropInsFails(p)
    BY <2>2, FailureKeeps DEF Conf!ListDropInsFails, Loading
  <2>3. CASE \E i \in DOMAIN DropIns : Conf!LoadDropIn(p, i)
    BY <2>3, LoadKeeps
  <2> QED BY <1>3, <2>1, <2>2, <2>3, GetConfigKeeps, TryUpdatingKeeps, ListKeeps, StoreKeeps, FinishKeeps
<1> QED BY <1>1, <1>2, <1>3, Zenon DEF Conf!Next, Conf!Files

(* A step of another part of the run leaves the configuration alone.       *)
LEMMA ConfStutter == ConfInvariant /\ UNCHANGED confVars => ConfInvariant'
BY DEF ConfInvariant, confVars

(* The invariant says what ConfigIsCurrent does.                           *)
LEMMA ConfFollows == ConfInvariant => Conf!ConfigIsCurrent
<1> SUFFICES ASSUME ConfInvariant PROVE Conf!ConfigIsCurrent
  OBVIOUS
<1>1. Conf!TypeOK
  <2>1. \A f \in DOMAIN disk : disk[f].doc.there \in {"file", "missing", "unreadable"} /\ disk[f].version <= MaxConfEdits
    <3>1. confEdits \in Nat /\ MaxConfEdits \in Nat /\ confEdits <= MaxConfEdits
      BY ConfAssumption DEF ConfInvariant
    <3>2. \A f \in DOMAIN disk : /\ disk[f].doc.there \in {"file", "missing", "unreadable"}
                                 /\ disk[f].version \in Nat /\ disk[f].version <= confEdits
      BY DEF ConfInvariant, DiskOK
    <3> QED BY <3>1, <3>2
  <2>2. \A p \in Goroutines : call[p].pc \in {"idle", "lookup", "load", "list", "dropIn", "returned"}
    BY DEF ConfInvariant, CallOK
  <2>3. \A w \in DOMAIN cache : cache[w].config.ok
    BY DEF ConfInvariant, CacheOK
  <2> QED BY <2>1, <2>2, <2>3 DEF ConfInvariant, Conf!TypeOK, Conf!Files
<1>2. ASSUME NEW p \in Conf!Returned
      PROVE  /\ \A i \in Conf!Places(call[p].w) :
                  call[p].from[Conf!FileAt(call[p].w, i)].version >= call[p].floor[Conf!FileAt(call[p].w, i)]
             /\ Conf!MergedInOrder(Conf!ConfigsOf(call[p].w, call[p].from), call[p].config)
  <2>1. p \in Goroutines /\ call[p].pc = "returned" /\ call[p].config.ok
    BY DEF Conf!Returned
  <2>2. Started(call[p], disk, promised) /\ IsCurrent(call[p].w, call[p].from, call[p].config, call[p].floor, disk)
    BY <2>1 DEF ConfInvariant, CallOK
  <2>3. ASSUME NEW i \in Conf!Places(call[p].w)
        PROVE  call[p].from[Conf!FileAt(call[p].w, i)].version >= call[p].floor[Conf!FileAt(call[p].w, i)]
    <3>1. PICK f : f = Conf!FileAt(call[p].w, i)
      OBVIOUS
    <3>2. f \in DOMAIN disk
      BY <2>2, <3>1 DEF Started, Known
    <3>3. call[p].from[f].version \in Nat /\ call[p].floor[f] \in Nat /\ call[p].floor[f] <= call[p].from[f].version
      BY <2>2, <3>2 DEF Started, IsCurrent, Fresh
    <3>4. call[p].from[f].version >= call[p].floor[f]
      BY <3>3
    <3> QED BY <3>1, <3>4
  <2> QED BY <2>2, <2>3 DEF IsCurrent
<1> QED BY <1>1, <1>2 DEF Conf!ConfigIsCurrent

(* Whatever goroutines look the configuration up, load it and invalidate   *)
(* it while its files are edited (getConfig, tryUpdatingCache,             *)
(* InvalidateCache): what a call returns is no older than what a call that *)
(* ended before it began has shown, and is the merge of the files it read  *)
(* in their order, for any number of goroutines, files and edits.          *)
THEOREM ConfigsAreCurrent == Spec => []ConfigIsCurrent
<1> DEFINE Inv == part = "conf" => ConfInvariant
<1>1. Init => Inv
  BY ConfInitially DEF Init, confInit
<1>2. Inv /\ [Next]_vars => Inv'
  <2> SUFFICES ASSUME Inv, [Next]_vars, part' = "conf" PROVE ConfInvariant'
    OBVIOUS
  <2>1. CASE UNCHANGED <<part, confVars>>
    BY <2>1, ConfStutter
  <2>2. CASE ConfStep
    BY <2>2, ConfNext DEF ConfStep
  <2>3. CASE PullStep \/ AuthStep \/ UNCHANGED vars
    <3>1. UNCHANGED <<part, confVars>>
      BY <2>3 DEF PullStep, AuthStep, vars
    <3> QED BY <2>1, <3>1
  <2> QED BY <2>2, <2>3 DEF Next
<1>3. Inv => ConfigIsCurrent
  BY ConfFollows DEF ConfigIsCurrent
<1> QED BY <1>1, <1>2, <1>3, PTL DEF Spec

-----------------------------------------------------------------------------
(* Names, aliases and mirrors.  The holder of the alias file's lock has    *)
(* computed its edit from the file as it is; every candidate for a pull    *)
(* keeps what the user fixed; and of the places of an entry's mirrors in   *)
(* use, those before the remaining sources have all been tried.            *)

(* A reference has the tag and digest of the input, or its default tag.    *)
Kept(ref, input) ==
  /\ ref.digest = input.digest
  /\ input.tag # "" => ref.tag = input.tag
  /\ ref.tag = "" <=> (input.tag = "" /\ input.digest # "")

KeptIn(s) == \A i \in DOMAIN s.candidates : Kept(s.candidates[i], s.input)

Waiting(s) == s.pc = "pull" /\ KeptIn(s)

(* The source at place i of an entry                                       *)
IsSource(source, i, reg, logical) ==
  /\ source.ref = Pull!Rewritten(logical, reg.prefix, Pull!EndpointAt(reg, i).location)
  /\ source.endpoint = Pull!EndpointAt(reg, i)

(* Attempt a was at a place of reg that is in use for the reference.       *)
WasInUse(a, reg, logical) ==
  /\ a.at \in Pull!Positions(reg, logical)
  /\ a.ref = Pull!Rewritten(logical, reg.prefix, Pull!EndpointAt(reg, a.at).location)
  /\ a.pull = Pull!EndpointAt(reg, a.at).pull

Configured(reg) == \E c \in Configs : reg \in c.regs

(* What is left to try and what was tried of an entry                      *)
Divided(reg, logical, sources, tried) ==
  /\ DOMAIN sources \subseteq Pull!Positions(reg, logical)
  /\ \A i \in DOMAIN sources : IsSource(sources[i], i, reg, logical)
  /\ \A a \in tried : WasInUse(a, reg, logical) /\ \A i \in DOMAIN sources : a.at < i
  /\ \A i \in Pull!Positions(reg, logical) : i \in DOMAIN sources \/ \E a \in tried : a.at = i

SameVersion(ref, logical) == ref.tag = logical.tag /\ ref.digest = logical.digest

(* What attempt a sent of the caller's credentials                         *)
SentOK(a, sys, logical) ==
  /\ sys.auth /\ (a.sent.auth \/ a.sent.token) => Pull!DomainOf(a.ref) = Pull!DomainOf(logical)
  /\ Pull!DomainOf(a.ref) = Pull!DomainOf(logical) => a.sent = sys

AttemptOK(s) ==
  /\ Waiting(s.next) /\ Kept(s.logical, s.next.input) /\ ~Pull!referenceRefused(s.logical)
  /\ \A a \in s.tried : SentOK(a, s.sys, s.logical)
  /\ \A i \in DOMAIN s.sources : SameVersion(s.sources[i].ref, s.logical)
  /\ \A reg \in s.reg : Configured(reg) /\ Divided(reg, s.logical, s.sources, s.tried)

ReadingOK(s) ==
  /\ Waiting(s.next) /\ Kept(s.logical, s.next.input) /\ ~Pull!referenceRefused(s.logical)
  /\ SameVersion(s.physical, s.logical)
  /\ \A a \in s.tried \cup {s.used} : SentOK(a, s.sys, s.logical)
  /\ \A reg \in s.reg :
       /\ Configured(reg) /\ WasInUse(s.used, reg, s.logical)
       /\ \A a \in s.tried : WasInUse(a, reg, s.logical) /\ a.at < s.used.at
       /\ \A i \in Pull!Positions(reg, s.logical) : i < s.used.at => \E a \in s.tried : a.at = i

(* The state s of process p, w holding the lock of the alias file f; t are *)
(* the aliases that the edits should have led to.                          *)
EditOK(s, p, w, f, t) ==
  /\ s.pc \in {"open", "encode"} => w = p /\ s.aliases = Pull!Edited(t, s.edit)
  /\ s.pc = "open" => f.state = "ok" /\ f.aliases = t

NameOK(s) ==
  /\ s.pc \in {"idle", "edit", "open", "encode", "alias", "search", "prompt", "local", "pull", "attempt", "reading"}
  /\ s.pc \in {"prompt", "pull"} => KeptIn(s)
  /\ s.pc = "attempt" => AttemptOK(s)
  /\ s.pc = "reading" => ReadingOK(s)

FileOK(w, f, t) ==
  /\ w \in Pullers \cup Editors \cup {"nobody"} /\ f.state \in {"ok", "corrupt"}
  /\ w = "nobody" /\ f.state = "ok" => f.aliases = t

(* What PullsAreSound needs to be inductive.                               *)
PullInvariant ==
  /\ config \in Configs
  /\ edits \in Nat /\ edits <= MaxEdits /\ reloads \in Nat /\ reloads <= MaxReloads
  /\ FileOK(writer, file, truth) /\ DOMAIN proc = Pullers \cup Editors
  /\ \A p \in Pullers \cup Editors : NameOK(proc[p]) /\ EditOK(proc[p], p, writer, file, truth)

(* Every process starts idle, and the alias file empty.                    *)
LEMMA PullInitially == Pull!Init => PullInvariant
<1> SUFFICES ASSUME Pull!Init PROVE PullInvariant
  OBVIOUS
<1>1. /\ config \in Configs /\ file = [state |-> "ok", aliases |-> <<>>] /\ truth = <<>>
      /\ writer = "nobody" /\ edits = 0 /\ reloads = 0
      /\ proc = [p \in Pullers \cup Editors |-> [pc |-> "idle"]]
  BY DEF Pull!Init, Pull!Procs, Pull!Idle
<1>2. edits \in Nat /\ edits <= MaxEdits /\ reloads \in Nat /\ reloads <= MaxReloads
  <2>1. MaxEdits \in Nat /\ MaxReloads \in Nat
    BY PullAssumption
  <2> QED BY <1>1, <2>1
<1>3. FileOK(writer, file, truth)
  BY <1>1 DEF FileOK
<1>4. ASSUME NEW p \in Pullers \cup Editors PROVE NameOK(proc[p]) /\ EditOK(proc[p], p, writer, file, truth)
  <2>1. proc[p].pc = "idle"
    BY <1>1
  <2> QED BY <2>1 DEF NameOK, EditOK
<1> QED BY <1>1, <1>2, <1>3, <1>4 DEF PullInvariant

(* A step of one process that is not about to write the alias file         *)
LEMMA GotoKeeps ==
  ASSUME PullInvariant, NEW p \in Pullers \cup Editors, NEW s, Pull!Goto(p, s),
         NameOK(s), s.pc \notin {"open", "encode"}, UNCHANGED <<file, writer, truth>>,
         edits' \in Nat, edits' <= MaxEdits
  PROVE  PullInvariant'
<1>1. /\ proc' = [proc EXCEPT ![p] = s] /\ UNCHANGED <<config, reloads, file, writer, truth>>
  BY DEF Pull!Goto
<1>2. DOMAIN proc = Pullers \cup Editors /\ DOMAIN proc' = Pullers \cup Editors
  BY <1>1 DEF PullInvariant
<1>3. \A q \in Pullers \cup Editors : proc'[q] = IF q = p THEN s ELSE proc[q]
  BY <1>1, <1>2
<1>4. ASSUME NEW q \in Pullers \cup Editors PROVE NameOK(proc'[q]) /\ EditOK(proc'[q], q, writer, file, truth)
  <2>1. CASE q = p
    BY <1>3, <2>1 DEF EditOK
  <2>2. CASE q # p
    BY <1>3, <2>2 DEF PullInvariant
  <2> QED BY <2>1, <2>2
<1> QED BY <1>1, <1>2, <1>4 DEF PullInvariant

(* A step of one process that takes, holds or gives up the lock            *)
LEMMA LockedKeeps ==
  ASSUME PullInvariant, NEW p \in Pullers \cup Editors, NEW s, Pull!Goto(p, s), NameOK(s),
         writer \in {p, "nobody"},
         EditOK(s, p, writer', file', truth'), FileOK(writer', file', truth'), UNCHANGED edits
  PROVE  PullInvariant'
<1>1. /\ proc' = [proc EXCEPT ![p] = s] /\ UNCHANGED <<config, reloads, edits>>
  BY DEF Pull!Goto
<1>2. DOMAIN proc = Pullers \cup Editors /\ DOMAIN proc' = Pullers \cup Editors
  BY <1>1 DEF PullInvariant
<1>3. \A q \in Pullers \cup Editors : proc'[q] = IF q = p THEN s ELSE proc[q]
  BY <1>1, <1>2
<1>4. ASSUME NEW q \in Pullers \cup Editors PROVE NameOK(proc'[q]) /\ EditOK(proc'[q], q, writer', file', truth')
  <2>1. CASE q = p
    BY <1>3, <2>1
  <2>2. CASE q # p
    <3>1. NameOK(proc[q]) /\ EditOK(proc[q], q, writer, file, truth)
      BY DEF PullInvariant
    <3>2. writer # q
      BY <2>2, PullAssumption
    <3>3. proc[q].pc \notin {"open", "encode"}
      BY <3>1, <3>2 DEF EditOK
    <3> QED BY <1>3, <2>2, <3>1, <3>3 DEF EditOK
  <2> QED BY <2>1, <2>2
<1> QED BY <1>1, <1>2, <1>4 DEF PullInvariant

(* Normalizing a reference and adding the default tag keep what the user   *)
(* fixed (reference.TagNameOnly).                                          *)
LEMMA NormalizeKeeps ==
  ASSUME NEW ref, NEW input, Kept(ref, input)
  PROVE  Kept(Pull!Normalize(ref), input)
BY DEF Kept, Pull!Normalize, Pull!Ref

(* A reference with the tag and digest of the input gets a default tag.    *)
LEMMA TaggedKeeps ==
  ASSUME NEW ref, NEW input, ref.tag = input.tag, ref.digest = input.digest
  PROVE  Kept(Pull!TagNameOnly(ref), input)
BY DEF Kept, Pull!TagNameOnly, Pull!Ref

(* The candidates that Resolve makes of an input keep what it fixed.       *)
LEMMA CompletedKeeps ==
  ASSUME NEW input
  PROVE  /\ Kept(Pull!TagNameOnly(Pull!Normalize(input)), input)
         /\ \A host : Kept(Pull!TagNameOnly(Pull!InRegistry(host, input)), input)
         /\ \A alias : Kept(Pull!TagNameOnly(Pull!Ref(alias, input.tag, input.digest)), input)
<1>1. Kept(Pull!TagNameOnly(Pull!Normalize(input)), input)
  BY TaggedKeeps DEF Pull!Normalize, Pull!Ref
<1>2. ASSUME NEW host PROVE Kept(Pull!TagNameOnly(Pull!InRegistry(host, input)), input)
  BY TaggedKeeps DEF Pull!InRegistry, Pull!Normalize, Pull!Ref
<1>3. ASSUME NEW alias PROVE Kept(Pull!TagNameOnly(Pull!Ref(alias, input.tag, input.digest)), input)
  BY TaggedKeeps DEF Pull!Ref
<1> QED BY <1>1, <1>2, <1>3

(* Rewriting changes the name only (Endpoint.rewriteReference).            *)
LEMMA RewritingKeeps ==
  ASSUME NEW ref, NEW prefix, NEW location
  PROVE  SameVersion(Pull!Rewritten(ref, prefix, location), ref)
BY DEF SameVersion, Pull!Rewritten, Pull!Ref

(* A configuration loaded anew                                            *)
LEMMA ReloadKeeps == PullInvariant /\ Pull!Reload => PullInvariant'
<1> SUFFICES ASSUME PullInvariant, Pull!Reload PROVE PullInvariant'
  OBVIOUS
<1>1. config' \in Configs /\ UNCHANGED <<file, writer, edits, proc, truth>>
  BY DEF Pull!Reload
<1>2. reloads' \in Nat /\ reloads' <= MaxReloads
  <2>1. MaxReloads \in Nat
    BY PullAssumption
  <2>2. reloads \in Nat /\ reloads < MaxReloads /\ reloads' = reloads + 1
    BY DEF Pull!Reload, PullInvariant
  <2> QED BY <2>1, <2>2
<1> QED BY <1>1, <1>2 DEF PullInvariant

(* Editing the alias file (editShortNameAlias)                             *)
LEMMA StartKeeps ==
  ASSUME PullInvariant, NEW p \in Pullers \cup Editors, NEW e \in Edits, Pull!StartEdit(p, e)
  PROVE  PullInvariant'
<1>1. PICK s : s = [pc |-> "edit", edit |-> e]
  OBVIOUS
<1>2. Pull!Goto(p, s) /\ UNCHANGED <<file, writer, truth>>
  BY <1>1 DEF Pull!StartEdit
<1>3. edits' \in Nat /\ edits' <= MaxEdits
  <2>1. MaxEdits \in Nat
    BY PullAssumption
  <2>2. edits \in Nat /\ edits < MaxEdits /\ edits' = edits + 1
    BY DEF Pull!StartEdit, PullInvariant
  <2> QED BY <2>1, <2>2
<1>4. NameOK(s) /\ s.pc = "edit"
  BY <1>1 DEF NameOK
<1> QED BY <1>2, <1>3, <1>4, GotoKeeps

(* A process that is done with what it did                                 *)
LEMMA IdleKeeps ==
  ASSUME PullInvariant, NEW p \in Pullers \cup Editors, Pull!Goto(p, Pull!Idle), UNCHANGED <<file, writer, edits, truth>>
  PROVE  PullInvariant'
<1>1. PICK s : s = Pull!Idle
  OBVIOUS
<1>2. NameOK(s) /\ s.pc = "idle"
  BY <1>1 DEF NameOK, Pull!Idle
<1>3. edits' \in Nat /\ edits' <= MaxEdits
  BY DEF PullInvariant
<1>4. Pull!Goto(p, s)
  BY <1>1
<1> QED BY <1>2, <1>3, <1>4, GotoKeeps

(* The edit is computed from the file as it is, with the lock held.        *)
LEMMA EditAliasKeeps ==
  ASSUME PullInvariant, NEW p \in Pullers \cup Editors, Pull!editShortNameAlias(p)
  PROVE  PullInvariant'
<1>1. writer = "nobody" /\ UNCHANGED <<file, edits, truth>>
  BY DEF Pull!editShortNameAlias
<1>2. CASE Pull!Goto(p, Pull!Idle) /\ UNCHANGED writer
  BY <1>1, <1>2, IdleKeeps
<1>3. CASE /\ file.state = "ok" /\ writer' = p
           /\ Pull!Goto(p, [pc |-> "open", edit |-> proc[p].edit, aliases |-> Pull!Edited(file.aliases, proc[p].edit)])
  <2>1. PICK s : s = [pc |-> "open", edit |-> proc[p].edit, aliases |-> Pull!Edited(file.aliases, proc[p].edit)]
    OBVIOUS
  <2>2. file.aliases = truth
    BY <1>1, <1>3 DEF PullInvariant, FileOK
  <2>3. EditOK(s, p, writer', file', truth')
    BY <1>1, <1>3, <2>1, <2>2 DEF EditOK
  <2>4. FileOK(writer', file', truth')
    <3>1. p # "nobody"
      BY PullAssumption
    <3> QED BY <1>1, <1>3, <3>1 DEF FileOK, PullInvariant
  <2>5. NameOK(s) /\ Pull!Goto(p, s) /\ writer \in {p, "nobody"}
    BY <1>1, <1>3, <2>1 DEF NameOK
  <2> QED BY <1>1, <2>3, <2>4, <2>5, LockedKeeps
<1> QED BY <1>2, <1>3 DEF Pull!editShortNameAlias

(* Opening the file truncates it, and only the holder of the lock does.    *)
LEMMA WriteKeeps ==
  ASSUME PullInvariant, NEW p \in Pullers \cup Editors,
         Pull!OpenFails(p) \/ Pull!OpenFile(p) \/ Pull!Encode(p) \/ Pull!EncodeFails(p)
  PROVE  PullInvariant'
<1>1. proc[p].pc \in {"open", "encode"} /\ UNCHANGED edits
  BY DEF Pull!OpenFails, Pull!OpenFile, Pull!Encode, Pull!EncodeFails
<1>2. EditOK(proc[p], p, writer, file, truth)
  BY DEF PullInvariant
<1>3. writer = p /\ proc[p].aliases = Pull!Edited(truth, proc[p].edit)
  BY <1>1, <1>2 DEF EditOK
<1>4. PICK s : s = Pull!Idle
  OBVIOUS
<1>5. NameOK(s) /\ \A w, f, t : EditOK(s, p, w, f, t)
  BY <1>4 DEF NameOK, EditOK, Pull!Idle
<1>6. CASE Pull!OpenFails(p)
  <2>1. Pull!Goto(p, s) /\ writer' = "nobody" /\ UNCHANGED <<file, truth>> /\ file.aliases = truth
    BY <1>2, <1>4, <1>6 DEF Pull!OpenFails, EditOK
  <2>2. FileOK(writer', file', truth')
    BY <2>1 DEF FileOK, PullInvariant
  <2> QED BY <1>1, <1>3, <1>5, <2>1, <2>2, LockedKeeps
<1>7. CASE Pull!Encode(p)
  <2>1. /\ Pull!Goto(p, s) /\ writer' = "nobody" /\ truth' = Pull!Edited(truth, proc[p].edit)
        /\ file' = [state |-> "ok", aliases |-> proc[p].aliases]
    BY <1>4, <1>7 DEF Pull!Encode
  <2>2. FileOK(writer', file', truth')
    BY <1>3, <2>1 DEF FileOK
  <2> QED BY <1>1, <1>3, <1>5, <2>1, <2>2, LockedKeeps
<1>8. CASE Pull!EncodeFails(p)
  <2>1. /\ Pull!Goto(p, s) /\ writer' = "nobody"
        /\ file'.state \in {"ok", "corrupt"} /\ (file'.state = "ok" => truth' = file'.aliases)
    BY <1>4, <1>8 DEF Pull!EncodeFails
  <2>2. FileOK(writer', file', truth')
    BY <2>1 DEF FileOK
  <2> QED BY <1>1, <1>3, <1>5, <2>1, <2>2, LockedKeeps
<1>9. CASE Pull!OpenFile(p)
  <2>1. PICK x : x = [pc |-> "encode", edit |-> proc[p].edit, aliases |-> proc[p].aliases]
    OBVIOUS
  <2>2. /\ Pull!Goto(p, x) /\ UNCHANGED <<writer, truth>>
        /\ file' = [state |-> "ok", aliases |-> <<>>]
    BY <1>9, <2>1 DEF Pull!OpenFile
  <2>3. EditOK(x, p, writer', file', truth') /\ NameOK(x)
    BY <1>3, <2>1, <2>2 DEF EditOK, NameOK
  <2>4. FileOK(writer', file', truth')
    <3>1. p # "nobody"
      BY PullAssumption
    <3> QED BY <1>3, <2>2, <3>1 DEF FileOK
  <2> QED BY <1>1, <1>3, <2>2, <2>3, <2>4, LockedKeeps
<1> QED BY <1>6, <1>7, <1>8, <1>9

(* A step to a state s that is of no editor                                *)
LEMMA ResolvingKeeps ==
  ASSUME PullInvariant, NEW p \in Pullers \cup Editors, NEW s, Pull!Goto(p, s), NameOK(s),
         s.pc \notin {"open", "encode"}, UNCHANGED <<file, writer, edits, truth>>
  PROVE  PullInvariant'
<1>1. edits' \in Nat /\ edits' <= MaxEdits
  BY DEF PullInvariant
<1> QED BY <1>1, GotoKeeps

(* One candidate                                                           *)
LEMMA PullIsNamed ==
  ASSUME NEW input, NEW candidates, NEW at, NEW record, \A i \in DOMAIN candidates : Kept(candidates[i], input)
  PROVE  Waiting(Pull!PullFrom(input, candidates, at, record)) /\ NameOK(Pull!PullFrom(input, candidates, at, record))
<1>1. PICK s : s = Pull!PullFrom(input, candidates, at, record)
  OBVIOUS
<1>2. s.pc = "pull" /\ s.candidates = candidates /\ s.input = input
  BY <1>1 DEF Pull!PullFrom
<1>3. KeptIn(s)
  BY <1>2 DEF KeptIn
<1> QED BY <1>1, <1>2, <1>3 DEF Waiting, NameOK

(* A pull from candidates that keep what the user fixed                    *)
LEMMA PullKeeps ==
  ASSUME PullInvariant, NEW p \in Pullers \cup Editors, NEW input, NEW candidates, NEW record,
         \A i \in DOMAIN candidates : Kept(candidates[i], input),
         Pull!Goto(p, Pull!Pull(input, candidates, record)), UNCHANGED <<file, writer, edits, truth>>
  PROVE  PullInvariant'
<1>1. PICK s : s = Pull!PullFrom(input, candidates, 1, record)
  OBVIOUS
<1>2. NameOK(s) /\ s.pc = "pull" /\ Pull!Goto(p, s)
  BY <1>1, PullIsNamed DEF Pull!PullFrom, Pull!Pull
<1> QED BY <1>2, ResolvingKeeps

(* The same, of one candidate                                              *)
LEMMA PullOneKeeps ==
  ASSUME PullInvariant, NEW p \in Pullers \cup Editors, NEW input, NEW candidate, NEW record, Kept(candidate, input),
         Pull!Goto(p, Pull!Pull(input, <<candidate>>, record)), UNCHANGED <<file, writer, edits, truth>>
  PROVE  PullInvariant'
<1>1. PICK candidates : candidates = <<candidate>>
  OBVIOUS
<1>2. \A i \in DOMAIN candidates : candidates[i] = candidate
  BY <1>1
<1> QED BY <1>1, <1>2, PullKeeps

(* Resolve: a complete name, one that is Docker Hub's, or a short one      *)
LEMMA ResolveKeeps ==
  ASSUME PullInvariant, NEW p \in Pullers \cup Editors, NEW input, NEW md, NEW hb, Pull!Resolve(p, input, md, hb)
  PROVE  PullInvariant'
<1>1. UNCHANGED <<file, writer, edits, truth>>
  BY DEF Pull!Resolve
<1>2. CASE Pull!Goto(p, Pull!Pull(input, <<Pull!TagNameOnly(Pull!Normalize(input))>>, FALSE))
  BY <1>1, <1>2, CompletedKeeps, PullOneKeeps
<1>3. CASE Pull!Goto(p, Pull!Pull(input, <<Pull!TagNameOnly(Pull!InRegistry(DockerIO, input))>>, FALSE))
  BY <1>1, <1>3, CompletedKeeps, PullOneKeeps
<1>4. ASSUME NEW m, Pull!Goto(p, [pc |-> "alias", input |-> input, mode |-> m]) PROVE PullInvariant'
  <2>1. PICK s : s = [pc |-> "alias", input |-> input, mode |-> m]
    OBVIOUS
  <2>2. NameOK(s) /\ s.pc = "alias" /\ Pull!Goto(p, s)
    BY <1>4, <2>1 DEF NameOK
  <2> QED BY <1>1, <2>2, ResolvingKeeps
<1> QED BY <1>2, <1>3, <1>4 DEF Pull!Resolve

(* An alias, of the file or of the configuration                           *)
LEMMA ResolveAliasKeeps ==
  ASSUME PullInvariant, NEW p \in Pullers \cup Editors, Pull!ResolveAlias(p)
  PROVE  PullInvariant'
<1>1. UNCHANGED <<file, writer, edits, truth>>
  BY DEF Pull!ResolveAlias
<1>2. PICK input : input = proc[p].input
  OBVIOUS
<1>3. PICK alias : alias = Pull!ResolveShortNameAlias(input.path)
  OBVIOUS
<1>4. CASE Pull!Goto(p, Pull!Idle)
  BY <1>1, <1>4, IdleKeeps
<1>5. CASE Pull!Goto(p, Pull!Pull(input, <<Pull!TagNameOnly(Pull!Ref(alias, input.tag, input.digest))>>, FALSE))
  BY <1>1, <1>5, CompletedKeeps, PullOneKeeps
<1>6. CASE Pull!Goto(p, [pc |-> "search", input |-> input, mode |-> proc[p].mode])
  <2>1. PICK s : s = [pc |-> "search", input |-> input, mode |-> proc[p].mode]
    OBVIOUS
  <2>2. NameOK(s) /\ s.pc = "search" /\ Pull!Goto(p, s)
    BY <1>6, <2>1 DEF NameOK
  <2> QED BY <1>1, <2>2, ResolvingKeeps
<1> QED BY <1>2, <1>3, <1>4, <1>5, <1>6 DEF Pull!ResolveAlias

(* The registries to search: all of them, or the user is asked             *)
LEMMA SearchKeeps ==
  ASSUME PullInvariant, NEW p \in Pullers \cup Editors, NEW terminal, Pull!SearchRegistries(p, terminal)
  PROVE  PullInvariant'
<1>1. UNCHANGED <<file, writer, edits, truth>>
  BY DEF Pull!SearchRegistries
<1>2. PICK input : input = proc[p].input
  OBVIOUS
<1>3. PICK candidates : candidates = [i \in DOMAIN config.usr |-> Pull!TagNameOnly(Pull!InRegistry(config.usr[i], input))]
  OBVIOUS
<1>4. \A i \in DOMAIN candidates : Kept(candidates[i], input)
  BY <1>3, CompletedKeeps
<1>5. CASE Pull!Goto(p, Pull!Idle)
  BY <1>1, <1>5, IdleKeeps
<1>6. CASE Pull!Goto(p, Pull!Pull(input, candidates, FALSE))
  BY <1>1, <1>4, <1>6, PullKeeps
<1>7. CASE Pull!Goto(p, [pc |-> "prompt", input |-> input, candidates |-> candidates])
  <2>1. PICK s : s = [pc |-> "prompt", input |-> input, candidates |-> candidates]
    OBVIOUS
  <2>2. s.pc = "prompt" /\ KeptIn(s) /\ Pull!Goto(p, s)
    BY <1>4, <1>7, <2>1 DEF KeptIn
  <2>3. NameOK(s)
    BY <2>2 DEF NameOK
  <2> QED BY <1>1, <2>2, <2>3, ResolvingKeeps
<1> QED BY <1>2, <1>3, <1>5, <1>6, <1>7 DEF Pull!SearchRegistries

(* The user's choice among the candidates                                  *)
LEMMA PromptKeeps ==
  ASSUME PullInvariant, NEW p \in Pullers \cup Editors, Pull!Prompt(p)
  PROVE  PullInvariant'
<1>1. UNCHANGED <<file, writer, edits, truth>> /\ proc[p].pc = "prompt"
  BY DEF Pull!Prompt
<1>2. CASE Pull!Goto(p, Pull!Idle)
  BY <1>1, <1>2, IdleKeeps
<1>3. ASSUME NEW i \in DOMAIN proc[p].candidates,
             Pull!Goto(p, Pull!Pull(proc[p].input, <<Pull!Normalize(proc[p].candidates[i])>>, TRUE))
      PROVE  PullInvariant'
  <2>1. Kept(proc[p].candidates[i], proc[p].input)
    BY <1>1 DEF PullInvariant, NameOK, KeptIn
  <2>2. Kept(Pull!Normalize(proc[p].candidates[i]), proc[p].input)
    BY <2>1, NormalizeKeeps
  <2> QED BY <1>1, <1>3, <2>2, PullOneKeeps
<1> QED BY <1>2, <1>3 DEF Pull!Prompt

(* Names for local storage are not pulled.                                 *)
LEMMA ResolveLocallyKeeps ==
  ASSUME PullInvariant, NEW p \in Pullers \cup Editors, NEW input, NEW hb, Pull!ResolveLocally(p, input, hb)
  PROVE  PullInvariant'
<1>1. UNCHANGED <<file, writer, edits, truth>>
  BY DEF Pull!ResolveLocally
<1>2. ASSUME NEW candidates, Pull!Goto(p, [pc |-> "local", input |-> input, candidates |-> candidates])
      PROVE  PullInvariant'
  <2>1. PICK s : s = [pc |-> "local", input |-> input, candidates |-> candidates]
    OBVIOUS
  <2>2. NameOK(s) /\ s.pc = "local" /\ Pull!Goto(p, s)
    BY <1>2, <2>1 DEF NameOK
  <2> QED BY <1>1, <2>2, ResolvingKeeps
<1>3. CASE Pull!Goto(p, Pull!Idle)
  BY <1>1, <1>3, IdleKeeps
<1>4. Pull!Goto(p, Pull!Idle) \/ \E candidates : Pull!Goto(p, [pc |-> "local", input |-> input, candidates |-> candidates])
  BY DEF Pull!ResolveLocally
<1> QED BY <1>2, <1>3, <1>4

(* The entry chosen for a reference is one of the configuration.           *)
LEMMA FoundIsConfigured ==
  ASSUME PullInvariant, NEW name, NEW reg \in Pull!FindRegistry(config, name)
  PROVE  Configured(reg)
BY DEF PullInvariant, Pull!FindRegistry, Configured

(* newImageSource: all sources of the entry, or the reference itself, are  *)
(* to be tried.                                                            *)
LEMMA NewSourceKeeps ==
  ASSUME PullInvariant, NEW p \in Pullers \cup Editors, NEW sys, Pull!newImageSource(p, sys)
  PROVE  PullInvariant'
<1>1. /\ UNCHANGED <<file, writer, edits, truth>> /\ proc[p].pc = "pull"
      /\ proc[p].at \in DOMAIN proc[p].candidates
  BY DEF Pull!newImageSource
<1>2. PICK ref : ref = proc[p].candidates[proc[p].at]
  OBVIOUS
<1>3. PICK next : next = Pull!PullFrom(proc[p].input, proc[p].candidates, proc[p].at + 1, proc[p].record)
  OBVIOUS
<1>4. \A i \in DOMAIN proc[p].candidates : Kept(proc[p].candidates[i], proc[p].input)
  BY <1>1 DEF PullInvariant, NameOK, KeptIn
<1>5. Waiting(next) /\ NameOK(next) /\ next.pc = "pull" /\ Kept(ref, next.input)
  <2>1. next.pc = "pull" /\ next.input = proc[p].input
    BY <1>3 DEF Pull!PullFrom
  <2> QED BY <1>1, <1>2, <1>3, <1>4, <2>1, PullIsNamed
<1>6. CASE /\ ~Pull!referenceRefused(ref)
           /\ Pull!Goto(p, Pull!Attempting(next, ref, {}, sys, Pull!DefaultSources(ref), {}))
  <2>1. PICK s : s = Pull!Attempting(next, ref, {}, sys, Pull!DefaultSources(ref), {})
    OBVIOUS
  <2>2. /\ s.pc = "attempt" /\ s.next = next /\ s.logical = ref /\ s.reg = {} /\ s.tried = {}
        /\ \A i \in DOMAIN s.sources : s.sources[i].ref = ref
    BY <2>1 DEF Pull!Attempting, Pull!DefaultSources
  <2>3. AttemptOK(s)
    BY <1>5, <1>6, <2>2 DEF AttemptOK, SameVersion
  <2>4. NameOK(s)
    BY <2>2, <2>3 DEF NameOK
  <2>5. Pull!Goto(p, s)
    BY <1>6, <2>1
  <2> QED BY <1>1, <2>2, <2>4, <2>5, ResolvingKeeps
<1>7. CASE Pull!Goto(p, next)
  BY <1>1, <1>5, <1>7, ResolvingKeeps
<1>8. ASSUME NEW reg \in Pull!FindRegistry(config, Pull!NameOf(ref)),
             ~Pull!referenceRefused(ref),
             Pull!Goto(p, Pull!Attempting(next, ref, {reg}, sys, Pull!PullSourcesFromReference(reg, ref), {}))
      PROVE  PullInvariant'
  <2>1. PICK sources : sources = Pull!PullSourcesFromReference(reg, ref)
    OBVIOUS
  <2>2. PICK s : s = Pull!Attempting(next, ref, {reg}, sys, sources, {})
    OBVIOUS
  <2>3. /\ s.pc = "attempt" /\ s.next = next /\ s.logical = ref /\ s.reg = {reg}
        /\ s.sources = sources /\ s.tried = {}
    BY <2>2 DEF Pull!Attempting
  <2>4. /\ DOMAIN sources = Pull!Positions(reg, ref)
        /\ \A i \in DOMAIN sources :
             /\ sources[i].endpoint = Pull!EndpointAt(reg, i)
             /\ sources[i].ref = Pull!Rewritten(ref, reg.prefix, Pull!EndpointAt(reg, i).location)
    BY <2>1 DEF Pull!PullSourcesFromReference
  <2>5. Divided(reg, ref, sources, {})
    BY <2>4 DEF Divided, IsSource
  <2>6. \A i \in DOMAIN sources : SameVersion(sources[i].ref, ref)
    BY <2>4, RewritingKeeps
  <2>7. Configured(reg)
    BY FoundIsConfigured
  <2>8. AttemptOK(s)
    BY <1>5, <1>8, <2>3, <2>5, <2>6, <2>7 DEF AttemptOK
  <2>9. NameOK(s)
    BY <2>3, <2>8 DEF NameOK
  <2>10. Pull!Goto(p, s)
    BY <1>8, <2>1, <2>2
  <2> QED BY <1>1, <2>3, <2>9, <2>10, ResolvingKeeps
<1> QED BY <1>2, <1>3, <1>6, <1>7, <1>8 DEF Pull!newImageSource

(* Places of an entry's sources are numbers.                               *)
LEMMA PositionsAreNumbers ==
  ASSUME NEW reg, Configured(reg), NEW ref
  PROVE  Pull!Positions(reg, ref) \subseteq Nat
<1>1. Len(reg.mirrors) \in Nat /\ DOMAIN reg.mirrors = 1..Len(reg.mirrors)
  BY PullAssumption DEF Configured
<1> QED BY <1>1 DEF Pull!Positions

(* newImageSourceAttempt: the first of the sources left is tried.          *)
LEMMA AttemptKeeps ==
  ASSUME PullInvariant, NEW p \in Pullers \cup Editors, Pull!newImageSourceAttempt(p)
  PROVE  PullInvariant'
<1>1. UNCHANGED <<file, writer, edits, truth>> /\ proc[p].pc = "attempt"
  BY DEF Pull!newImageSourceAttempt
<1>2. PICK s : s = proc[p]
  OBVIOUS
<1>3. AttemptOK(s)
  BY <1>1, <1>2 DEF PullInvariant, NameOK
<1>4. PICK i \in DOMAIN s.sources :
        /\ \A j \in DOMAIN s.sources \ {i} : i < j
        /\ \/ Pull!Goto(p, Pull!Attempting(s.next, s.logical, s.reg, s.sys, [j \in DOMAIN s.sources \ {i} |-> s.sources[j]],
                 s.tried \cup {Pull!Attempt(i, s.sources[i], Pull!endpointSys(s.sys, s.logical, s.sources[i].ref))}))
           \/ Pull!Goto(p, [pc |-> "reading", next |-> s.next, logical |-> s.logical, reg |-> s.reg, sys |-> s.sys,
                            physical |-> s.sources[i].ref, insecure |-> s.sources[i].endpoint.insecure,
                            tried |-> s.tried,
                            used |-> Pull!Attempt(i, s.sources[i], Pull!endpointSys(s.sys, s.logical, s.sources[i].ref))])
  BY <1>2 DEF Pull!newImageSourceAttempt
<1>5. PICK a : a = Pull!Attempt(i, s.sources[i], Pull!endpointSys(s.sys, s.logical, s.sources[i].ref))
  OBVIOUS
<1>6. /\ a.at = i /\ a.ref = s.sources[i].ref /\ a.pull = s.sources[i].endpoint.pull
      /\ a.sent = Pull!endpointSys(s.sys, s.logical, a.ref)
  BY <1>5 DEF Pull!Attempt
<1>10. SentOK(a, s.sys, s.logical) /\ \A b \in s.tried : SentOK(b, s.sys, s.logical)
  <2>1. SentOK(a, s.sys, s.logical)
    BY <1>6 DEF SentOK, Pull!endpointSys
  <2> QED BY <1>3, <2>1 DEF AttemptOK
<1>7. ASSUME NEW reg \in s.reg
      PROVE  Configured(reg) /\ Divided(reg, s.logical, s.sources, s.tried) /\ WasInUse(a, reg, s.logical)
  <2>1. Configured(reg) /\ Divided(reg, s.logical, s.sources, s.tried)
    BY <1>3 DEF AttemptOK
  <2>2. IsSource(s.sources[i], i, reg, s.logical) /\ i \in Pull!Positions(reg, s.logical)
    BY <2>1 DEF Divided
  <2> QED BY <1>6, <2>1, <2>2 DEF WasInUse, IsSource
<1>8. ASSUME NEW others, NEW tried, others = [j \in DOMAIN s.sources \ {i} |-> s.sources[j]], tried = s.tried \cup {a},
             Pull!Goto(p, Pull!Attempting(s.next, s.logical, s.reg, s.sys, others, tried))
      PROVE  PullInvariant'
  <2>1. PICK x : x = Pull!Attempting(s.next, s.logical, s.reg, s.sys, others, tried)
    OBVIOUS
  <2>2. /\ x.pc = "attempt" /\ x.next = s.next /\ x.logical = s.logical /\ x.reg = s.reg
        /\ x.sys = s.sys /\ x.sources = others /\ x.tried = tried
    BY <2>1 DEF Pull!Attempting
  <2>3. DOMAIN others = DOMAIN s.sources \ {i} /\ \A j \in DOMAIN others : others[j] = s.sources[j] /\ i < j
    BY <1>4, <1>8
  <2>4. ASSUME NEW reg \in s.reg PROVE Configured(reg) /\ Divided(reg, s.logical, others, tried)
    <3>1. Configured(reg) /\ Divided(reg, s.logical, s.sources, s.tried) /\ WasInUse(a, reg, s.logical)
      BY <1>7
    <3>2. /\ DOMAIN others \subseteq Pull!Positions(reg, s.logical)
          /\ \A j \in DOMAIN others : IsSource(others[j], j, reg, s.logical)
      BY <2>3, <3>1 DEF Divided
    <3>3. \A b \in tried : WasInUse(b, reg, s.logical) /\ \A j \in DOMAIN others : b.at < j
      BY <1>6, <1>8, <2>3, <3>1 DEF Divided
    <3>4. \A j \in Pull!Positions(reg, s.logical) : j \in DOMAIN others \/ \E b \in tried : b.at = j
      BY <1>6, <1>8, <2>3, <3>1 DEF Divided
    <3> QED BY <3>1, <3>2, <3>3, <3>4 DEF Divided
  <2>5. AttemptOK(x)
    BY <1>3, <1>8, <1>10, <2>2, <2>3, <2>4 DEF AttemptOK
  <2>6. NameOK(x)
    BY <2>2, <2>5 DEF NameOK
  <2>7. Pull!Goto(p, x)
    BY <1>8, <2>1
  <2> QED BY <1>1, <2>2, <2>6, <2>7, ResolvingKeeps
<1>9. ASSUME NEW ref, NEW insecure, ref = s.sources[i].ref,
             Pull!Goto(p, [pc |-> "reading", next |-> s.next, logical |-> s.logical, reg |-> s.reg, sys |-> s.sys,
                           physical |-> ref, insecure |-> insecure, tried |-> s.tried, used |-> a])
      PROVE  PullInvariant'
  <2>1. PICK x : x = [pc |-> "reading", next |-> s.next, logical |-> s.logical, reg |-> s.reg, sys |-> s.sys,
                      physical |-> ref, insecure |-> insecure, tried |-> s.tried, used |-> a]
    OBVIOUS
  <2>2. /\ x.pc = "reading" /\ x.next = s.next /\ x.logical = s.logical /\ x.reg = s.reg
        /\ x.physical = ref /\ x.sys = s.sys /\ x.tried = s.tried /\ x.used = a
    BY <2>1
  <2>3. /\ Waiting(x.next) /\ Kept(x.logical, x.next.input) /\ SameVersion(x.physical, x.logical)
        /\ ~Pull!referenceRefused(x.logical)
    BY <1>3, <1>9, <2>2 DEF AttemptOK
  <2>4. \A b \in x.tried \cup {x.used} : SentOK(b, x.sys, x.logical)
    BY <1>10, <2>2
  <2>5. ASSUME NEW reg \in x.reg
        PROVE  /\ Configured(reg) /\ WasInUse(x.used, reg, x.logical)
               /\ \A b \in x.tried : WasInUse(b, reg, x.logical) /\ b.at < x.used.at
               /\ \A j \in Pull!Positions(reg, x.logical) : j < x.used.at => \E b \in x.tried : b.at = j
    <3>1. Configured(reg) /\ Divided(reg, s.logical, s.sources, s.tried) /\ WasInUse(a, reg, s.logical)
      BY <1>7, <2>2
    <3>2. \A b \in s.tried : WasInUse(b, reg, s.logical) /\ b.at < a.at
      BY <1>6, <3>1 DEF Divided
    <3>3. ASSUME NEW j \in Pull!Positions(reg, s.logical), j < a.at PROVE \E b \in s.tried : b.at = j
      <4>1. j \in Nat /\ i \in Nat
        BY <3>1, PositionsAreNumbers DEF Divided
      <4>2. CASE j \in DOMAIN s.sources
        <5>1. j # i
          BY <1>6, <3>3, <4>1
        <5>2. i < j
          BY <1>4, <4>2, <5>1
        <5> QED BY <1>6, <3>3, <4>1, <5>2
      <4> QED BY <3>1, <4>2 DEF Divided
    <3> QED BY <2>2, <3>1, <3>2, <3>3
  <2>6. ReadingOK(x)
    BY <2>3, <2>4, <2>5 DEF ReadingOK
  <2>7. NameOK(x)
    BY <2>2, <2>6 DEF NameOK
  <2>8. Pull!Goto(p, x)
    BY <1>9, <2>1
  <2> QED BY <1>1, <2>2, <2>7, <2>8, ResolvingKeeps
<1> QED BY <1>4, <1>5, <1>8, <1>9

(* The end of a pull, or of the attempts for one candidate                 *)
LEMMA EndKeeps ==
  ASSUME PullInvariant, NEW p \in Pullers \cup Editors, Pull!AllFailed(p) \/ Pull!Record(p) \/ Pull!Return(p)
  PROVE  PullInvariant'
<1>1. UNCHANGED <<file, writer, edits, truth>>
  BY DEF Pull!AllFailed, Pull!Record, Pull!Return
<1>2. CASE Pull!Goto(p, Pull!Idle)
  BY <1>1, <1>2, IdleKeeps
<1>3. CASE Pull!AllFailed(p)
  <2>1. proc[p].pc = "attempt" /\ Pull!Goto(p, proc[p].next)
    BY <1>3 DEF Pull!AllFailed
  <2>2. Waiting(proc[p].next)
    BY <2>1 DEF PullInvariant, NameOK, AttemptOK
  <2>3. NameOK(proc[p].next) /\ proc[p].next.pc = "pull"
    BY <2>2 DEF Waiting, NameOK
  <2> QED BY <1>1, <2>1, <2>3, ResolvingKeeps
<1>4. ASSUME NEW e, Pull!Goto(p, [pc |-> "edit", edit |-> e]) PROVE PullInvariant'
  <2>1. PICK s : s = [pc |-> "edit", edit |-> e]
    OBVIOUS
  <2>2. NameOK(s) /\ s.pc = "edit" /\ Pull!Goto(p, s)
    BY <1>4, <2>1 DEF NameOK
  <2> QED BY <1>1, <2>2, ResolvingKeeps
<1> QED BY <1>2, <1>3, <1>4 DEF Pull!Record, Pull!Return

(* Every step of a process or of the configuration                         *)
LEMMA PullNext == PullInvariant /\ Pull!Next => PullInvariant'
<1> SUFFICES ASSUME PullInvariant, Pull!Next PROVE PullInvariant'
  OBVIOUS
<1>1. CASE Pull!Reload
  BY <1>1, ReloadKeeps
<1>2. CASE \E p \in Editors, e \in Edits : Pull!StartEdit(p, e)
  BY <1>2, StartKeeps
<1>3. CASE \E p \in Pullers, input \in Inputs, hb \in BOOLEAN :
             Pull!ResolveLocally(p, input, hb) \/ \E md \in Modes : Pull!Resolve(p, input, md, hb)
  BY <1>3, ResolveLocallyKeeps, ResolveKeeps
<1>4. ASSUME NEW p \in Pullers \cup Editors,
             \/ Pull!editShortNameAlias(p) \/ Pull!OpenFails(p) \/ Pull!OpenFile(p) \/ Pull!Encode(p) \/ Pull!EncodeFails(p)
             \/ Pull!ResolveAlias(p) \/ (\E t \in BOOLEAN : Pull!SearchRegistries(p, t)) \/ Pull!Prompt(p)
             \/ (\E sys \in Pull!Credentials : Pull!newImageSource(p, sys)) \/ Pull!newImageSourceAttempt(p)
             \/ Pull!AllFailed(p) \/ Pull!Record(p) \/ Pull!Return(p)
      PROVE  PullInvariant'
  BY <1>4, EditAliasKeeps, WriteKeeps, ResolveAliasKeeps, SearchKeeps, PromptKeeps, NewSourceKeeps, AttemptKeeps, EndKeeps
<1> QED BY <1>1, <1>2, <1>3, <1>4 DEF Pull!Next, Pull!Procs

(* A mirror with restriction pull may be asked for a reference with this   *)
(* digest.                                                                 *)
Allowed(pull, reg, digest) ==
  /\ pull = "digest-only" => digest # ""
  /\ pull = "tag-only" => digest = ""
  /\ reg.digestOnly /\ digest = "" => pull = "primary"

(* An attempt at a place that is in use is one that its mirror allows.     *)
LEMMA UseIsAllowed ==
  ASSUME NEW reg, Configured(reg), NEW ref, NEW a, WasInUse(a, reg, ref)
  PROVE  Allowed(a.pull, reg, ref.digest)
<1>1. CASE a.at \in DOMAIN reg.mirrors
  <2>1. \A i \in DOMAIN reg.mirrors : reg.digestOnly => reg.mirrors[i].pull = ""
    BY PullAssumption DEF Configured
  <2>2. a.at # Len(reg.mirrors) + 1
    <3>1. Len(reg.mirrors) \in Nat /\ DOMAIN reg.mirrors = 1..Len(reg.mirrors)
      BY PullAssumption DEF Configured
    <3> QED BY <1>1, <3>1
  <2>3. a.pull = reg.mirrors[a.at].pull /\ Pull!mirrorUsed(reg, reg.mirrors[a.at], ref)
    BY <1>1, <2>2 DEF WasInUse, Pull!Positions, Pull!EndpointAt
  <2> QED BY <1>1, <2>1, <2>3 DEF Pull!mirrorUsed, Allowed
<1>2. CASE a.at \notin DOMAIN reg.mirrors
  <2>1. a.pull = "primary"
    BY <1>2 DEF WasInUse, Pull!EndpointAt
  <2> QED BY <2>1 DEF Allowed
<1> QED BY <1>1, <1>2

(* The invariant says what PullsAreSound does.                             *)
LEMMA PullFollows == PullInvariant => Pull!PullsAreSound
<1> SUFFICES ASSUME PullInvariant PROVE Pull!PullsAreSound
  OBVIOUS
<1>1. Pull!TypeOK
  <2>1. MaxEdits \in Nat /\ MaxReloads \in Nat
    BY PullAssumption
  <2>2. edits \in 0..MaxEdits /\ reloads \in 0..MaxReloads
    BY <2>1 DEF PullInvariant
  <2> QED BY <2>2 DEF Pull!TypeOK, PullInvariant, FileOK, NameOK, Pull!Procs
<1>2. Pull!NoEditIsLost
  BY DEF PullInvariant, FileOK, Pull!NoEditIsLost
<1>3. ASSUME NEW p \in Pull!Reading
      PROVE  Pull!ReferenceIsKept(p) /\ Pull!MirrorsAreTriedInOrder(p) /\ Pull!AuthConfigStaysHome(p)
  <2> DEFINE s == proc[p]
  <2>2. ReadingOK(s)
    BY DEF PullInvariant, NameOK, Pull!Reading
  <2>3. Kept(s.logical, s.next.input) /\ SameVersion(s.physical, s.logical) /\ ~Pull!referenceRefused(s.logical)
    BY <2>2 DEF ReadingOK
  <2>4. Pull!ReferenceIsKept(p)
    BY <2>3 DEF Kept, SameVersion, Pull!ReferenceIsKept, Pull!referenceRefused
  <2>5. ASSUME NEW reg \in s.reg
        PROVE  /\ \A a \in s.tried \cup {s.used} :
                    /\ a.pull = "digest-only" => s.physical.digest # ""
                    /\ a.pull = "tag-only" => s.physical.digest = ""
                    /\ reg.digestOnly /\ s.physical.digest = "" => a.pull = "primary"
               /\ \A a \in s.tried : a.at < s.used.at
               /\ \A i \in DOMAIN reg.mirrors :
                    i < s.used.at =>
                      \/ reg.mirrors[i].pull = "digest-only" /\ s.physical.digest = ""
                      \/ reg.mirrors[i].pull = "tag-only" /\ s.physical.digest # ""
                      \/ reg.digestOnly /\ s.physical.digest = ""
                      \/ \E a \in s.tried : a.at = i /\ a.ref = Pull!Rewritten(s.logical, reg.prefix, reg.mirrors[i].location)
    <3>1. /\ Configured(reg) /\ WasInUse(s.used, reg, s.logical)
          /\ \A a \in s.tried : WasInUse(a, reg, s.logical) /\ a.at < s.used.at
          /\ \A i \in Pull!Positions(reg, s.logical) : i < s.used.at => \E a \in s.tried : a.at = i
      BY <2>2 DEF ReadingOK
    <3>2. s.physical.digest = s.logical.digest
      BY <2>3 DEF SameVersion
    <3>3. ASSUME NEW a \in s.tried \cup {s.used} PROVE Allowed(a.pull, reg, s.physical.digest)
      <4>1. WasInUse(a, reg, s.logical)
        BY <3>1
      <4>2. Allowed(a.pull, reg, s.logical.digest)
        BY <3>1, <4>1, UseIsAllowed
      <4> QED BY <3>2, <4>2
    <3>4. ASSUME NEW i \in DOMAIN reg.mirrors, i < s.used.at, i \in Pull!Positions(reg, s.logical)
          PROVE  \E a \in s.tried : a.at = i /\ a.ref = Pull!Rewritten(s.logical, reg.prefix, reg.mirrors[i].location)
      BY <3>1, <3>4 DEF WasInUse, Pull!EndpointAt
    <3>5. ASSUME NEW i \in DOMAIN reg.mirrors, i \notin Pull!Positions(reg, s.logical)
          PROVE  \/ reg.mirrors[i].pull = "digest-only" /\ s.physical.digest = ""
                 \/ reg.mirrors[i].pull = "tag-only" /\ s.physical.digest # ""
                 \/ reg.digestOnly /\ s.physical.digest = ""
      BY <3>2, <3>5 DEF Pull!Positions, Pull!mirrorUsed
    <3>6. \A a \in s.tried \cup {s.used} :
            /\ a.pull = "digest-only" => s.physical.digest # ""
            /\ a.pull = "tag-only" => s.physical.digest = ""
            /\ reg.digestOnly /\ s.physical.digest = "" => a.pull = "primary"
      BY <3>3 DEF Allowed
    <3> QED BY <3>1, <3>4, <3>5, <3>6
  <2>6. Pull!MirrorsAreTriedInOrder(p)
    BY <2>5 DEF Pull!MirrorsAreTriedInOrder
  <2>7. Pull!AuthConfigStaysHome(p)
    BY <2>2 DEF ReadingOK, SentOK, Pull!AuthConfigStaysHome, Pull!Attempts
  <2> QED BY <2>4, <2>6, <2>7
<1> QED BY <1>1, <1>2, <1>3 DEF Pull!PullsAreSound

(* Whatever names are typed, aliases edited and configurations loaded      *)
(* while processes pull (shortnames.Resolve, editShortNameAlias,           *)
(* newImageSource): the alias file has the edits that succeeded, after a   *)
(* failed write on top of what that left; an image is read with the tag or *)
(* digest the user gave, from a mirror only as its restriction says and    *)
(* when those before it failed; and DockerAuthConfig, with a token beside  *)
(* it, goes to no other domain; for any number of processes, entries and   *)
(* mirrors.                                                                *)
THEOREM PullsSound == Spec => []PullsAreSound
<1> DEFINE Inv == part = "pull" => PullInvariant
<1>1. Init => Inv
  BY PullInitially DEF Init, pullInit
<1>2. Inv /\ [Next]_vars => Inv'
  <2> SUFFICES ASSUME Inv, [Next]_vars, part' = "pull" PROVE PullInvariant'
    OBVIOUS
  <2>1. CASE UNCHANGED <<part, pullVars>>
    BY <2>1 DEF PullInvariant, pullVars
  <2>2. CASE PullStep
    BY <2>2, PullNext DEF PullStep
  <2>3. CASE ConfStep \/ AuthStep \/ UNCHANGED vars
    <3>1. UNCHANGED <<part, pullVars>>
      BY <2>3 DEF ConfStep, AuthStep, vars
    <3> QED BY <2>1, <3>1
  <2> QED BY <2>2, <2>3 DEF Next
<1>3. Inv => PullsAreSound
  BY PullFollows DEF PullsAreSound
<1> QED BY <1>1, <1>2, <1>3, PTL DEF Spec

-----------------------------------------------------------------------------
(* Credentials.  Every entry of a file and of a helper, and every edited   *)
(* content that is about to be written, has credentials of the registry it *)
(* is under; and what SetCredentials has done without an error is in the   *)
(* place that a lookup asks first.                                         *)

PathOf(md) ==
  CASE md = "compat" -> "docker"
    [] md = "legacyfile" -> "legacy"
    [] md = "noruntime" -> "none"
    [] OTHER -> "auth"

IsKey(key) == key = Auth!Key(key.path) /\ key.path \in Seq(STRING) /\ Len(key.path) >= 1

EditedKey(md, op, key) ==
  IF md = "compat" /\ op \in {"set", "remove"} /\ key = Auth!Key(<<"docker.io">>) THEN Auth!DockerHubURL ELSE key

TodoOf(md, op, list) == IF md = "compat" /\ op # "get" THEN <<Auth!AuthFile>> ELSE list

ContentsOK(contents, legacy) ==
  /\ \A key \in DOMAIN contents.credHelpers : contents.credHelpers[key] \in Auth!ExternalHelpers
  /\ \A key \in DOMAIN contents.auths :
       contents.auths[key] = Auth!NoCred \/ Auth!BelongsTo(contents.auths[key], key, legacy)

FilesOK(fs) ==
  /\ DOMAIN fs = {"auth", "config", "docker", "legacy"}
  /\ \A f \in DOMAIN fs : ContentsOK(fs[f], f = "legacy")

StoresOK(st) ==
  /\ DOMAIN st = Auth!ExternalHelpers
  /\ \A h \in DOMAIN st : \A key \in DOMAIN st[h] : Auth!BelongsTo(st[h][key], key, FALSE)

(* Contents have of Docker's file in fs what is not an entry of "auths".   *)
SameRest(md, contents, fs) ==
  md = "compat" =>
    contents.other = fs["docker"].other /\ contents.credHelpers = fs["docker"].credHelpers

DockerKept(md, fs, was) == SameRest(md, fs["docker"], was)

(* A call with the helpers hs and the mode md                              *)
CallIsMade(c, hs, md) ==
  /\ c.op # "removeall" => IsKey(Auth!Key(c.cred.path))
  /\ c.key = EditedKey(md, c.op, Auth!Key(c.cred.path))
  /\ c.todo = TodoOf(md, c.op, hs)
  /\ md = "compat" /\ c.op = "set" => ~Auth!isNamespaced(Auth!Key(c.cred.path))

(* Contents that SetCredentials has edited                                 *)
SetIsEdited(s) ==
  /\ s.call.key \notin DOMAIN s.edited.credHelpers
  /\ s.call.key \in DOMAIN s.edited.auths /\ s.edited.auths[s.call.key] = s.call.cred

OperationOK(s, hs, md, fs) ==
  /\ s.pc \in {"idle", "run", "write"}
  /\ s.pc # "idle" => CallIsMade(s.call, hs, md) /\ (s.failed \in BOOLEAN)
  /\ s.pc # "idle" /\ s.call.op = "set" /\ ~s.failed => s.at = 1
  /\ s.pc = "write" =>
       /\ ContentsOK(s.edited, FALSE) /\ PathOf(md) \in {"auth", "docker"} /\ SameRest(md, s.edited, fs)
       /\ s.at \in DOMAIN s.call.todo /\ s.call.todo[s.at] = Auth!AuthFile
       /\ s.call.op = "set" => SetIsEdited(s)

(* Where a login has put its credentials                                   *)
Recorded(la, hs, md, fs, st) ==
  /\ IsKey(la.key) /\ la.cred.path = la.key.path /\ (md = "compat" => ~Auth!isNamespaced(la.key))
  /\ IF hs[1] = Auth!AuthFile \/ md = "compat"
     THEN LET key == EditedKey(md, "set", la.key)
          IN  /\ PathOf(md) \in {"auth", "docker"}
              /\ IF key \in DOMAIN fs[PathOf(md)].credHelpers
                 THEN LET h == fs[PathOf(md)].credHelpers[key]
                      IN  ~Auth!isNamespaced(key) /\ key \in DOMAIN st[h] /\ st[h][key] = la.cred
                 ELSE key \in DOMAIN fs[PathOf(md)].auths /\ fs[PathOf(md)].auths[key] = la.cred
     ELSE ~Auth!isNamespaced(la.key) /\ la.key \in DOMAIN st[hs[1]] /\ st[hs[1]][la.key] = la.cred

LoggedIn(la) == la.op = "set" /\ la.result = "ok" /\ la.clean

LookedUp(la) == la.op = "get" /\ la.result = "ok" => Auth!Covers(la.cred, la.key)

(* What CredentialsAreSound needs to be inductive.                         *)
AuthInvariant ==
  /\ helpers \in HelperLists /\ mode \in AuthModes
  /\ operations \in Nat /\ operations <= MaxOperations
  /\ FilesOK(files) /\ StoresOK(stores) /\ DockerKept(mode, files, began)
  /\ DOMAIN authProc = Processes
  /\ \A p \in Processes : OperationOK(authProc[p], helpers, mode, files)
  /\ LookedUp(last)
  /\ LoggedIn(last) /\ (\A p \in Processes : authProc[p].pc = "idle") => Recorded(last, helpers, mode, files, stores)

(* getPathToAuth and prepareForEdit depend on the mode only.               *)
LEMMA ModeDecides ==
  /\ Auth!getPathToAuth = PathOf(mode)
  /\ \A op, key : Auth!EditKey(op, key) = EditedKey(mode, op, key)
  /\ PathOf(mode) \in {"auth", "docker", "legacy", "none"}
  /\ mode = "compat" <=> PathOf(mode) = "docker"
  /\ Auth!Writable <=> PathOf(mode) \in {"auth", "docker"}
<1>1. Auth!getPathToAuth = PathOf(mode)
  BY DEF Auth!getPathToAuth, PathOf
<1>2. PathOf(mode) \in {"auth", "docker", "legacy", "none"} /\ (mode = "compat" <=> PathOf(mode) = "docker")
  BY DEF PathOf
<1>3. Auth!Writable <=> PathOf(mode) \in {"auth", "docker"}
  BY <1>1, <1>2 DEF Auth!Writable
<1> QED BY <1>1, <1>2, <1>3 DEF Auth!EditKey, EditedKey

(* Nothing is stored before the first operation.                           *)
LEMMA AuthInitially == Auth!Init => AuthInvariant
<1> SUFFICES ASSUME Auth!Init PROVE AuthInvariant
  OBVIOUS
<1>1. /\ helpers \in HelperLists /\ mode \in AuthModes /\ files \in InitialFiles /\ began = files /\ operations = 0
      /\ stores = [h \in Auth!ExternalHelpers |-> <<>>]
      /\ authProc = [p \in Processes |-> [pc |-> "idle"]]
      /\ last.op = "none"
  BY DEF Auth!Init, Auth!Idle
<1>2. operations \in Nat /\ operations <= MaxOperations
  <2>1. MaxOperations \in Nat
    BY AuthAssumption
  <2> QED BY <1>1, <2>1
<1>3. FilesOK(files)
  <2>1. /\ DOMAIN files = {"auth", "config", "docker", "legacy"}
        /\ \A f \in DOMAIN files :
             /\ \A key \in DOMAIN files[f].credHelpers : files[f].credHelpers[key] \in Auth!ExternalHelpers
             /\ \A key \in DOMAIN files[f].auths :
                  \/ files[f].auths[key] = Auth!NoCred
                  \/ Auth!BelongsTo(files[f].auths[key], key, f = "legacy")
    BY <1>1, AuthAssumption
  <2> QED BY <2>1 DEF FilesOK, ContentsOK
<1>4. StoresOK(stores)
  BY <1>1 DEF StoresOK
<1>5. DockerKept(mode, files, began)
  BY <1>1 DEF DockerKept, SameRest
<1>6. DOMAIN authProc = Processes /\ \A p \in Processes : OperationOK(authProc[p], helpers, mode, files)
  BY <1>1 DEF OperationOK
<1>7. LookedUp(last) /\ ~LoggedIn(last)
  BY <1>1 DEF LookedUp, LoggedIn
<1> QED BY <1>1, <1>2, <1>3, <1>4, <1>5, <1>6, <1>7 DEF AuthInvariant

(* Others' operations are not disturbed by a write of a file: Docker's     *)
(* file keeps what is not in "auths".                                      *)
LEMMA OperationStays ==
  ASSUME NEW s, NEW hs, NEW md, NEW fs, NEW fs2, OperationOK(s, hs, md, fs),
         SameRest(md, fs2["docker"], fs)
  PROVE  OperationOK(s, hs, md, fs2)
BY DEF OperationOK, SameRest

(* A step of one process, with what it has to show of its new state s, of  *)
(* the files and the helpers and of what it has ended                      *)
LEMMA StepKeeps ==
  ASSUME AuthInvariant, NEW p \in Processes, NEW s, Auth!Goto(p, s), UNCHANGED <<helpers, mode, began>>,
         operations' \in Nat, operations' <= MaxOperations,
         FilesOK(files'), StoresOK(stores'), DockerKept(mode, files', began'),
         SameRest(mode, files'["docker"], files),
         OperationOK(s, helpers, mode, files'), LookedUp(last'),
         s.pc # "idle" \/ (LoggedIn(last') => Recorded(last', helpers, mode, files', stores'))
  PROVE  AuthInvariant'
<1>1. authProc' = [authProc EXCEPT ![p] = s] /\ DOMAIN authProc = Processes
  BY DEF Auth!Goto, AuthInvariant
<1>2. DOMAIN authProc' = Processes /\ \A q \in Processes : authProc'[q] = IF q = p THEN s ELSE authProc[q]
  BY <1>1
<1>3. ASSUME NEW q \in Processes PROVE OperationOK(authProc'[q], helpers, mode, files')
  <2>1. OperationOK(authProc[q], helpers, mode, files)
    BY DEF AuthInvariant
  <2>2. OperationOK(authProc[q], helpers, mode, files')
    BY <2>1, OperationStays
  <2> QED BY <1>2, <2>2
<1>4. LoggedIn(last') /\ (\A q \in Processes : authProc'[q].pc = "idle") => Recorded(last', helpers, mode, files', stores')
  BY <1>2
<1> QED BY <1>2, <1>3, <1>4 DEF AuthInvariant

(* A step that leaves the files alone                                      *)
LEMMA QuietKeeps ==
  ASSUME AuthInvariant, NEW p \in Processes, NEW s, Auth!Goto(p, s), UNCHANGED <<helpers, mode, began, files, operations>>,
         StoresOK(stores'), OperationOK(s, helpers, mode, files), LookedUp(last'),
         s.pc # "idle" \/ (LoggedIn(last') => Recorded(last', helpers, mode, files, stores'))
  PROVE  AuthInvariant'
<1>1. /\ operations' \in Nat /\ operations' <= MaxOperations /\ FilesOK(files') /\ DockerKept(mode, files', began')
      /\ files' = files /\ SameRest(mode, files'["docker"], files)
  BY DEF AuthInvariant, SameRest
<1> QED BY <1>1, StepKeeps

(* The key that is edited belongs to the credentials.                      *)
LEMMA EditedKeyBelongs ==
  ASSUME NEW c, NEW hs, NEW md, CallIsMade(c, hs, md), c.op # "removeall"
  PROVE  Auth!BelongsTo(c.cred, c.key, FALSE)
<1>1. IsKey(Auth!Key(c.cred.path)) /\ c.key = EditedKey(md, c.op, Auth!Key(c.cred.path))
  BY DEF CallIsMade
<1>2. c.cred.path \in Seq(STRING) /\ Len(c.cred.path) >= 1
  BY <1>1 DEF IsKey, Auth!Key
<1>3. CASE c.key = Auth!Key(c.cred.path)
  <2>1. c.key.path = c.cred.path /\ c.key.url = FALSE
    BY <1>3 DEF Auth!Key
  <2> QED BY <1>2, <2>1 DEF Auth!BelongsTo
<1>4. CASE c.key = Auth!DockerHubURL /\ Auth!Key(c.cred.path) = Auth!Key(<<"docker.io">>)
  <2>1. c.cred.path = <<"docker.io">>
    BY <1>4 DEF Auth!Key
  <2>2. c.key.url = TRUE /\ c.key.path[1] = "index.docker.io"
    BY <1>4 DEF Auth!DockerHubURL
  <2>3. c.cred.path[1] = "docker.io" /\ Len(c.cred.path) = 1
    BY <2>1
  <2> QED BY <1>2, <2>2, <2>3 DEF Auth!BelongsTo, Auth!normalizeRegistry
<1> QED BY <1>1, <1>3, <1>4 DEF EditedKey

(* A process in an operation                                               *)
LEMMA InOperation ==
  ASSUME AuthInvariant, NEW p \in Processes, authProc[p].pc # "idle"
  PROVE  /\ CallIsMade(authProc[p].call, helpers, mode) /\ authProc[p].failed \in BOOLEAN
         /\ authProc[p].call.op = "set" /\ ~authProc[p].failed => authProc[p].at = 1
         /\ OperationOK(authProc[p], helpers, mode, files)
BY DEF AuthInvariant, OperationOK

(* After one helper, the next; SetCredentials only goes on after an error. *)
LEMMA ContinueIsOK ==
  ASSUME AuthInvariant, NEW p \in Processes, authProc[p].pc # "idle", NEW failed \in BOOLEAN, NEW loggedIn,
         NEW fs, authProc[p].call.op = "set" => failed, NEW s,
         s = Auth!Running(authProc[p].call, authProc[p].at + 1, authProc[p].failed \/ failed, loggedIn)
  PROVE  OperationOK(s, helpers, mode, fs) /\ s.pc = "run"
<1>1. /\ s.pc = "run" /\ s.call = authProc[p].call /\ s.failed = (authProc[p].failed \/ failed)
  BY DEF Auth!Running
<1>2. CallIsMade(authProc[p].call, helpers, mode) /\ authProc[p].failed \in BOOLEAN
  BY InOperation
<1>3. s.failed \in BOOLEAN /\ (failed => s.failed)
  BY <1>1, <1>2
<1> QED BY <1>1, <1>2, <1>3 DEF OperationOK

(* The same as a step, with or without a change of the helpers' contents   *)
LEMMA ContinueKeeps ==
  ASSUME AuthInvariant, NEW p \in Processes, authProc[p].pc # "idle", NEW failed \in BOOLEAN, NEW loggedIn,
         authProc[p].call.op = "set" => failed,
         Auth!Continue(p, failed, loggedIn), StoresOK(stores'), UNCHANGED <<helpers, mode, began, files, operations, last>>
  PROVE  AuthInvariant'
<1>1. PICK s : s = Auth!Running(authProc[p].call, authProc[p].at + 1, authProc[p].failed \/ failed, authProc[p].loggedIn \/ loggedIn)
  OBVIOUS
<1>2. Auth!Goto(p, s)
  BY <1>1 DEF Auth!Continue
<1>3. OperationOK(s, helpers, mode, files) /\ s.pc = "run"
  BY <1>1, ContinueIsOK
<1>4. LookedUp(last')
  BY DEF AuthInvariant
<1> QED BY <1>2, <1>3, <1>4, QuietKeeps

(* Starting an operation (prepareForEdit)                                  *)
LEMMA AuthBeginKeeps ==
  ASSUME AuthInvariant, NEW p \in Processes, NEW op, NEW key, key = Auth!Key(key.path),
         op # "removeall" => IsKey(key), NEW user, Auth!Begin(p, op, key, user)
  PROVE  AuthInvariant'
<1>1. PICK c : c = Auth!Call(op, Auth!EditKey(op, key), [path |-> key.path, user |-> user],
                             IF mode = "compat" /\ op # "get" THEN <<Auth!AuthFile>> ELSE helpers)
  OBVIOUS
<1>2. PICK s : s = Auth!Running(c, 1, FALSE, FALSE)
  OBVIOUS
<1>3. /\ Auth!Goto(p, s) /\ ~Auth!Refused(op, key) /\ UNCHANGED <<helpers, mode, began, files, stores, last>>
  BY <1>1, <1>2 DEF Auth!Begin
<1>4. operations' \in Nat /\ operations' <= MaxOperations
  <2>1. MaxOperations \in Nat
    BY AuthAssumption
  <2>2. operations \in Nat /\ operations < MaxOperations /\ operations' = operations + 1
    BY DEF Auth!Begin, AuthInvariant
  <2> QED BY <2>1, <2>2
<1>5. /\ c.op = op /\ c.cred.path = key.path /\ Auth!Key(c.cred.path) = key
      /\ c.key = EditedKey(mode, op, key) /\ c.todo = TodoOf(mode, op, helpers)
  BY <1>1, ModeDecides DEF Auth!Call, TodoOf
<1>6. CallIsMade(c, helpers, mode)
  BY <1>3, <1>5 DEF CallIsMade, Auth!Refused
<1>7. s.pc = "run" /\ s.call = c /\ s.at = 1 /\ s.failed = FALSE
  BY <1>2 DEF Auth!Running
<1>8. OperationOK(s, helpers, mode, files)
  BY <1>6, <1>7 DEF OperationOK
<1>9. /\ FilesOK(files') /\ StoresOK(stores') /\ DockerKept(mode, files', began') /\ LookedUp(last')
      /\ SameRest(mode, files'["docker"], files)
  BY <1>3 DEF AuthInvariant, SameRest
<1> QED BY <1>3, <1>4, <1>7, <1>8, <1>9, StepKeeps

Has(st, h, key, cred) == key \in DOMAIN st[h] /\ st[h][key] = cred

(* Helper h has new contents.                                              *)
StoredIn(st, st2, h, key, cred) == st2 = [st EXCEPT ![h] = Auth!Put(st[h], key, cred)]
DroppedIn(st, st2, h, keys) == st2 = [st EXCEPT ![h] = Auth!Drop(st[h], keys)]

(* Storing in a helper and deleting from it                                *)
LEMMA PutIsOK ==
  ASSUME NEW st, StoresOK(st), NEW h \in Auth!ExternalHelpers, NEW key, NEW cred, Auth!BelongsTo(cred, key, FALSE),
         NEW st2, StoredIn(st, st2, h, key, cred)
  PROVE  StoresOK(st2) /\ Has(st2, h, key, cred)
<1>1. DOMAIN st = Auth!ExternalHelpers
  BY DEF StoresOK
<1>2. DOMAIN st2 = Auth!ExternalHelpers /\ \A g \in Auth!ExternalHelpers : st2[g] = IF g = h THEN Auth!Put(st[h], key, cred) ELSE st[g]
  BY <1>1 DEF StoredIn, DroppedIn
<1>3. /\ DOMAIN st2[h] = DOMAIN st[h] \cup {key}
      /\ \A k \in DOMAIN st2[h] : st2[h][k] = IF k = key THEN cred ELSE st[h][k]
  BY <1>2 DEF Auth!Put
<1>4. ASSUME NEW g \in Auth!ExternalHelpers, NEW k \in DOMAIN st2[g] PROVE Auth!BelongsTo(st2[g][k], k, FALSE)
  <2>1. CASE g = h
    BY <1>1, <1>3, <2>1 DEF StoresOK
  <2>2. CASE g # h
    BY <1>1, <1>2, <2>2 DEF StoresOK
  <2> QED BY <2>1, <2>2
<1> QED BY <1>2, <1>3, <1>4 DEF StoresOK, Has

(* The same of credentials that are deleted                                *)
LEMMA DropIsOK ==
  ASSUME NEW st, StoresOK(st), NEW h \in Auth!ExternalHelpers, NEW keys,
         NEW st2, DroppedIn(st, st2, h, keys)
  PROVE  StoresOK(st2)
<1>1. DOMAIN st = Auth!ExternalHelpers
  BY DEF StoresOK
<1>2. DOMAIN st2 = Auth!ExternalHelpers /\ \A g \in Auth!ExternalHelpers : st2[g] = IF g = h THEN Auth!Drop(st[h], keys) ELSE st[g]
  BY <1>1 DEF StoredIn, DroppedIn
<1>3. ASSUME NEW g \in Auth!ExternalHelpers, NEW k \in DOMAIN st2[g] PROVE Auth!BelongsTo(st2[g][k], k, FALSE)
  <2>1. k \in DOMAIN st[g] /\ st2[g][k] = st[g][k]
    BY <1>2 DEF Auth!Drop
  <2> QED BY <1>1, <2>1 DEF StoresOK
<1> QED BY <1>2, <1>3 DEF StoresOK

(* Only the auth files are asked in Docker's format; a helper that is not  *)
(* the auth files is external.                                             *)
LEMMA HelperIsKnown ==
  ASSUME AuthInvariant, NEW p \in Processes, authProc[p].pc = "run", authProc[p].at \in DOMAIN authProc[p].call.todo
  PROVE  /\ Auth!helper(p) \in Auth!ExternalHelpers \cup {Auth!AuthFile}
         /\ Auth!helper(p) # Auth!AuthFile /\ authProc[p].call.op # "get" => mode # "compat" /\ authProc[p].call.todo = helpers
<1>1. authProc[p].call.todo = TodoOf(mode, authProc[p].call.op, helpers) /\ helpers \in HelperLists
  BY InOperation DEF CallIsMade, AuthInvariant
<1>2. CASE authProc[p].call.todo = <<Auth!AuthFile>>
  <2>1. Auth!helper(p) = Auth!AuthFile
    BY <1>2 DEF Auth!helper
  <2> QED BY <2>1
<1>3. CASE authProc[p].call.todo = helpers /\ (mode # "compat" \/ authProc[p].call.op = "get")
  <2>1. Auth!helper(p) \in Auth!ExternalHelpers \cup {Auth!AuthFile}
    BY <1>1, <1>3, AuthAssumption DEF Auth!helper
  <2> QED BY <1>3, <2>1
<1> QED BY <1>1, <1>2, <1>3 DEF TodoOf

(* An operation that has ended, and was not a login                        *)
LEMMA OtherReturnKeeps ==
  ASSUME AuthInvariant, NEW p \in Processes, NEW result, Auth!Return(p, result),
         authProc[p].call.op = "set" => result # "ok", authProc[p].call.op = "get" => result # "ok",
         UNCHANGED <<helpers, mode, began, files, stores, operations>>
  PROVE  AuthInvariant'
<1>1. PICK s : s = Auth!Idle
  OBVIOUS
<1>2. Auth!Goto(p, s) /\ last'.op = authProc[p].call.op /\ last'.result = result
  BY <1>1 DEF Auth!Return
<1>3. s.pc = "idle" /\ OperationOK(s, helpers, mode, files)
  BY <1>1 DEF Auth!Idle, OperationOK
<1>4. StoresOK(stores') /\ LookedUp(last') /\ ~LoggedIn(last')
  BY <1>2 DEF AuthInvariant, LookedUp, LoggedIn
<1> QED BY <1>2, <1>3, <1>4, QuietKeeps

(* What a login says about itself when it ends                             *)
LEMMA LoginReturns ==
  ASSUME AuthInvariant, NEW p \in Processes, authProc[p].pc # "idle", authProc[p].call.op = "set", Auth!Return(p, "ok")
  PROVE  /\ last'.op = "set" /\ last'.key = Auth!Key(authProc[p].call.cred.path) /\ last'.cred = authProc[p].call.cred
         /\ IsKey(last'.key) /\ last'.cred.path = last'.key.path /\ (mode = "compat" => ~Auth!isNamespaced(last'.key))
         /\ authProc[p].call.key = EditedKey(mode, "set", last'.key)
         /\ LookedUp(last') /\ (LoggedIn(last') => authProc[p].at = 1)
         /\ OperationOK(Auth!Idle, helpers, mode, files')
<1>1. /\ last'.op = "set" /\ last'.key = Auth!Key(authProc[p].call.cred.path) /\ last'.cred = authProc[p].call.cred
      /\ last'.clean = ~authProc[p].failed
  BY DEF Auth!Return
<1>2. /\ CallIsMade(authProc[p].call, helpers, mode) /\ authProc[p].failed \in BOOLEAN
      /\ ~authProc[p].failed => authProc[p].at = 1
  BY InOperation
<1>3. /\ IsKey(last'.key) /\ (mode = "compat" => ~Auth!isNamespaced(last'.key))
      /\ authProc[p].call.key = EditedKey(mode, "set", last'.key)
  BY <1>1, <1>2 DEF CallIsMade
<1>4. last'.cred.path = last'.key.path
  BY <1>1 DEF Auth!Key
<1>5. LookedUp(last') /\ (LoggedIn(last') => authProc[p].at = 1)
  BY <1>1, <1>2 DEF LookedUp, LoggedIn
<1>6. OperationOK(Auth!Idle, helpers, mode, files')
  BY DEF OperationOK, Auth!Idle
<1> QED BY <1>1, <1>3, <1>4, <1>5, <1>6

(* SetCredentials in an external helper                                    *)
LEMMA SetInHelperKeeps ==
  ASSUME AuthInvariant, NEW p \in Processes, Auth!SetInHelper(p)
  PROVE  AuthInvariant'
<1>1. /\ authProc[p].pc = "run" /\ authProc[p].call.op = "set" /\ authProc[p].at \in DOMAIN authProc[p].call.todo
      /\ Auth!helper(p) # Auth!AuthFile /\ UNCHANGED <<helpers, mode, began, files, operations>>
  BY DEF Auth!SetInHelper, Auth!At
<1>2. Auth!helper(p) \in Auth!ExternalHelpers /\ mode # "compat" /\ authProc[p].call.todo = helpers
  BY <1>1, HelperIsKnown
<1>3. CASE Auth!Continue(p, TRUE, FALSE) /\ UNCHANGED <<stores, last>>
  <2>1. StoresOK(stores')
    BY <1>3 DEF AuthInvariant
  <2> QED BY <1>1, <1>3, <2>1, ContinueKeeps
<1>4. CASE /\ Auth!helperAccepts(authProc[p].call.key) /\ Auth!Return(p, "ok")
           /\ stores' = [stores EXCEPT ![Auth!helper(p)] = Auth!Put(@, authProc[p].call.key, authProc[p].call.cred)]
  <2>1. PICK h : h = Auth!helper(p)
    OBVIOUS
  <2>2. PICK key : key = authProc[p].call.key
    OBVIOUS
  <2>3. PICK cred : cred = authProc[p].call.cred
    OBVIOUS
  <2>4. Auth!BelongsTo(cred, key, FALSE)
    BY <1>1, <2>2, <2>3, InOperation, EditedKeyBelongs
  <2>5. stores' = [stores EXCEPT ![h] = Auth!Put(stores[h], key, cred)]
    <3>1. DOMAIN stores = Auth!ExternalHelpers
      BY DEF AuthInvariant, StoresOK
    <3> QED BY <1>2, <1>4, <2>1, <2>2, <2>3, <3>1
  <2>6. StoresOK(stores') /\ Has(stores', h, key, cred)
    <3>1. PICK st2 : st2 = stores'
      OBVIOUS
    <3>2. StoresOK(stores) /\ StoredIn(stores, st2, h, key, cred)
      BY <2>5, <3>1 DEF AuthInvariant, StoredIn
    <3>3. StoresOK(st2) /\ Has(st2, h, key, cred)
      BY <1>2, <2>1, <2>4, <3>2, PutIsOK
    <3> QED BY <3>1, <3>3
  <2>7. PICK la : la = last'
    OBVIOUS
  <2>8. /\ la.cred = cred /\ IsKey(la.key) /\ la.cred.path = la.key.path
        /\ key = EditedKey(mode, "set", la.key) /\ LookedUp(la) /\ (LoggedIn(la) => authProc[p].at = 1)
        /\ OperationOK(Auth!Idle, helpers, mode, files)
    BY <1>1, <1>4, <2>2, <2>3, <2>7, LoginReturns
  <2>9. key = la.key /\ ~Auth!isNamespaced(key)
    BY <1>2, <1>4, <2>2, <2>8 DEF EditedKey, Auth!helperAccepts
  <2>10. LoggedIn(la) => Recorded(la, helpers, mode, files, stores')
    <3>1. SUFFICES ASSUME LoggedIn(la) PROVE Recorded(la, helpers, mode, files, stores')
      OBVIOUS
    <3>2. helpers[1] = h /\ h # Auth!AuthFile
      BY <1>1, <1>2, <2>1, <2>8, <3>1 DEF Auth!helper
    <3> QED BY <1>2, <2>6, <2>8, <2>9, <3>2 DEF Recorded, Has
  <2>11. Auth!Goto(p, Auth!Idle)
    BY <1>4 DEF Auth!Return
  <2> QED BY <1>1, <2>6, <2>7, <2>8, <2>10, <2>11, QuietKeeps
<1> QED BY <1>3, <1>4 DEF Auth!SetInHelper

(* A failure before the auth file is edited                                *)
LEMMA EditFailsKeeps ==
  ASSUME AuthInvariant, NEW p \in Processes, Auth!EditFails(p)
  PROVE  AuthInvariant'
<1>1. authProc[p].pc = "run" /\ Auth!Continue(p, TRUE, FALSE) /\ UNCHANGED <<helpers, mode, began, files, stores, last, operations>>
  BY DEF Auth!EditFails, Auth!At
<1>2. StoresOK(stores')
  BY <1>1 DEF AuthInvariant
<1> QED BY <1>1, <1>2, ContinueKeeps

(* The contents of the file that is edited                                 *)
LEMMA EditedContents ==
  ASSUME AuthInvariant, Auth!Writable
  PROVE  /\ PathOf(mode) \in DOMAIN files /\ PathOf(mode) \in {"auth", "docker"} /\ Auth!getPathToAuth = PathOf(mode)
         /\ ContentsOK(files[PathOf(mode)], FALSE)
         /\ mode = "compat" <=> PathOf(mode) = "docker"
<1>1. /\ PathOf(mode) \in {"auth", "docker"} /\ Auth!getPathToAuth = PathOf(mode) /\ (mode = "compat" <=> PathOf(mode) = "docker")
  BY ModeDecides
<1>2. PathOf(mode) \in DOMAIN files /\ ContentsOK(files[PathOf(mode)], PathOf(mode) = "legacy")
  BY <1>1 DEF AuthInvariant, FilesOK
<1>3. (PathOf(mode) = "legacy") = FALSE
  BY <1>1
<1> QED BY <1>1, <1>2, <1>3

(* SetCredentials in the auth file, or in the helper that it names         *)
LEMMA SetInFileKeeps ==
  ASSUME AuthInvariant, NEW p \in Processes, Auth!SetInFile(p)
  PROVE  AuthInvariant'
<1>1. /\ authProc[p].pc = "run" /\ authProc[p].call.op = "set" /\ authProc[p].at \in DOMAIN authProc[p].call.todo
      /\ Auth!helper(p) = Auth!AuthFile /\ Auth!Writable /\ UNCHANGED <<helpers, mode, began, files, operations>>
  BY DEF Auth!SetInFile, Auth!At
<1>2. PICK contents : contents = files[PathOf(mode)]
  OBVIOUS
<1>3. /\ PathOf(mode) \in DOMAIN files /\ PathOf(mode) \in {"auth", "docker"} /\ Auth!getPathToAuth = PathOf(mode)
      /\ ContentsOK(contents, FALSE) /\ (mode = "compat" <=> PathOf(mode) = "docker")
  BY <1>1, <1>2, EditedContents
<1>4. PICK c : c = authProc[p].call
  OBVIOUS
<1>5. Auth!BelongsTo(c.cred, c.key, FALSE) /\ CallIsMade(c, helpers, mode)
  BY <1>1, <1>4, InOperation, EditedKeyBelongs
<1>6. CASE /\ c.key \in DOMAIN contents.credHelpers /\ ~Auth!isNamespaced(c.key) /\ Auth!Return(p, "ok")
           /\ stores' = [stores EXCEPT ![contents.credHelpers[c.key]] = Auth!Put(@, c.key, c.cred)]
  <2>1. PICK h : h = contents.credHelpers[c.key]
    OBVIOUS
  <2>2. h \in Auth!ExternalHelpers /\ DOMAIN stores = Auth!ExternalHelpers
    BY <1>3, <1>6, <2>1 DEF ContentsOK, AuthInvariant, StoresOK
  <2>3. stores' = [stores EXCEPT ![h] = Auth!Put(stores[h], c.key, c.cred)]
    BY <1>6, <2>1, <2>2
  <2>4. StoresOK(stores') /\ Has(stores', h, c.key, c.cred)
    <3>1. PICK st2 : st2 = stores'
      OBVIOUS
    <3>2. PICK key : key = c.key
      OBVIOUS
    <3>3. PICK cred : cred = c.cred
      OBVIOUS
    <3>4. StoresOK(stores) /\ StoredIn(stores, st2, h, key, cred) /\ Auth!BelongsTo(cred, key, FALSE)
      BY <1>5, <2>3, <3>1, <3>2, <3>3 DEF AuthInvariant, StoredIn
    <3>5. StoresOK(st2) /\ Has(st2, h, key, cred)
      BY <2>2, <3>4, PutIsOK
    <3> QED BY <3>1, <3>2, <3>3, <3>5
  <2>5. PICK la : la = last'
    OBVIOUS
  <2>6. /\ la.cred = c.cred /\ IsKey(la.key) /\ la.cred.path = la.key.path
        /\ (mode = "compat" => ~Auth!isNamespaced(la.key))
        /\ c.key = EditedKey(mode, "set", la.key) /\ LookedUp(la) /\ (LoggedIn(la) => authProc[p].at = 1)
        /\ OperationOK(Auth!Idle, helpers, mode, files)
    BY <1>1, <1>4, <1>6, <2>5, LoginReturns
  <2>7. LoggedIn(la) => Recorded(la, helpers, mode, files, stores')
    <3>1. SUFFICES ASSUME LoggedIn(la) PROVE Recorded(la, helpers, mode, files, stores')
      OBVIOUS
    <3>2. helpers[1] # Auth!AuthFile => mode = "compat"
      BY <1>1, <1>4, <1>5, <2>6, <3>1 DEF Auth!helper, CallIsMade, TodoOf
    <3> QED BY <1>2, <1>3, <1>6, <2>1, <2>4, <2>6, <3>2 DEF Recorded, Has
  <2>8. Auth!Goto(p, Auth!Idle)
    BY <1>6 DEF Auth!Return
  <2> QED BY <1>1, <2>4, <2>5, <2>6, <2>7, <2>8, QuietKeeps
<1>7. CASE /\ c.key \notin DOMAIN contents.credHelpers /\ UNCHANGED <<stores, last>>
           /\ Auth!Goto(p, Auth!Writing(c, authProc[p].at, authProc[p].failed, authProc[p].loggedIn,
                                        Auth!Modified(contents, Auth!Put(contents.auths, c.key, c.cred), contents.credHelpers)))
  <2>1. PICK edited : edited = Auth!Modified(contents, Auth!Put(contents.auths, c.key, c.cred), contents.credHelpers)
    OBVIOUS
  <2>2. PICK s : s = Auth!Writing(c, authProc[p].at, authProc[p].failed, authProc[p].loggedIn, edited)
    OBVIOUS
  <2>3. /\ s.pc = "write" /\ s.call = c /\ s.at = authProc[p].at /\ s.failed = authProc[p].failed /\ s.edited = edited
    BY <2>2 DEF Auth!Writing
  <2>4. /\ edited.credHelpers = contents.credHelpers /\ DOMAIN edited.auths = DOMAIN contents.auths \cup {c.key}
        /\ \A k \in DOMAIN edited.auths : edited.auths[k] = IF k = c.key THEN c.cred ELSE contents.auths[k]
        /\ mode = "compat" => edited.other = contents.other
    BY <2>1 DEF Auth!Modified, Auth!Put
  <2>5. ContentsOK(edited, FALSE)
    BY <1>3, <1>5, <2>4 DEF ContentsOK
  <2>6. SetIsEdited(s) /\ SameRest(mode, s.edited, files)
    BY <1>2, <1>3, <1>7, <2>3, <2>4 DEF SetIsEdited, SameRest
  <2>7. authProc[p].failed \in BOOLEAN /\ (~authProc[p].failed => authProc[p].at = 1)
    BY <1>1, InOperation
  <2>8. s.at \in DOMAIN s.call.todo /\ s.call.todo[s.at] = Auth!AuthFile
    BY <1>1, <1>4, <2>3 DEF Auth!helper
  <2>9. OperationOK(s, helpers, mode, files)
    BY <1>3, <1>5, <2>3, <2>5, <2>6, <2>7, <2>8 DEF OperationOK
  <2>10. StoresOK(stores') /\ LookedUp(last') /\ Auth!Goto(p, s)
    BY <1>7, <2>1, <2>2 DEF AuthInvariant
  <2> QED BY <1>1, <2>3, <2>9, <2>10, QuietKeeps
<1> QED BY <1>2, <1>3, <1>4, <1>6, <1>7 DEF Auth!SetInFile

(* RemoveAuthentication in an external helper                              *)
LEMMA RemoveFromHelperKeeps ==
  ASSUME AuthInvariant, NEW p \in Processes, Auth!RemoveFromHelper(p)
  PROVE  AuthInvariant'
<1>1. /\ authProc[p].pc = "run" /\ authProc[p].call.op = "remove" /\ authProc[p].at \in DOMAIN authProc[p].call.todo
      /\ Auth!helper(p) # Auth!AuthFile /\ UNCHANGED <<helpers, mode, began, files, last, operations>>
  BY DEF Auth!RemoveFromHelper, Auth!At
<1>2. PICK h : h = Auth!helper(p)
  OBVIOUS
<1>3. h \in Auth!ExternalHelpers /\ StoresOK(stores)
  BY <1>1, <1>2, HelperIsKnown DEF AuthInvariant
<1>4. stores' = stores \/ DroppedIn(stores, stores', h, {authProc[p].call.key})
  <2>1. DOMAIN stores = Auth!ExternalHelpers
    BY <1>3 DEF StoresOK
  <2>2. stores' = stores \/ stores' = [stores EXCEPT ![h] = Auth!Drop(@, {authProc[p].call.key})]
    BY <1>2 DEF Auth!RemoveFromHelper
  <2> QED BY <1>3, <2>1, <2>2 DEF DroppedIn
<1>5. StoresOK(stores')
  BY <1>3, <1>4, DropIsOK
<1>6. \E failed \in BOOLEAN, there \in BOOLEAN : Auth!Continue(p, failed, there)
  BY DEF Auth!RemoveFromHelper
<1> QED BY <1>1, <1>5, <1>6, ContinueKeeps

(* Contents without some entries, to be written when not set               *)
LEMMA OtherEditKeeps ==
  ASSUME AuthInvariant, NEW p \in Processes, authProc[p].pc = "run", authProc[p].call.op # "set",
         authProc[p].at \in DOMAIN authProc[p].call.todo, Auth!helper(p) = Auth!AuthFile, Auth!Writable,
         NEW edited, ContentsOK(edited, FALSE), SameRest(mode, edited, files), NEW loggedIn,
         Auth!Goto(p, Auth!Writing(authProc[p].call, authProc[p].at, authProc[p].failed, loggedIn, edited)),
         StoresOK(stores'), UNCHANGED <<helpers, mode, began, files, last, operations>>
  PROVE  AuthInvariant'
<1>1. PICK s : s = Auth!Writing(authProc[p].call, authProc[p].at, authProc[p].failed, loggedIn, edited)
  OBVIOUS
<1>2. /\ s.pc = "write" /\ s.call = authProc[p].call /\ s.at = authProc[p].at /\ s.failed = authProc[p].failed
      /\ s.edited = edited
  BY <1>1 DEF Auth!Writing
<1>3. CallIsMade(authProc[p].call, helpers, mode) /\ authProc[p].failed \in BOOLEAN
  BY InOperation
<1>4. PathOf(mode) \in {"auth", "docker"}
  BY EditedContents
<1>5. OperationOK(s, helpers, mode, files)
  BY <1>2, <1>3, <1>4 DEF OperationOK, Auth!helper
<1>6. LookedUp(last') /\ Auth!Goto(p, s)
  BY <1>1 DEF AuthInvariant
<1> QED BY <1>2, <1>5, <1>6, QuietKeeps

(* RemoveAuthentication in the auth file, and in the helper it names       *)
LEMMA RemoveFromFileKeeps ==
  ASSUME AuthInvariant, NEW p \in Processes, Auth!RemoveFromFile(p)
  PROVE  AuthInvariant'
<1>1. /\ authProc[p].pc = "run" /\ authProc[p].call.op = "remove" /\ authProc[p].at \in DOMAIN authProc[p].call.todo
      /\ Auth!helper(p) = Auth!AuthFile /\ Auth!Writable /\ UNCHANGED <<helpers, mode, began, files, last, operations>>
  BY DEF Auth!RemoveFromFile, Auth!At
<1>2. PICK contents : contents = files[PathOf(mode)]
  OBVIOUS
<1>3. ContentsOK(contents, FALSE) /\ Auth!getPathToAuth = PathOf(mode) /\ StoresOK(stores)
  BY <1>1, <1>2, EditedContents DEF AuthInvariant
<1>4. PICK key : key = authProc[p].call.key
  OBVIOUS
<1>5. PICK edited : edited = Auth!Modified(contents, Auth!Drop(contents.auths, {key}), contents.credHelpers)
  OBVIOUS
<1>6. ContentsOK(edited, FALSE) /\ SameRest(mode, edited, files)
  <2>1. /\ edited.credHelpers = contents.credHelpers /\ DOMAIN edited.auths = DOMAIN contents.auths \ {key}
        /\ \A k \in DOMAIN edited.auths : edited.auths[k] = contents.auths[k]
        /\ mode = "compat" => edited.other = contents.other
    BY <1>5 DEF Auth!Modified, Auth!Drop
  <2>2. mode = "compat" => contents = files["docker"]
    BY <1>1, <1>2, EditedContents
  <2> QED BY <1>3, <2>1, <2>2 DEF ContentsOK, SameRest
<1>7. StoresOK(stores')
  <2>1. CASE stores' = stores
    BY <1>3, <2>1
  <2>2. CASE /\ key \in DOMAIN contents.credHelpers
             /\ stores' = [stores EXCEPT ![contents.credHelpers[key]] = Auth!Drop(@, {key})]
    <3>1. PICK h : h = contents.credHelpers[key]
      OBVIOUS
    <3>2. h \in Auth!ExternalHelpers /\ DOMAIN stores = Auth!ExternalHelpers
      BY <1>3, <2>2, <3>1 DEF ContentsOK, StoresOK
    <3>3. DroppedIn(stores, stores', h, {key})
      BY <2>2, <3>1, <3>2 DEF DroppedIn
    <3> QED BY <1>3, <3>2, <3>3, DropIsOK
  <2> QED BY <1>2, <1>3, <1>4, <2>1, <2>2 DEF Auth!RemoveFromFile
<1>8. \E loggedIn : Auth!Goto(p, Auth!Writing(authProc[p].call, authProc[p].at, authProc[p].failed, loggedIn, edited))
  BY <1>2, <1>3, <1>4, <1>5 DEF Auth!RemoveFromFile
<1> QED BY <1>1, <1>6, <1>7, <1>8, OtherEditKeeps

(* RemoveAllAuthentication in an external helper                           *)
LEMMA RemoveAllFromHelperKeeps ==
  ASSUME AuthInvariant, NEW p \in Processes, Auth!RemoveAllFromHelper(p)
  PROVE  AuthInvariant'
<1>1. /\ authProc[p].pc = "run" /\ authProc[p].call.op = "removeall" /\ authProc[p].at \in DOMAIN authProc[p].call.todo
      /\ Auth!helper(p) # Auth!AuthFile /\ UNCHANGED <<helpers, mode, began, files, last, operations>>
  BY DEF Auth!RemoveAllFromHelper, Auth!At
<1>2. PICK h : h = Auth!helper(p)
  OBVIOUS
<1>3. h \in Auth!ExternalHelpers /\ StoresOK(stores) /\ DOMAIN stores = Auth!ExternalHelpers
  BY <1>1, <1>2, HelperIsKnown DEF AuthInvariant, StoresOK
<1>4. PICK deleted \in SUBSET DOMAIN stores[h], failed \in BOOLEAN :
        stores' = [stores EXCEPT ![h] = Auth!Drop(@, deleted)] /\ Auth!Continue(p, failed, FALSE)
  BY <1>2 DEF Auth!RemoveAllFromHelper
<1>5. DroppedIn(stores, stores', h, deleted)
  BY <1>3, <1>4 DEF DroppedIn
<1>6. StoresOK(stores')
  BY <1>3, <1>5, DropIsOK
<1> QED BY <1>1, <1>4, <1>6, ContinueKeeps

(* RemoveAllAuthentication in the auth file, and in the helpers it names   *)
LEMMA RemoveAllFromFileKeeps ==
  ASSUME AuthInvariant, NEW p \in Processes, Auth!RemoveAllFromFile(p)
  PROVE  AuthInvariant'
<1>1. /\ authProc[p].pc = "run" /\ authProc[p].call.op = "removeall" /\ authProc[p].at \in DOMAIN authProc[p].call.todo
      /\ Auth!helper(p) = Auth!AuthFile /\ Auth!Writable /\ UNCHANGED <<helpers, mode, began, files, last, operations>>
  BY DEF Auth!RemoveAllFromFile, Auth!At
<1>2. \E deleted : stores' = [h \in Auth!ExternalHelpers |->
                                Auth!Drop(stores[h], {k \in deleted : files[Auth!getPathToAuth].credHelpers[k] = h})]
  BY Zenon DEF Auth!RemoveAllFromFile
<1>3. StoresOK(stores')
  <2>1. PICK deleted : stores' = [h \in Auth!ExternalHelpers |->
                                    Auth!Drop(stores[h], {k \in deleted : files[Auth!getPathToAuth].credHelpers[k] = h})]
    BY <1>2
  <2>2. ASSUME NEW h \in Auth!ExternalHelpers, NEW k \in DOMAIN stores'[h] PROVE Auth!BelongsTo(stores'[h][k], k, FALSE)
    <3>1. k \in DOMAIN stores[h] /\ stores'[h][k] = stores[h][k]
      BY <2>1 DEF Auth!Drop
    <3> QED BY <3>1 DEF AuthInvariant, StoresOK
  <2> QED BY <2>1, <2>2 DEF StoresOK
<1>4. CASE Auth!Continue(p, TRUE, FALSE)
  BY <1>1, <1>3, <1>4, ContinueKeeps
<1>5. CASE Auth!Goto(p, Auth!Writing(authProc[p].call, authProc[p].at, authProc[p].failed, authProc[p].loggedIn,
                                     Auth!Modified(files[Auth!getPathToAuth], <<>>, <<>>)))
  <2>1. PICK contents : contents = files[Auth!getPathToAuth]
    OBVIOUS
  <2>2. PICK edited : edited = Auth!Modified(contents, <<>>, <<>>)
    OBVIOUS
  <2>3. ContentsOK(contents, FALSE) /\ (mode = "compat" => contents = files["docker"])
    BY <1>1, <2>1, EditedContents
  <2>4. /\ DOMAIN edited.auths = {} /\ (edited.credHelpers = contents.credHelpers \/ DOMAIN edited.credHelpers = {})
        /\ mode = "compat" => edited.credHelpers = contents.credHelpers /\ edited.other = contents.other
    <3>1. CASE mode = "compat"
      <4>1. edited = [auths |-> <<>>, credHelpers |-> contents.credHelpers, other |-> contents.other]
        BY <2>2, <3>1 DEF Auth!Modified
      <4> QED BY <4>1
    <3>2. CASE mode # "compat"
      <4>1. edited = [auths |-> <<>>, credHelpers |-> <<>>, other |-> FALSE]
        BY <2>2, <3>2 DEF Auth!Modified
      <4>2. edited.auths = <<>> /\ edited.credHelpers = <<>>
        BY <4>1
      <4>3. DOMAIN edited.credHelpers = {}
        BY <4>2
      <4> QED BY <3>2, <4>2, <4>3
    <3> QED BY <3>1, <3>2
  <2>5. ContentsOK(edited, FALSE) /\ SameRest(mode, edited, files)
    BY <2>3, <2>4 DEF ContentsOK, SameRest
  <2> QED BY <1>1, <1>3, <1>5, <2>1, <2>2, <2>5, OtherEditKeeps
<1> QED BY <1>4, <1>5 DEF Auth!RemoveAllFromFile

(* The file is written: modifyJSON replaces it, modifyDockerConfigJSON     *)
(* replaces "auths".                                                       *)
LEMMA WriteFileKeeps ==
  ASSUME AuthInvariant, NEW p \in Processes, Auth!WriteFile(p)
  PROVE  AuthInvariant'
<1>1. authProc[p].pc = "write" /\ UNCHANGED <<helpers, mode, began, stores, operations>>
  BY DEF Auth!WriteFile
<1>2. PICK s : s = authProc[p]
  OBVIOUS
<1>3. /\ ContentsOK(s.edited, FALSE) /\ PathOf(mode) \in {"auth", "docker"} /\ SameRest(mode, s.edited, files)
      /\ s.at \in DOMAIN s.call.todo /\ s.call.todo[s.at] = Auth!AuthFile
      /\ s.call.op = "set" => SetIsEdited(s)
      /\ CallIsMade(s.call, helpers, mode)
  BY <1>1, <1>2, InOperation DEF OperationOK
<1>4. CASE Auth!Continue(p, TRUE, FALSE) /\ UNCHANGED <<files, last>>
  <2>1. StoresOK(stores')
    BY <1>1 DEF AuthInvariant
  <2> QED BY <1>1, <1>4, <2>1, ContinueKeeps
<1>5. CASE /\ files' = [files EXCEPT ![Auth!getPathToAuth] = authProc[p].edited]
           /\ IF authProc[p].call.op = "set" THEN Auth!Return(p, "ok")
              ELSE Auth!Continue(p, FALSE, FALSE) /\ UNCHANGED last
  <2>1. PICK path : path = PathOf(mode)
    OBVIOUS
  <2>2. PICK contents : contents = files'[path]
    OBVIOUS
  <2>3. /\ DOMAIN files = {"auth", "config", "docker", "legacy"} /\ path \in DOMAIN files /\ path # "legacy"
        /\ Auth!getPathToAuth = path /\ (mode = "compat" <=> path = "docker")
    BY <1>3, <2>1, ModeDecides DEF AuthInvariant, FilesOK
  <2>4. /\ DOMAIN files' = DOMAIN files /\ \A f \in DOMAIN files : f # path => files'[f] = files[f]
        /\ contents = s.edited
    BY <1>2, <1>5, <2>2, <2>3
  <2>6. ContentsOK(contents, FALSE)
    BY <1>3, <2>4
  <2>7. FilesOK(files')
    <3>1. ASSUME NEW f \in DOMAIN files PROVE ContentsOK(files'[f], f = "legacy")
      <4>1. CASE f = path
        <5>1. (f = "legacy") = FALSE
          BY <2>3, <4>1
        <5> QED BY <2>2, <2>6, <4>1, <5>1
      <4>2. CASE f # path
        BY <2>4, <4>2 DEF AuthInvariant, FilesOK
      <4> QED BY <4>1, <4>2
    <3> QED BY <2>3, <2>4, <3>1 DEF FilesOK
  <2>8. SameRest(mode, files'["docker"], files)
    BY <1>3, <2>2, <2>3, <2>4 DEF SameRest
  <2>9. DockerKept(mode, files', began')
    BY <1>1, <2>8 DEF AuthInvariant, DockerKept, SameRest
  <2>10. StoresOK(stores') /\ operations' \in Nat /\ operations' <= MaxOperations
    BY <1>1 DEF AuthInvariant
  <2>11. CASE authProc[p].call.op # "set"
    <3>1. PICK x : x = Auth!Running(authProc[p].call, authProc[p].at + 1, authProc[p].failed \/ FALSE, authProc[p].loggedIn \/ FALSE)
      OBVIOUS
    <3>2. Auth!Goto(p, x) /\ UNCHANGED last
      BY <1>5, <2>11, <3>1 DEF Auth!Continue
    <3>3. OperationOK(x, helpers, mode, files') /\ x.pc = "run"
      BY <1>1, <2>11, <3>1, ContinueIsOK
    <3>4. LookedUp(last')
      BY <3>2 DEF AuthInvariant
    <3> QED BY <1>1, <2>7, <2>8, <2>9, <2>10, <3>2, <3>3, <3>4, StepKeeps
  <2>12. CASE authProc[p].call.op = "set"
    <3>1. PICK la : la = last'
      OBVIOUS
    <3>2. Auth!Return(p, "ok")
      BY <1>5, <2>12
    <3>3. /\ la.cred = s.call.cred /\ IsKey(la.key) /\ la.cred.path = la.key.path
          /\ (mode = "compat" => ~Auth!isNamespaced(la.key))
          /\ s.call.key = EditedKey(mode, "set", la.key) /\ LookedUp(la) /\ (LoggedIn(la) => s.at = 1)
          /\ OperationOK(Auth!Idle, helpers, mode, files')
      BY <1>1, <1>2, <2>12, <3>1, <3>2, LoginReturns
    <3>4. PICK key : key = s.call.key
      OBVIOUS
    <3>5. key \notin DOMAIN contents.credHelpers /\ key \in DOMAIN contents.auths /\ contents.auths[key] = la.cred
      BY <1>2, <1>3, <2>4, <2>12, <3>3, <3>4 DEF SetIsEdited
    <3>6. LoggedIn(la) => Recorded(la, helpers, mode, files', stores')
      <4>1. SUFFICES ASSUME LoggedIn(la) PROVE Recorded(la, helpers, mode, files', stores')
        OBVIOUS
      <4>2. helpers[1] # Auth!AuthFile => mode = "compat"
        BY <1>2, <1>3, <2>12, <3>3, <4>1 DEF CallIsMade, TodoOf
      <4> QED BY <1>3, <2>1, <2>2, <3>3, <3>4, <3>5, <4>2 DEF Recorded
    <3>7. Auth!Goto(p, Auth!Idle)
      BY <3>2 DEF Auth!Return
    <3> QED BY <1>1, <2>7, <2>8, <2>9, <2>10, <3>1, <3>3, <3>6, <3>7, StepKeeps
  <2> QED BY <2>11, <2>12
<1> QED BY <1>4, <1>5 DEF Auth!WriteFile

(* All helpers were tried.                                                 *)
LEMMA AuthFinishKeeps ==
  ASSUME AuthInvariant, NEW p \in Processes, Auth!Finish(p)
  PROVE  AuthInvariant'
<1>1. UNCHANGED <<helpers, mode, began, files, stores, operations>>
  BY DEF Auth!Finish
<1>2. PICK result : Auth!Return(p, result) /\ (authProc[p].call.op \in {"set", "get"} => result # "ok")
  <2>1. PICK result : result = IF authProc[p].call.op = "set" \/ authProc[p].failed THEN "error"
                               ELSE IF authProc[p].call.op = "get" THEN "none"
                               ELSE IF authProc[p].call.op = "remove" /\ ~authProc[p].loggedIn THEN "not logged in"
                               ELSE "ok"
    OBVIOUS
  <2>2. Auth!Return(p, result)
    BY <2>1 DEF Auth!Finish
  <2>3. authProc[p].call.op \in {"set", "get"} => result # "ok"
    BY <2>1
  <2> QED BY <2>2, <2>3
<1> QED BY <1>1, <1>2, OtherReturnKeeps

(* The places of a registry or namespace that a lookup asks for            *)
LEMMA PrefixIsPath ==
  ASSUME NEW path \in Seq(STRING), NEW n \in 1..Len(path), NEW t, t = [j \in 1..n |-> path[j]]
  PROVE  t \in Seq(STRING) /\ Len(t) = n /\ t[1] = path[1] /\ \A j \in 1..n : t[j] = path[j]
<1>1. n \in Nat /\ n >= 1 /\ Len(path) \in Nat /\ DOMAIN path = 1..Len(path)
  OBVIOUS
<1>2. \A j \in 1..n : path[j] \in STRING /\ t[j] = path[j]
  BY <1>1
<1>3. t \in [1..n -> STRING]
  BY <1>2
<1>4. t \in Seq(STRING)
  BY <1>1, <1>3, SeqDef
<1>5. Len(t) \in Nat /\ DOMAIN t = 1..Len(t)
  BY <1>4
<1>6. 1..Len(t) = 1..n
  BY <1>3, <1>5
<1>7. Len(t) = n
  <2>1. Len(t) \in 1..n \/ Len(t) = 0
    BY <1>5, <1>6
  <2>2. n \in 1..Len(t)
    BY <1>1, <1>6
  <2> QED BY <1>1, <1>5, <2>1, <2>2
<1> QED BY <1>1, <1>2, <1>4, <1>7

(* Credentials under one of these places cover the key.                    *)
LEMMA PrefixCovers ==
  ASSUME NEW key, IsKey(key), NEW n \in 1..Len(key.path), NEW place,
         place = Auth!Key([j \in 1..n |-> key.path[j]]), NEW cred, NEW legacy, Auth!BelongsTo(cred, place, legacy)
  PROVE  Auth!Covers(cred, key)
<1>1. PICK t : t = [j \in 1..n |-> key.path[j]]
  OBVIOUS
<1>2. place.path = t /\ key.path \in Seq(STRING)
  BY <1>1 DEF Auth!Key, IsKey
<1>3. t \in Seq(STRING) /\ Len(t) = n /\ t[1] = key.path[1] /\ \A j \in 1..n : t[j] = key.path[j]
  BY <1>1, <1>2, PrefixIsPath
<1>4. /\ Auth!normalizeRegistry(cred.path[1]) = Auth!normalizeRegistry(key.path[1])
      /\ Len(cred.path) = 1 \/ cred.path = t
  BY <1>2, <1>3 DEF Auth!BelongsTo
<1>5. n \in Nat /\ Len(key.path) \in Nat /\ n <= Len(key.path)
  BY <1>2
<1>6. Len(cred.path) > 1 => Len(cred.path) <= Len(key.path) /\ \A i \in 1..Len(cred.path) : cred.path[i] = key.path[i]
  <2>1. CASE Len(cred.path) = 1
    BY <2>1
  <2>2. CASE cred.path = t
    BY <1>3, <1>5, <2>2
  <2> QED BY <1>4, <2>1, <2>2
<1> QED BY <1>4, <1>6 DEF Auth!Covers

(* So do credentials under the registry of the key.                        *)
LEMMA RegistryCovers ==
  ASSUME NEW key, IsKey(key), NEW cred, NEW legacy, Auth!BelongsTo(cred, Auth!Registry(key), legacy)
  PROVE  Auth!Covers(cred, key)
<1>1. Auth!Registry(key).path = <<key.path[1]>>
  BY DEF Auth!Registry, Auth!Key
<1>2. Auth!Registry(key).path[1] = key.path[1] /\ Len(Auth!Registry(key).path) = 1
  BY <1>1
<1>3. Auth!normalizeRegistry(cred.path[1]) = Auth!normalizeRegistry(key.path[1]) /\ Len(cred.path) = 1
  BY <1>2 DEF Auth!BelongsTo
<1> QED BY <1>3 DEF Auth!Covers

(* And those under a key that is the registry's when normalized            *)
LEMMA NormalizedCovers ==
  ASSUME NEW key, NEW k, NEW legacy \in BOOLEAN, NEW cred, Auth!BelongsTo(cred, k, legacy),
         Auth!normalizeAuthFileKey(k, legacy) = <<Auth!normalizeRegistry(key.path[1])>>
  PROVE  Auth!Covers(cred, key)
<1>1. PICK host : host = Auth!normalizeRegistry(key.path[1])
  OBVIOUS
<1>2. CASE legacy \/ k.url
  <2>1. Auth!normalizeAuthFileKey(k, legacy) = <<Auth!normalizeRegistry(k.path[1])>>
    <3>1. PICK path : path = <<k.path[1]>>
      OBVIOUS
    <3>2. Len(path) = 1 /\ path[1] = k.path[1]
      BY <3>1
    <3>3. Auth!normalizeAuthFileKey(k, legacy) = IF Len(path) = 1 THEN <<Auth!normalizeRegistry(path[1])>> ELSE path
      BY <1>2, <3>1 DEF Auth!normalizeAuthFileKey
    <3> QED BY <3>2, <3>3
  <2>2. Auth!normalizeRegistry(k.path[1]) = host
    BY <1>1, <2>1
  <2>3. Auth!normalizeRegistry(cred.path[1]) = host /\ Len(cred.path) = 1
    BY <1>2, <2>2 DEF Auth!BelongsTo
  <2> QED BY <1>1, <2>3 DEF Auth!Covers
<1>3. CASE ~(legacy \/ k.url)
  <2>1. Auth!normalizeAuthFileKey(k, legacy) = IF Len(k.path) = 1 THEN <<Auth!normalizeRegistry(k.path[1])>> ELSE k.path
    BY <1>3 DEF Auth!normalizeAuthFileKey
  <2>2. Len(k.path) = 1
    <3>1. SUFFICES ASSUME Len(k.path) # 1 PROVE FALSE
      OBVIOUS
    <3>2. k.path = <<host>>
      BY <1>1, <2>1, <3>1
    <3> QED BY <3>1, <3>2
  <2>3. Auth!normalizeRegistry(k.path[1]) = host
    BY <1>1, <2>1, <2>2
  <2>4. Auth!normalizeRegistry(cred.path[1]) = host /\ Len(cred.path) = 1
    BY <2>2, <2>3 DEF Auth!BelongsTo
  <2> QED BY <1>1, <2>4 DEF Auth!Covers
<1> QED BY <1>2, <1>3

(* What a helper has for the registry of a key                             *)
LEMMA StoredCovers ==
  ASSUME AuthInvariant, NEW key, IsKey(key), NEW h \in Auth!ExternalHelpers,
         Auth!Stored(h, Auth!Registry(key)) # Auth!NoCred
  PROVE  Auth!Covers(Auth!Stored(h, Auth!Registry(key)), key)
<1>1. PICK k : k = Auth!Registry(key)
  OBVIOUS
<1>2. PICK cred : cred = Auth!Stored(h, k)
  OBVIOUS
<1>3. k \in DOMAIN stores[h] /\ cred = stores[h][k]
  BY <1>1, <1>2 DEF Auth!Stored
<1>4. Auth!BelongsTo(cred, k, FALSE)
  BY <1>3 DEF AuthInvariant, StoresOK
<1> QED BY <1>1, <1>2, <1>4, RegistryCovers

(* What is found in one file (findCredentialsInFile)                       *)
LEMMA FoundInFileCovers ==
  ASSUME AuthInvariant, NEW key, IsKey(key), NEW path \in DOMAIN files,
         NEW cred \in Auth!findCredentialsInFile(key, path), cred # Auth!NoCred
  PROVE  Auth!Covers(cred, key)
<1> DEFINE contents == files[path]
           legacy == path = "legacy"
           order == Auth!authKeyLookupOrder(key, legacy)
           there == {i \in DOMAIN order : order[i] \in DOMAIN contents.auths}
           normalized == {k \in DOMAIN contents.auths :
                            Auth!normalizeAuthFileKey(k, legacy) = <<Auth!normalizeRegistry(key.path[1])>>}
<1>1. ContentsOK(contents, legacy)
  BY DEF AuthInvariant, FilesOK
<1>2. \/ /\ Auth!Registry(key) \in DOMAIN contents.credHelpers
         /\ cred = Auth!Stored(contents.credHelpers[Auth!Registry(key)], Auth!Registry(key))
      \/ \E i \in there : cred = contents.auths[order[i]]
      \/ \E k \in normalized : cred = contents.auths[k]
  <2>1. CASE Auth!Registry(key) \in DOMAIN contents.credHelpers
    BY <2>1 DEF Auth!findCredentialsInFile
  <2>2. CASE Auth!Registry(key) \notin DOMAIN contents.credHelpers /\ there # {}
    <3>1. Auth!findCredentialsInFile(key, path) = {contents.auths[order[i]] : i \in {j \in there : \A k \in there : j <= k}}
      BY <2>2 DEF Auth!findCredentialsInFile
    <3> QED BY <3>1
  <2>3. CASE Auth!Registry(key) \notin DOMAIN contents.credHelpers /\ there = {}
    <3>1. Auth!findCredentialsInFile(key, path) = IF normalized = {} THEN {Auth!NoCred} ELSE {contents.auths[k] : k \in normalized}
      BY <2>3 DEF Auth!findCredentialsInFile
    <3> QED BY <3>1
  <2> QED BY <2>1, <2>2, <2>3
<1>3. CASE /\ Auth!Registry(key) \in DOMAIN contents.credHelpers
           /\ cred = Auth!Stored(contents.credHelpers[Auth!Registry(key)], Auth!Registry(key))
  <2>1. contents.credHelpers[Auth!Registry(key)] \in Auth!ExternalHelpers
    BY <1>1, <1>3 DEF ContentsOK
  <2> QED BY <1>3, <2>1, StoredCovers
<1>4. ASSUME NEW i \in there, cred = contents.auths[order[i]] PROVE Auth!Covers(cred, key)
  <2>1. PICK place : place = order[i]
    OBVIOUS
  <2>2. Auth!BelongsTo(cred, place, legacy)
    BY <1>1, <1>4, <2>1 DEF ContentsOK
  <2>3. CASE legacy
    <3>1. order = <<Auth!Registry(key)>>
      BY <2>3 DEF Auth!authKeyLookupOrder
    <3>2. place = Auth!Registry(key)
      BY <2>1, <3>1
    <3> QED BY <2>2, <3>2, RegistryCovers
  <2>4. CASE ~legacy
    <3>1. Len(key.path) \in Nat
      BY DEF IsKey
    <3>2. order = [j \in 1..Len(key.path) |-> Auth!Key([l \in 1..(Len(key.path) - j + 1) |-> key.path[l]])]
      BY <2>4 DEF Auth!authKeyLookupOrder
    <3>3. i \in 1..Len(key.path)
      BY <3>2
    <3>4. PICK n : n = Len(key.path) - i + 1
      OBVIOUS
    <3>5. n \in 1..Len(key.path)
      BY <3>1, <3>3, <3>4
    <3>6. place = Auth!Key([l \in 1..n |-> key.path[l]])
      BY <2>1, <3>2, <3>3, <3>4
    <3> QED BY <2>2, <3>5, <3>6, PrefixCovers
  <2> QED BY <2>3, <2>4
<1>5. ASSUME NEW k \in normalized, cred = contents.auths[k] PROVE Auth!Covers(cred, key)
  <2>1. Auth!BelongsTo(cred, k, legacy)
    BY <1>1, <1>5 DEF ContentsOK
  <2>2. Auth!normalizeAuthFileKey(k, legacy) = <<Auth!normalizeRegistry(key.path[1])>> /\ legacy \in BOOLEAN
    OBVIOUS
  <2> QED BY <2>1, <2>2, NormalizedCovers
<1> QED BY <1>2, <1>3, <1>4, <1>5

(* The files that are read are there.                                      *)
LEMMA PathsAreFiles ==
  ASSUME AuthInvariant
  PROVE  \A i \in DOMAIN Auth!getAuthFilePaths : Auth!getAuthFilePaths[i] \in DOMAIN files
<1>1. /\ DOMAIN files = {"auth", "config", "docker", "legacy"}
      /\ Auth!getPathToAuth \in {"auth", "docker", "legacy", "none"}
  BY ModeDecides DEF AuthInvariant, FilesOK
<1>2. CASE Auth!userSpecifiedPath
  <2>1. Auth!getPathToAuth # "none" /\ Auth!getAuthFilePaths = <<Auth!getPathToAuth>>
    BY <1>2 DEF Auth!userSpecifiedPath, Auth!getPathToAuth, Auth!getAuthFilePaths
  <2> QED BY <1>1, <2>1
<1>3. CASE ~Auth!userSpecifiedPath /\ Auth!getPathToAuth = "none"
  <2>1. Auth!getAuthFilePaths = <<"config", "docker", "legacy">>
    BY <1>3 DEF Auth!getAuthFilePaths
  <2> QED BY <1>1, <2>1
<1>4. CASE ~Auth!userSpecifiedPath /\ Auth!getPathToAuth # "none"
  <2>1. PICK path : path = Auth!getPathToAuth
    OBVIOUS
  <2>2. Auth!getAuthFilePaths = <<path, "config", "docker", "legacy">>
    BY <1>4, <2>1 DEF Auth!getAuthFilePaths
  <2> QED BY <1>1, <1>4, <2>1, <2>2
<1> QED BY <1>2, <1>3, <1>4

(* What is found in all files                                              *)
LEMMA FoundCovers ==
  ASSUME AuthInvariant, NEW key, IsKey(key), NEW cred \in Auth!getCredentialsFromAuthFiles(key), cred # Auth!NoCred
  PROVE  Auth!Covers(cred, key)
<1>1. PICK i \in DOMAIN Auth!getAuthFilePaths : cred \in Auth!findCredentialsInFile(key, Auth!getAuthFilePaths[i])
  BY DEF Auth!getCredentialsFromAuthFiles
<1>2. Auth!getAuthFilePaths[i] \in DOMAIN files
  BY PathsAreFiles
<1> QED BY <1>1, <1>2, FoundInFileCovers

(* GetCredentials                                                          *)
LEMMA GetKeeps ==
  ASSUME AuthInvariant, NEW p \in Processes, Auth!Get(p)
  PROVE  AuthInvariant'
<1>1. /\ authProc[p].pc = "run" /\ authProc[p].call.op = "get" /\ authProc[p].at \in DOMAIN authProc[p].call.todo
      /\ UNCHANGED <<helpers, mode, began, files, stores, operations>>
  BY DEF Auth!Get
<1>2. StoresOK(stores')
  BY <1>1 DEF AuthInvariant
<1>3. CASE \E failed \in BOOLEAN : Auth!Continue(p, failed, FALSE) /\ UNCHANGED last
  BY <1>1, <1>2, <1>3, ContinueKeeps
<1>4. PICK key : key = authProc[p].call.key
  OBVIOUS
<1>5. IsKey(key)
  <2>1. CallIsMade(authProc[p].call, helpers, mode)
    BY <1>1, InOperation
  <2> QED BY <1>1, <1>4, <2>1 DEF CallIsMade, EditedKey
<1>6. ASSUME NEW cred, cred # Auth!NoCred,
             cred \in IF Auth!helper(p) = Auth!AuthFile THEN Auth!getCredentialsFromAuthFiles(key)
                      ELSE {Auth!Stored(Auth!helper(p), Auth!Registry(key))},
             Auth!Goto(p, Auth!Idle), last'.op = "get", last'.key = key, last'.cred = cred
      PROVE  AuthInvariant'
  <2>1. Auth!Covers(cred, key)
    <3>1. CASE Auth!helper(p) = Auth!AuthFile
      BY <1>5, <1>6, <3>1, FoundCovers
    <3>2. CASE Auth!helper(p) # Auth!AuthFile
      <4>1. Auth!helper(p) \in Auth!ExternalHelpers
        BY <1>1, <3>2, HelperIsKnown
      <4> QED BY <1>5, <1>6, <3>2, <4>1, StoredCovers
    <3> QED BY <3>1, <3>2
  <2>2. LookedUp(last') /\ ~LoggedIn(last')
    BY <1>6, <2>1 DEF LookedUp, LoggedIn
  <2>3. OperationOK(Auth!Idle, helpers, mode, files)
    BY DEF OperationOK, Auth!Idle
  <2> QED BY <1>1, <1>2, <1>6, <2>2, <2>3, QuietKeeps
<1>7. ASSUME NEW cred, cred # Auth!NoCred,
             cred \in IF Auth!helper(p) = Auth!AuthFile THEN Auth!getCredentialsFromAuthFiles(key)
                      ELSE {Auth!Stored(Auth!helper(p), Auth!Registry(key))},
             Auth!Goto(p, Auth!Idle),
             last' = [op |-> "get", key |-> key, cred |-> cred, result |-> "ok", clean |-> ~authProc[p].failed]
      PROVE  AuthInvariant'
  BY <1>6, <1>7
<1> QED BY <1>3, <1>4, <1>7 DEF Auth!Get, Auth!Found

(* Every step of an operation                                              *)
LEMMA AuthNext == AuthInvariant /\ Auth!Next => AuthInvariant'
<1> SUFFICES ASSUME AuthInvariant, Auth!Next PROVE AuthInvariant'
  OBVIOUS
<1>1. CASE Auth!Done
  BY <1>1 DEF Auth!Done, Auth!vars, AuthInvariant
<1>2. ASSUME NEW p \in Processes, NEW key \in LoginKeys, NEW op, NEW user, Auth!Begin(p, op, key, user) PROVE AuthInvariant'
  <2>1. IsKey(key) /\ key = Auth!Key(key.path)
    BY AuthAssumption DEF IsKey
  <2> QED BY <1>2, <2>1, AuthBeginKeeps
<1>3. ASSUME NEW p \in Processes, Auth!Begin(p, "removeall", Auth!Key(<<"quay.io">>), "nobody") PROVE AuthInvariant'
  <2>1. PICK key : key = Auth!Key(<<"quay.io">>)
    OBVIOUS
  <2>2. key = Auth!Key(key.path)
    BY <2>1 DEF Auth!Key
  <2> QED BY <1>3, <2>1, <2>2, AuthBeginKeeps
<1>4. ASSUME NEW p \in Processes,
             \/ Auth!SetInHelper(p) \/ Auth!SetInFile(p) \/ Auth!RemoveFromHelper(p) \/ Auth!RemoveFromFile(p)
             \/ Auth!RemoveAllFromHelper(p) \/ Auth!RemoveAllFromFile(p) \/ Auth!EditFails(p) \/ Auth!WriteFile(p)
             \/ Auth!Get(p) \/ Auth!Finish(p)
      PROVE  AuthInvariant'
  BY <1>4, SetInHelperKeeps, SetInFileKeeps, RemoveFromHelperKeeps, RemoveFromFileKeeps, RemoveAllFromHelperKeeps,
     RemoveAllFromFileKeeps, EditFailsKeeps, WriteFileKeeps, GetKeeps, AuthFinishKeeps
<1> QED BY <1>1, <1>2, <1>3, <1>4 DEF Auth!Next

(* A key with one part is its own registry, and others are namespaced.     *)
LEMMA OwnRegistry ==
  ASSUME NEW key, IsKey(key)
  PROVE  /\ ~Auth!isNamespaced(key) => Auth!Registry(key) = key
         /\ Auth!authKeyLookupOrder(key, FALSE)[1] = key /\ 1 \in DOMAIN Auth!authKeyLookupOrder(key, FALSE)
<1>1. PICK path : path = key.path
  OBVIOUS
<1>2. key = Auth!Key(path) /\ path \in Seq(STRING) /\ Len(path) >= 1 /\ key.url = FALSE
  BY <1>1 DEF IsKey, Auth!Key
<1>3. Len(path) \in Nat /\ DOMAIN path = 1..Len(path) /\ path = [j \in 1..Len(path) |-> path[j]]
  BY <1>2
<1>4. ASSUME ~Auth!isNamespaced(key) PROVE Auth!Registry(key) = key
  <2>1. ~(Len(path) > 1)
    BY <1>1, <1>2, <1>4, Zenon DEF Auth!isNamespaced
  <2>3. Len(path) = 1
    BY <1>2, <1>3, <2>1
  <2>2. path = <<path[1]>>
    BY <1>2, <2>3
  <2> QED BY <1>1, <1>2, <2>2 DEF Auth!Registry
<1>5. PICK order : order = Auth!authKeyLookupOrder(key, FALSE)
  OBVIOUS
<1>6. order = [i \in 1..Len(path) |-> Auth!Key([j \in 1..(Len(path) - i + 1) |-> path[j]])]
  BY <1>1, <1>5 DEF Auth!authKeyLookupOrder
<1>7. 1 \in DOMAIN order /\ order[1] = Auth!Key([j \in 1..(Len(path) - 1 + 1) |-> path[j]])
  BY <1>2, <1>3, <1>6
<1>8. Len(path) - 1 + 1 = Len(path)
  BY <1>3
<1>9. order[1] = key
  BY <1>2, <1>3, <1>7, <1>8
<1> QED BY <1>4, <1>5, <1>7, <1>9

(* What the first file says is the answer if it has credentials.           *)
LEMMA FirstFileDecides ==
  ASSUME NEW key, NEW cred, cred # Auth!NoCred, Auth!getPathToAuth \in {"auth", "docker"},
         Auth!findCredentialsInFile(key, Auth!getPathToAuth) = {cred}
  PROVE  Auth!getCredentialsFromAuthFiles(key) = {cred}
<1>1. PICK paths : paths = Auth!getAuthFilePaths
  OBVIOUS
<1>2. paths[1] = Auth!getPathToAuth /\ Len(paths) \in Nat /\ Len(paths) >= 1 /\ DOMAIN paths = 1..Len(paths)
  <2>1. PICK path : path = Auth!getPathToAuth
    OBVIOUS
  <2>2. paths = <<path>> \/ paths = <<path, "config", "docker", "legacy">>
    BY <1>1, <2>1 DEF Auth!getAuthFilePaths
  <2> QED BY <2>1, <2>2
<1> DEFINE Reached(i) == \A j \in 1..(i - 1) : Auth!NoCred \in Auth!findCredentialsInFile(key, paths[j])
           found == UNION {Auth!findCredentialsInFile(key, paths[i]) \ {Auth!NoCred} : i \in {k \in DOMAIN paths : Reached(k)}}
<1>3. Auth!getCredentialsFromAuthFiles(key) = found \cup (IF Reached(Len(paths) + 1) THEN {Auth!NoCred} ELSE {})
  BY <1>1 DEF Auth!getCredentialsFromAuthFiles
<1>4. ASSUME NEW i \in Nat, i >= 2 PROVE ~Reached(i)
  <2>1. 1 \in 1..(i - 1)
    BY <1>4
  <2>2. Auth!NoCred \notin Auth!findCredentialsInFile(key, paths[1])
    BY <1>2
  <2> QED BY <2>1, <2>2
<1>5. Reached(1) /\ 1 \in DOMAIN paths
  BY <1>2
<1>6. {k \in DOMAIN paths : Reached(k)} = {1}
  <2>1. ASSUME NEW k \in DOMAIN paths, Reached(k) PROVE k = 1
    <3>1. k \in Nat /\ k >= 1
      BY <1>2
    <3>2. ~(k >= 2)
      BY <1>4, <2>1, <3>1
    <3> QED BY <3>1, <3>2
  <2> QED BY <1>5, <2>1
<1>7. found = {cred}
  BY <1>2, <1>6
<1>8. ~Reached(Len(paths) + 1)
  <2>1. Len(paths) + 1 \in Nat /\ Len(paths) + 1 >= 2
    BY <1>2
  <2> QED BY <1>4, <2>1
<1> QED BY <1>3, <1>7, <1>8

(* The entry of the key itself is the best match.                          *)
LEMMA OwnEntryIsFound ==
  ASSUME NEW key, IsKey(key), NEW path \in {"auth", "docker"}, NEW cred,
         Auth!Registry(key) \notin DOMAIN files[path].credHelpers,
         key \in DOMAIN files[path].auths, files[path].auths[key] = cred
  PROVE  Auth!findCredentialsInFile(key, path) = {cred}
<1> DEFINE contents == files[path]
           order == Auth!authKeyLookupOrder(key, path = "legacy")
           there == {i \in DOMAIN order : order[i] \in DOMAIN contents.auths}
<1>1. (path = "legacy") = FALSE
  OBVIOUS
<1>2. 1 \in DOMAIN order /\ order[1] = key
  BY <1>1, OwnRegistry
<1>3. DOMAIN order \subseteq Nat \ {0}
  <2>1. Len(key.path) \in Nat
    BY DEF IsKey
  <2> QED BY <1>1, <2>1 DEF Auth!authKeyLookupOrder
<1>4. 1 \in there /\ \A i \in there : i \in Nat \ {0}
  BY <1>2, <1>3
<1>5. {j \in there : \A k \in there : j <= k} = {1}
  <2> HIDE DEF there
  <2> QED BY <1>4
<1>6. Auth!findCredentialsInFile(key, path) = {contents.auths[order[i]] : i \in {j \in there : \A k \in there : j <= k}}
  <2>1. there # {}
    BY <1>4
  <2> QED BY <2>1 DEF Auth!findCredentialsInFile
<1>7. {contents.auths[order[i]] : i \in {1}} = {cred}
  BY <1>2
<1> QED BY <1>5, <1>6, <1>7

(* A helper for the key is asked instead of the file.                      *)
LEMMA HelperEntryIsFound ==
  ASSUME NEW key, IsKey(key), ~Auth!isNamespaced(key), NEW path, NEW cred, NEW h,
         key \in DOMAIN files[path].credHelpers, files[path].credHelpers[key] = h,
         key \in DOMAIN stores[h], stores[h][key] = cred
  PROVE  Auth!findCredentialsInFile(key, path) = {cred}
<1>1. Auth!Registry(key) = key
  BY OwnRegistry
<1>2. Auth!Stored(h, key) = cred
  BY DEF Auth!Stored
<1> QED BY <1>1, <1>2 DEF Auth!findCredentialsInFile

(* For Docker Hub the entry under the URL is found if no entry is nearer   *)
(* and none other is normalized to the same host.                          *)
LEMMA HubEntryIsFound ==
  ASSUME NEW key, IsKey(key), key = Auth!Key(<<"docker.io">>), NEW cred, NEW path \in {"auth", "docker"},
         key \notin DOMAIN files[path].credHelpers,
         Auth!DockerHubURL \in DOMAIN files[path].auths, files[path].auths[Auth!DockerHubURL] = cred,
         \A k \in DOMAIN files[path].auths :
           k # Auth!DockerHubURL => Auth!normalizeAuthFileKey(k, FALSE) # <<"index.docker.io">>
  PROVE  Auth!findCredentialsInFile(key, path) = {cred}
<1> DEFINE contents == files[path]
           order == Auth!authKeyLookupOrder(key, path = "legacy")
           there == {i \in DOMAIN order : order[i] \in DOMAIN contents.auths}
           normalized == {k \in DOMAIN contents.auths :
             Auth!normalizeAuthFileKey(k, path = "legacy") = <<Auth!normalizeRegistry(key.path[1])>>}
<1>1. (path = "legacy") = FALSE
  OBVIOUS
<1>2. key.path = <<"docker.io">> /\ key.url = FALSE
  BY DEF Auth!Key
<1>3. key.path[1] = "docker.io" /\ Len(key.path) = 1
  BY <1>2
<1>4. Auth!normalizeRegistry(key.path[1]) = "index.docker.io"
  BY <1>3 DEF Auth!normalizeRegistry
<1>5. Auth!normalizeAuthFileKey(key, FALSE) = <<"index.docker.io">>
  BY <1>2, <1>3, <1>4 DEF Auth!normalizeAuthFileKey
<1>6. Auth!DockerHubURL.url = TRUE /\ Auth!DockerHubURL.path[1] = "index.docker.io"
  BY DEF Auth!DockerHubURL
<1>7. Auth!normalizeAuthFileKey(Auth!DockerHubURL, FALSE) = <<"index.docker.io">>
  <2>1. PICK one : one = <<Auth!DockerHubURL.path[1]>>
    OBVIOUS
  <2>2. Len(one) = 1 /\ one[1] = "index.docker.io"
    BY <1>6, <2>1
  <2>3. Auth!normalizeAuthFileKey(Auth!DockerHubURL, FALSE) = <<Auth!normalizeRegistry(one[1])>>
    BY <1>6, <2>1, <2>2 DEF Auth!normalizeAuthFileKey
  <2>4. Auth!normalizeRegistry(one[1]) = "index.docker.io"
    BY <2>2 DEF Auth!normalizeRegistry
  <2> QED BY <2>3, <2>4
<1>8. key # Auth!DockerHubURL
  BY <1>2, <1>6
<1>9. key \notin DOMAIN contents.auths
  BY <1>5, <1>8
<1>10. there = {}
  <2>1. DOMAIN order = {1} /\ order[1] = key
    <3>1. DOMAIN order = 1..Len(key.path)
      BY <1>1 DEF Auth!authKeyLookupOrder
    <3>2. 1..Len(key.path) = {1}
      <4>1. PICK n : n = Len(key.path)
        OBVIOUS
      <4>2. n = 1
        BY <1>3, <4>1
      <4>3. 1..n = {1}
        BY <4>2
      <4> QED BY <4>1, <4>3
    <3>3. Auth!authKeyLookupOrder(key, FALSE)[1] = key
      BY OwnRegistry
    <3> QED BY <1>1, <3>1, <3>2, <3>3
  <2> QED BY <1>9, <2>1
<1>11. normalized = {Auth!DockerHubURL}
  BY <1>1, <1>4, <1>7
<1>12. Auth!Registry(key) \notin DOMAIN contents.credHelpers
  BY <1>2, <1>3 DEF Auth!Registry
<1>13. Auth!findCredentialsInFile(key, path) = {contents.auths[k] : k \in normalized}
  BY <1>10, <1>11, <1>12 DEF Auth!findCredentialsInFile
<1> QED BY <1>11, <1>13

(* What SetCredentials recorded is what the helper that recorded it finds. *)
LEMMA LoginFollows ==
  ASSUME NEW la, Recorded(la, helpers, mode, files, stores), ~Auth!Shadowed(la.key)
  PROVE  /\ IF helpers[1] = Auth!AuthFile \/ mode = "compat" THEN Auth!getCredentialsFromAuthFiles(la.key) = {la.cred}
            ELSE Auth!Stored(helpers[1], Auth!Registry(la.key)) = la.cred
         /\ la.cred # Auth!NoCred
<1>1. PICK key, cred, path : key = la.key /\ cred = la.cred /\ path = PathOf(mode)
  OBVIOUS
<1>2. IsKey(key) /\ cred.path = key.path /\ cred # Auth!NoCred
  <2>1. IsKey(key) /\ cred.path = key.path
    BY <1>1 DEF Recorded
  <2>2. Len(cred.path) >= 1
    BY <2>1 DEF IsKey
  <2>3. Auth!NoCred.path = <<>>
    BY DEF Auth!NoCred
  <2>4. Len(<<>>) = 0
    OBVIOUS
  <2> QED BY <2>1, <2>2, <2>3, <2>4
<1>3. Auth!getPathToAuth = path
  BY <1>1, ModeDecides
<1>4. CASE helpers[1] # Auth!AuthFile /\ mode # "compat"
  <2>2. ~Auth!isNamespaced(key) /\ key \in DOMAIN stores[helpers[1]] /\ stores[helpers[1]][key] = cred
    BY <1>1, <1>4 DEF Recorded
  <2>3. Auth!Registry(key) = key
    BY <1>2, <2>2, OwnRegistry
  <2>4. Auth!Stored(helpers[1], key) = cred
    BY <2>2 DEF Auth!Stored
  <2> QED BY <1>1, <1>2, <1>4, <2>3, <2>4
<1>5. CASE helpers[1] = Auth!AuthFile \/ mode = "compat"
  <2>1. PICK edited : edited = EditedKey(mode, "set", key)
    OBVIOUS
  <2>2. /\ path \in {"auth", "docker"}
        /\ IF edited \in DOMAIN files[path].credHelpers
           THEN LET h == files[path].credHelpers[edited]
                IN  ~Auth!isNamespaced(edited) /\ edited \in DOMAIN stores[h] /\ stores[h][edited] = cred
           ELSE edited \in DOMAIN files[path].auths /\ files[path].auths[edited] = cred
    BY <1>1, <1>5, <2>1 DEF Recorded
  <2>3. ~(Auth!Registry(key) \in DOMAIN files[path].credHelpers /\ Auth!isNamespaced(key))
    BY <1>1, <1>3, <1>5 DEF Auth!Shadowed, Recorded
  <2>4. CASE edited = key
    <3>1. ASSUME key \in DOMAIN files[path].credHelpers PROVE Auth!findCredentialsInFile(key, path) = {cred}
      <4>1. PICK h : h = files[path].credHelpers[key]
        OBVIOUS
      <4>2. ~Auth!isNamespaced(key) /\ key \in DOMAIN stores[h] /\ stores[h][key] = cred
        BY <2>2, <2>4, <3>1, <4>1
      <4> QED BY <1>2, <3>1, <4>1, <4>2, HelperEntryIsFound
    <3>2. ASSUME key \notin DOMAIN files[path].credHelpers PROVE Auth!findCredentialsInFile(key, path) = {cred}
      <4>1. Auth!Registry(key) \notin DOMAIN files[path].credHelpers
        BY <1>2, <2>3, <3>2, OwnRegistry
      <4>2. key \in DOMAIN files[path].auths /\ files[path].auths[key] = cred
        BY <2>2, <2>4, <3>2
      <4> QED BY <1>2, <2>2, <4>1, <4>2, OwnEntryIsFound
    <3>3. Auth!findCredentialsInFile(key, path) = {cred}
      BY <3>1, <3>2
    <3> QED BY <1>1, <1>2, <1>3, <1>5, <2>2, <3>3, FirstFileDecides
  <2>5. CASE edited # key
    <3>1. mode = "compat" /\ key = Auth!Key(<<"docker.io">>) /\ edited = Auth!DockerHubURL
      BY <2>1, <2>5 DEF EditedKey
    <3>2. /\ {key, Auth!DockerHubURL} \cap DOMAIN files[path].credHelpers = {}
          /\ ~\E k \in DOMAIN files[path].auths :
                k # Auth!DockerHubURL /\ Auth!normalizeAuthFileKey(k, FALSE) = <<"index.docker.io">>
      BY <1>1, <1>3, <1>5, <3>1 DEF Auth!Shadowed
    <3>3. Auth!DockerHubURL \in DOMAIN files[path].auths /\ files[path].auths[Auth!DockerHubURL] = cred
      BY <2>2, <3>1, <3>2
    <3>4. Auth!findCredentialsInFile(key, path) = {cred}
      BY <1>2, <2>2, <3>1, <3>2, <3>3, HubEntryIsFound
    <3> QED BY <1>1, <1>2, <1>3, <1>5, <2>2, <3>4, FirstFileDecides
  <2> QED BY <2>4, <2>5
<1> QED BY <1>4, <1>5

(* It is the first helper of a lookup that has credentials.                *)
LEMMA LookupFindsLogin ==
  ASSUME AuthInvariant, NEW la, Recorded(la, helpers, mode, files, stores), ~Auth!Shadowed(la.key)
  PROVE  Auth!Lookup(la.key) = {la.cred}
<1>1. PICK key, cred : key = la.key /\ cred = la.cred
  OBVIOUS
<1> DEFINE has(i) == Auth!Found(helpers[i], key)
<1>2. PICK i \in DOMAIN helpers : has(i) = {cred} /\ \A j \in 1..(i - 1) : has(j) = {Auth!NoCred}
  <2>1. /\ 1 \in DOMAIN helpers /\ cred # Auth!NoCred
        /\ IF helpers[1] = Auth!AuthFile \/ mode = "compat" THEN Auth!getCredentialsFromAuthFiles(key) = {cred}
           ELSE Auth!Stored(helpers[1], Auth!Registry(key)) = cred
    <3>1. helpers \in HelperLists
      BY DEF AuthInvariant
    <3>2. Len(helpers) \in Nat \ {0} /\ DOMAIN helpers = 1..Len(helpers)
      BY <3>1, AuthAssumption
    <3>3. 1 \in DOMAIN helpers
      BY <3>2
    <3> QED BY <1>1, <3>3, LoginFollows
  <2>2. CASE mode # "compat"
    <3>1. has(1) = {cred}
      BY <2>1, <2>2 DEF Auth!Found
    <3>2. 1..(1 - 1) = {}
      OBVIOUS
    <3> QED BY <2>1, <3>1, <3>2
  <2>3. CASE mode = "compat"
    <3>1. PICK i \in DOMAIN helpers :
            /\ helpers[i] = Auth!AuthFile
            /\ \A j \in 1..(i - 1) : helpers[j] # Auth!AuthFile /\ Auth!Stored(helpers[j], Auth!Registry(key)) = Auth!NoCred
      BY <1>1, <2>3 DEF Auth!Shadowed
    <3>2. has(i) = {cred} /\ \A j \in 1..(i - 1) : has(j) = {Auth!NoCred}
      BY <2>1, <2>3, <3>1 DEF Auth!Found
    <3> QED BY <3>2
  <2> QED BY <2>2, <2>3
<1>3. cred # Auth!NoCred /\ DOMAIN helpers = 1..Len(helpers) /\ Len(helpers) \in Nat
  BY <1>1, LoginFollows, AuthAssumption DEF AuthInvariant
<1>4. ASSUME NEW k \in DOMAIN helpers, \A j \in 1..(k - 1) : Auth!NoCred \in has(j), has(k) \ {Auth!NoCred} # {}
      PROVE  k = i
  <2> HIDE DEF has
  <2>1. i \in Nat \ {0} /\ k \in Nat \ {0}
    BY <1>3
  <2>2. ~(i < k)
    BY <1>2, <1>3, <1>4, <2>1
  <2>3. ~(k < i)
    BY <1>2, <1>4, <2>1
  <2> QED BY <2>1, <2>2, <2>3
<1>5. \A j \in 1..(i - 1) : Auth!NoCred \in has(j)
  BY <1>2
<1>6. UNION {has(m) \ {Auth!NoCred} : m \in {k \in DOMAIN helpers : \A j \in 1..(k - 1) : Auth!NoCred \in has(j)}} = {cred}
  <2> HIDE DEF has
  <2>1. ASSUME NEW m \in DOMAIN helpers, \A j \in 1..(m - 1) : Auth!NoCred \in has(j), NEW c \in has(m) \ {Auth!NoCred}
        PROVE  c = cred
    <3>1. m = i
      BY <1>4, <2>1
    <3> QED BY <1>2, <2>1, <3>1
  <2>2. cred \in has(i) \ {Auth!NoCred}
    BY <1>2, <1>3
  <2> QED BY <1>2, <1>5, <2>1, <2>2
<1> QED BY <1>1, <1>6 DEF Auth!Lookup

(* The invariant has the property.                                         *)
LEMMA AuthFollows == AuthInvariant => Auth!CredentialsAreSound
<1> SUFFICES ASSUME AuthInvariant PROVE Auth!CredentialsAreSound
  OBVIOUS
<1>1. Auth!TypeOK
  <2>1. operations \in 0..MaxOperations
    <3>1. MaxOperations \in Nat
      BY AuthAssumption
    <3>2. operations \in Nat /\ operations <= MaxOperations
      BY DEF AuthInvariant
    <3> QED BY <3>1, <3>2
  <2>2. \A p \in Processes : authProc[p].pc \in {"idle", "run", "write"}
    BY DEF AuthInvariant, OperationOK
  <2>3. ASSUME NEW h \in Auth!ExternalHelpers, NEW k \in DOMAIN stores[h] PROVE stores[h][k].path # <<>>
    <3>1. Auth!BelongsTo(stores[h][k], k, FALSE)
      BY DEF AuthInvariant, StoresOK
    <3>2. Len(stores[h][k].path) >= 1
      BY <3>1 DEF Auth!BelongsTo
    <3>3. Len(<<>>) = 0
      OBVIOUS
    <3> QED BY <3>2, <3>3
  <2>4. helpers \in HelperLists /\ mode \in AuthModes
    BY DEF AuthInvariant
  <2> QED BY <2>1, <2>2, <2>3, <2>4 DEF Auth!TypeOK
<1>2. Auth!CredentialsStayWithTheRegistry
  <2>1. ASSUME NEW key \in LoginKeys, NEW c \in Auth!getCredentialsFromAuthFiles(key) \ {Auth!NoCred} PROVE Auth!Covers(c, key)
    <3>1. IsKey(key)
      BY AuthAssumption DEF IsKey
    <3> QED BY <2>1, <3>1, FoundCovers
  <2>2. (last.op = "get" /\ last.result = "ok") => Auth!Covers(last.cred, last.key)
    BY DEF AuthInvariant, LookedUp
  <2> QED BY <2>1, <2>2 DEF Auth!CredentialsStayWithTheRegistry
<1>3. Auth!LoginIsEffective
  <2>1. ASSUME last.op = "set", last.result = "ok", last.clean, \A p \in Processes : authProc[p].pc = "idle",
               ~Auth!Shadowed(last.key)
        PROVE  Auth!Lookup(last.key) = {last.cred}
    <3>1. Recorded(last, helpers, mode, files, stores)
      BY <2>1 DEF AuthInvariant, LoggedIn
    <3> QED BY <2>1, <3>1, LookupFindsLogin
  <2> QED BY <2>1 DEF Auth!LoginIsEffective
<1>4. Auth!DockerFileIsKept
  BY DEF AuthInvariant, DockerKept, SameRest, Auth!DockerFileIsKept
<1> QED BY <1>1, <1>2, <1>3, <1>4 DEF Auth!CredentialsAreSound

(* Whatever processes log in and out and look credentials up, in whatever  *)
(* order their reads and writes of the files and helpers come              *)
(* (SetCredentials, RemoveAuthentication, RemoveAllAuthentication,         *)
(* getCredentialsWithHomeDir): a registry is only given credentials that   *)
(* were made for it, a login without an error is what a lookup finds next, *)
(* and docker's file keeps what is not an entry of "auths".                *)
THEOREM CredentialsSound == Spec => []CredentialsAreSound
<1> DEFINE Inv == part = "auth" => AuthInvariant
<1>1. Init => Inv
  BY AuthInitially DEF Init, authInit
<1>2. Inv /\ [Next]_vars => Inv'
  <2> SUFFICES ASSUME Inv, [Next]_vars, part' = "auth" PROVE AuthInvariant'
    OBVIOUS
  <2>1. CASE UNCHANGED <<part, authVars>>
    BY <2>1 DEF AuthInvariant, authVars
  <2>2. CASE AuthStep
    BY <2>2, AuthNext DEF AuthStep
  <2>3. CASE ConfStep \/ PullStep \/ UNCHANGED vars
    <3>1. UNCHANGED <<part, authVars>>
      BY <2>3 DEF ConfStep, PullStep, vars
    <3> QED BY <2>1, <3>1
  <2> QED BY <2>2, <2>3 DEF Next
<1>3. Inv => CredentialsAreSound
  BY AuthFollows DEF CredentialsAreSound
<1> QED BY <1>1, <1>2, <1>3, PTL DEF Spec
=============================================================================
