---------------------------- MODULE FrontendProofs -----------------------------
(***************************************************************************)
(* What gotwebfe promises, for every number of files, changes, restarts,   *)
(* page loads and loaders, from one inductive invariant.                   *)
(***************************************************************************)
EXTENDS Frontend, SequenceTheorems, FiniteSetTheorems, TLAPS

-----------------------------------------------------------------------------
(* The inductive invariant.                                                *)

\* A worker was made of what was there, and its script says so.
MadeOf(w, wasm, dat) ==
  /\ w.script.wasm = w.wasm /\ w.script.dat = w.dat
  /\ w.wasm <= wasm /\ w.dat <= dat
Known(w) == MadeOf(w, disk[Wasm], loaded)
NotAfter(v, w) == v.wasm <= w.wasm /\ v.dat <= w.dat

\* Files are only replaced by later ones, as often as they may be, and gotweb has
\* read one of them.
Growing ==
  /\ \A f \in Files : disk[f] + left["replace"] <= 1 + MaxChanges
  /\ loaded <= disk[Dat]

\* A request for a file that is told by its version has the tag of one that was
\* there, and the copy it names is good.
Told == {Wasm, Dat, Pic}
Tagged ==
  \A who \in Who, f \in Told :
    req[who] # None /\ req[who].file = f =>
      /\ req[who].tag <= disk[f]
      /\ req[who].copy # None => req[who].copy.tag <= req[who].copy.body

\* Workers come in the order of their versions.
Ordered ==
  /\ active # None => Known(active)
  /\ installing # None => Known(installing.worker)
  /\ active # None /\ installing # None =>
       /\ NotAfter(active, installing.worker)
       /\ active.script # installing.worker.script
  /\ under # None => active # None

\* A worker that the active one has not come before.
Past(w) == active # None /\ w \in Workers /\ Known(w) /\ NotAfter(w, active)

\* The page waits for what it downloads, and it and others have asked through
\* workers of the past.
PageAsks ==
  /\ lock \in Routines => Opening(lock)
  /\ req["page"] # None => Downloads(req["page"].file)
  /\ \A who \in Pages : req[who] # None /\ req[who].by # None => Past(req[who].by)

\* So have those whose answers have not been put into a cache.
PutsPast == \A p \in DOMAIN puts : Past(p.by) /\ p.body # Absent

\* A worker that is installed waits for a file it wants, as new as its script.
WorkerAsks ==
  req["worker"] # None =>
    /\ installing # None /\ req["worker"].file \in installing.wants
    /\ req["worker"].file = Wasm => installing.worker.wasm <= req["worker"].tag
    /\ req["worker"].file = Dat => installing.worker.dat <= req["worker"].tag

\* The caches of a worker are there.
Opened(w) == Exists(AppName(w)) /\ Exists(DataName(w))

\* The caches of the active worker are the oldest.
OwnFirst ==
  \A i, j \in DOMAIN caches :
    caches[i].name \in Names(active) /\ caches[j].name \notin Names(active) => i < j

\* Each file is in caches of its kind; the active worker's caches are there and
\* come first; an installation does not add to what they have.
Kind(f) == IF f \in DataFiles THEN "data" ELSE "app"
Shelved ==
  /\ \A i \in DOMAIN caches, f \in Files :
       caches[i].has[f] # Absent => caches[i].name[1] = Kind(f)
  /\ active # None => Opened(active) /\ OwnFirst
  /\ installing # None => Opened(installing.worker)
  /\ active # None /\ installing # None =>
       \A f \in installing.wants : NameFor(installing.worker, f) # NameFor(active, f)

\* As long as no installation was broken off, there are the caches of the active
\* and of the next worker; all but what the next one still wants is in them, as new
\* as their names if gotweb was asked; and no page asks for anything through a worker.
Whole ==
  ~ brokeOff =>
    /\ \A i \in DOMAIN caches :
         \/ active # None /\ caches[i].name \in Names(active)
         \/ installing # None /\ caches[i].name \in Names(installing.worker)
    /\ \A i \in DOMAIN caches, f \in Range(Listed) :
         /\ caches[i].name[1] = Kind(f)
         /\ caches[i].has[f] = Absent
         => /\ installing # None /\ f \in installing.wants
            /\ caches[i].name = NameFor(installing.worker, f)
    /\ \A i \in DOMAIN caches, f \in {Wasm, Dat} :
         caches[i].has[f] # Absent /\ f \notin unasked => caches[i].name[2] <= caches[i].has[f]
    /\ \A who \in Pages : req[who] # None => req[who].by = None
    /\ req["page"] # None => under = None
    /\ DOMAIN puts = {}

\* What was opened of a file is what is kept of it.
Kept ==
  \A f \in Files : opened[f] \subseteq {kept[f]} /\ (kept[f] = Absent => opened[f] = {})

IInv ==
  /\ TypeOK /\ OneOfAName /\ CopyNotOlder
  /\ Growing /\ Tagged /\ Ordered /\ PageAsks /\ PutsPast /\ WorkerAsks
  /\ Shelved /\ Whole /\ WorksOffline /\ Kept

-----------------------------------------------------------------------------
(* Names, and what caches are like after a step.                           *)

\* The names of a worker's caches, by kind.
LEMMA NameFacts ==
  ASSUME NEW w \in Workers
  PROVE  /\ AppName(w) \in {"app", "data"} \X Version /\ DataName(w) \in {"app", "data"} \X Version
         /\ AppName(w)[1] = "app" /\ AppName(w)[2] = w.script.wasm
         /\ DataName(w)[1] = "data" /\ DataName(w)[2] = w.script.dat
         /\ AppName(w) # DataName(w)
         /\ \A f \in Files : NameFor(w, f) \in Names(w) /\ NameFor(w, f)[1] = Kind(f)
         /\ \A f \in Files, name \in Names(w) : name[1] = Kind(f) => name = NameFor(w, f)
         /\ \A f \in Files : NameFor(w, f) \in {"app", "data"} \X Version
         /\ NameFor(w, Wasm) = AppName(w) /\ NameFor(w, Dat) = DataName(w)
<1>1. w.script \in [wasm : Version, dat : Version]
  BY DEF Workers
<1>2. w.script.wasm \in Version /\ w.script.dat \in Version
  BY <1>1
<1>3. Wasm \notin DataFiles /\ Dat \in DataFiles
  BY FilesAssumption
<1> QED BY <1>2, <1>3 DEF AppName, DataName, Names, NameFor, Kind

\* Min of a set of positions.
LEMMA MinOfPositions ==
  ASSUME NEW S, S \subseteq Nat, S # {}
  PROVE  Min(S) \in S /\ \A x \in S : Min(S) <= x
<1> DEFINE Below == {1..x : x \in S}
           R == StrictSubsetOrdering(Nat)
<1>1. \A x \in Nat : 1..x \in FiniteSubsetsOf(Nat)
  BY FS_Interval DEF FiniteSubsetsOf
<1>2. Below \subseteq FiniteSubsetsOf(Nat) /\ Below # {}
  BY <1>1
<1>3. \A x, y \in Nat : y < x => <<1..y, 1..x>> \in R
  <2>1. \A x, y \in Nat : y < x => x \in 1..x /\ x \notin 1..y /\ 1..y \subseteq 1..x
    OBVIOUS
  <2>2. \A x \in Nat : 1..x \in SUBSET Nat
    OBVIOUS
  <2> QED BY <2>1, <2>2 DEF StrictSubsetOrdering
<1>4. IsWellFoundedOn(R, FiniteSubsetsOf(Nat))
  BY FS_StrictSubsetOrderingWellFounded
<1> HIDE DEF R
<1>5. PICK u \in Below : \A z \in Below : ~ (<<z, u>> \in R)
  BY ONLY <1>2, <1>4, WFMin
<1>6. PICK x \in S : u = 1..x
  BY <1>5
<1>7. \A y \in S : ~ (<<1..y, 1..x>> \in R)
  BY <1>5, <1>6
<1>8. \A y \in S : x <= y
  <2>1. \A y \in S : y \in Nat /\ x \in Nat
    BY <1>6
  <2>2. \A y \in S : ~ (y < x)
    BY ONLY <1>3, <1>7, <2>1, Zenon
  <2> QED BY <2>1, <2>2
<1> QED BY <1>8 DEF Min

\* The first cache that has a file.
LEMMA FirstFacts ==
  ASSUME NEW cs \in Seq(Stores), NEW f \in Files
  PROVE  /\ Holding(cs, f) = {} => FirstOf(cs, f) = Absent
         /\ Holding(cs, f) # {} => \E i \in DOMAIN cs :
              /\ FirstOf(cs, f) = cs[i].has[f] /\ cs[i].has[f] # Absent
              /\ \A j \in DOMAIN cs : cs[j].has[f] # Absent => i <= j
         /\ FirstOf(cs, f) \in Version
         /\ FirstOf(cs, f) = Absent => \A j \in DOMAIN cs : cs[j].has[f] = Absent
<1>1. CASE Holding(cs, f) = {}
  BY <1>1, BoundsAssumption DEF Holding, FirstOf, Absent, Version
<1>2. CASE Holding(cs, f) # {}
  <2> DEFINE m == Min(Holding(cs, f))
  <2>1. Holding(cs, f) \subseteq Nat
    BY DEF Holding
  <2>2. m \in Holding(cs, f) /\ \A x \in Holding(cs, f) : m <= x
    BY <1>2, <2>1, MinOfPositions
  <2>3. m \in DOMAIN cs /\ cs[m].has[f] # Absent /\ FirstOf(cs, f) = cs[m].has[f]
    BY <1>2, <2>2 DEF Holding, FirstOf
  <2>4. \A j \in DOMAIN cs : cs[j].has[f] # Absent => m <= j
    BY <2>2 DEF Holding
  <2>5. cs[m] \in Stores
    BY <2>3, ElementOfSeq
  <2>6. cs[m].has[f] \in Version
    BY <2>5 DEF Stores
  <2> HIDE DEF m
  <2> QED BY <1>2, <2>3, <2>4, <2>6
<1> QED BY <1>1, <1>2

\* What the caches are after v was put there for f.
PutInto(ds, name, f, v) ==
  /\ ds \in Seq(Stores) /\ DOMAIN caches \subseteq DOMAIN ds
  /\ \A i \in DOMAIN caches : ds[i].name = caches[i].name
  /\ \A i \in DOMAIN caches, g \in Files :
       ds[i].has[g] = IF caches[i].name = name /\ g = f THEN v ELSE caches[i].has[g]
  /\ \A i \in DOMAIN ds \ DOMAIN caches :
       /\ ~ Exists(name) /\ ds[i].name = name
       /\ \A g \in Files : ds[i].has[g] = IF g = f THEN v ELSE Absent
       /\ \A j \in DOMAIN caches : j < i
       /\ \A j \in DOMAIN ds \ DOMAIN caches : i = j

\* What is put into a cache is in it, and nothing else changes.
LEMMA PutFacts ==
  ASSUME caches \in Seq(Stores), NEW name \in {"app", "data"} \X Version,
         NEW f \in Files, NEW v \in Version
  PROVE  PutInto(Put(name, f, v), name, f, v)
<1> SUFFICES ASSUME NEW ds, ds = Put(name, f, v)
             PROVE  PutInto(ds, name, f, v)
  OBVIOUS
<1> USE DEF PutInto
<1>1. CASE Exists(name)
  <2>1. ds = [i \in DOMAIN caches |->
               IF caches[i].name = name THEN [caches[i] EXCEPT !.has[f] = v] ELSE caches[i]]
    BY <1>1 DEF Put
  <2>2. ASSUME NEW i \in DOMAIN caches
        PROVE  /\ ds[i] \in Stores /\ ds[i].name = caches[i].name
               /\ \A g \in Files :
                    ds[i].has[g] = IF caches[i].name = name /\ g = f THEN v ELSE caches[i].has[g]
    <3>1. caches[i] \in Stores
      BY <2>2, ElementOfSeq
    <3>2. caches[i].has \in [Files -> Version]
      BY <3>1 DEF Stores
    <3>3. CASE caches[i].name = name
      <4>1. ds[i] = [caches[i] EXCEPT !.has = [caches[i].has EXCEPT ![f] = v]]
        BY <2>1, <3>3
      <4>2. [caches[i].has EXCEPT ![f] = v] \in [Files -> Version]
        BY <3>2
      <4>3. ds[i].name = caches[i].name /\ ds[i].has = [caches[i].has EXCEPT ![f] = v]
        BY <3>1, <4>1 DEF Stores
      <4>4. ds[i] \in Stores
        BY <3>1, <4>1, <4>2 DEF Stores
      <4> QED BY <3>2, <3>3, <4>3, <4>4
    <3>4. CASE caches[i].name # name
      BY <2>1, <3>1, <3>4
    <3> QED BY <3>3, <3>4
  <2>3. DOMAIN ds = DOMAIN caches
    BY <2>1
  <2>4. Len(caches) \in Nat /\ DOMAIN caches = 1..Len(caches)
    BY LenProperties
  <2>5. ds \in [1..Len(caches) -> Stores]
    BY <2>1, <2>2, <2>4
  <2>6. ds \in Seq(Stores)
    BY <2>4, <2>5, SeqDef
  <2> QED BY <2>2, <2>3, <2>6
<1>2. CASE ~ Exists(name)
  <2> DEFINE new == [name |-> name, has |-> [Nothing EXCEPT ![f] = v]]
  <2>1. ds = Append(caches, new)
    BY <1>2 DEF Put
  <2>2. Nothing \in [Files -> Version]
    BY BoundsAssumption DEF Nothing, Version, Absent
  <2>3. new.name = name /\ new \in Stores
        /\ \A g \in Files : new.has[g] = IF g = f THEN v ELSE Absent
    BY <2>2 DEF Stores, Nothing
  <2> HIDE DEF new
  <2>4. /\ ds \in Seq(Stores) /\ Len(ds) = Len(caches) + 1
        /\ \A i \in 1..Len(caches) : ds[i] = caches[i]
        /\ ds[Len(caches) + 1] = new
    BY <2>1, <2>3, AppendProperties
  <2>5. DOMAIN caches = 1..Len(caches) /\ DOMAIN ds = 1..Len(caches) + 1 /\ Len(caches) \in Nat
    BY <2>4, LenProperties
  <2>6. \A i \in DOMAIN ds \ DOMAIN caches : i = Len(caches) + 1
    BY <2>5
  <2>7. \A i \in DOMAIN caches : caches[i].name # name /\ i < Len(caches) + 1 /\ ds[i] = caches[i]
    BY <1>2, <2>4, <2>5 DEF Exists, ExistsIn
  <2>8. DOMAIN caches \subseteq DOMAIN ds
    BY <2>5
  <2> QED BY <1>2, <2>3, <2>4, <2>6, <2>7, <2>8
<1> QED BY <1>1, <1>2

\* ds is cs and behind it an empty cache, if it is new.
Adds(cs, ds, name) ==
  /\ ds \in Seq(Stores) /\ DOMAIN cs \subseteq DOMAIN ds
  /\ \A i \in DOMAIN cs : ds[i] = cs[i]
  /\ \A i \in DOMAIN ds \ DOMAIN cs :
       /\ ~ Exists(name) /\ ds[i].name = name /\ ds[i].has = Nothing
       /\ \A j \in DOMAIN cs : j < i
       /\ \A j \in DOMAIN ds \ DOMAIN cs : i = j
  /\ ~ Exists(name) => \E i \in DOMAIN ds : ds[i].name = name

\* A cache that is opened is added at the end, if it is new.
LEMMA FreshFacts ==
  ASSUME NEW cs \in Seq(Stores), NEW name \in {"app", "data"} \X Version
  PROVE  Adds(cs, cs \o Fresh(name), name)
<1> SUFFICES ASSUME NEW ds, ds = cs \o Fresh(name)
             PROVE  Adds(cs, ds, name)
  OBVIOUS
<1> USE DEF Adds
<1>1. CASE Exists(name)
  <2>1. ds = cs
    BY <1>1, ConcatEmptySeq DEF Fresh
  <2> QED BY <1>1, <2>1
<1>2. CASE ~ Exists(name)
  <2> DEFINE new == [name |-> name, has |-> Nothing]
  <2>1. new \in Stores /\ new.name = name /\ new.has = Nothing
    BY BoundsAssumption DEF Nothing, Version, Absent, Stores
  <2>2. Fresh(name) = <<new>>
    BY <1>2 DEF Fresh
  <2> HIDE DEF new
  <2>3. ds = Append(cs, new)
    BY <2>1, <2>2, AppendIsConcat
  <2>4. /\ ds \in Seq(Stores) /\ Len(ds) = Len(cs) + 1
        /\ \A i \in 1..Len(cs) : ds[i] = cs[i]
        /\ ds[Len(cs) + 1] = new
    BY <2>1, <2>3, AppendProperties
  <2>5. DOMAIN cs = 1..Len(cs) /\ DOMAIN ds = 1..Len(cs) + 1 /\ Len(cs) \in Nat
    BY <2>4, LenProperties
  <2>6. \A i \in DOMAIN ds \ DOMAIN cs : i = Len(cs) + 1
    BY <2>5
  <2>7. \A i \in DOMAIN cs : i < Len(cs) + 1 /\ ds[i] = cs[i]
    BY <2>4, <2>5
  <2>8. DOMAIN cs \subseteq DOMAIN ds /\ Len(cs) + 1 \in DOMAIN ds
    BY <2>5
  <2> QED BY <1>2, <2>1, <2>4, <2>6, <2>7, <2>8
<1> QED BY <1>1, <1>2

\* What the caches are after w has opened its own.
OpenedBy(ds, w) ==
  /\ ds \in Seq(Stores) /\ DOMAIN caches \subseteq DOMAIN ds
  /\ \A i \in DOMAIN caches : ds[i] = caches[i]
  /\ \A i \in DOMAIN ds \ DOMAIN caches :
       /\ ~ Exists(ds[i].name) /\ ds[i].name \in Names(w) /\ ds[i].has = Nothing
       /\ \A j \in DOMAIN caches : j < i
  /\ \A i, j \in DOMAIN ds \ DOMAIN caches : ds[i].name = ds[j].name => i = j
  /\ ExistsIn(ds, AppName(w)) /\ ExistsIn(ds, DataName(w))

\* Opening the caches of a worker leaves the others where they are.
LEMMA OpenFacts ==
  ASSUME caches \in Seq(Stores), NEW w \in Workers
  PROVE  OpenedBy(caches \o Fresh(AppName(w)) \o Fresh(DataName(w)), w)
<1> SUFFICES ASSUME NEW ds, ds = caches \o Fresh(AppName(w)) \o Fresh(DataName(w))
             PROVE  OpenedBy(ds, w)
  OBVIOUS
<1> USE DEF OpenedBy
<1> DEFINE cs == caches \o Fresh(AppName(w))
           a == AppName(w)
           d == DataName(w)
<1>1. a \in {"app", "data"} \X Version /\ d \in {"app", "data"} \X Version /\ a # d
      /\ a \in Names(w) /\ d \in Names(w)
  BY NameFacts DEF Names
<1>2. Adds(caches, cs, a)
  BY <1>1, FreshFacts
<1>3. Adds(cs, ds, d)
  <2>1. cs \in Seq(Stores)
    BY <1>2 DEF Adds
  <2> QED BY <1>1, <2>1, FreshFacts
<1> HIDE DEF cs
<1> USE DEF Adds
<1> HIDE DEF a, d
<1>4. DOMAIN caches \subseteq DOMAIN ds /\ \A i \in DOMAIN caches : ds[i] = caches[i]
  BY <1>2, <1>3
<1>5. ASSUME NEW i \in DOMAIN ds \ DOMAIN caches
      PROVE  /\ ~ Exists(ds[i].name) /\ ds[i].name \in Names(w) /\ ds[i].has = Nothing
             /\ \A j \in DOMAIN caches : j < i
             /\ ds[i].name = IF i \in DOMAIN cs THEN a ELSE d
  <2>1. CASE i \in DOMAIN cs
    <3>1. ds[i] = cs[i] /\ i \in DOMAIN cs \ DOMAIN caches
      BY <1>3, <1>5, <2>1
    <3> QED BY <1>1, <1>2, <2>1, <3>1
  <2>2. CASE i \notin DOMAIN cs
    <3>1. i \in DOMAIN ds \ DOMAIN cs
      BY <1>5, <2>2
    <3> QED BY <1>1, <1>2, <1>3, <2>2, <3>1
  <2> QED BY <2>1, <2>2
<1>6. ASSUME NEW i \in DOMAIN ds \ DOMAIN caches, NEW j \in DOMAIN ds \ DOMAIN caches,
             ds[i].name = ds[j].name
      PROVE  i = j
  <2>1. i \in DOMAIN cs <=> j \in DOMAIN cs
    BY <1>1, <1>5, <1>6
  <2> QED BY <1>2, <1>3, <2>1
<1>7. ExistsIn(ds, a) /\ ExistsIn(ds, d)
  <2>1. \E i \in DOMAIN cs : cs[i].name = a
    BY <1>2, Zenon DEF Exists, ExistsIn
  <2>2. \E i \in DOMAIN ds : ds[i].name = d
    BY <1>3, <1>4, Zenon DEF Exists, ExistsIn
  <2>3. \E i \in DOMAIN ds : ds[i].name = a
    BY <1>3, <2>1, Zenon
  <2> QED BY <2>2, <2>3 DEF ExistsIn
<1>8. ds \in Seq(Stores)
  BY <1>3
<1> QED BY ONLY <1>4, <1>5, <1>6, <1>7, <1>8, Zenon DEF a, d

\* Two elements in a row are a sequence.
LEMMA PairIsSequence ==
  ASSUME NEW S, NEW x \in S, NEW y \in S
  PROVE  <<x, y>> \in Seq(S)
OBVIOUS

\* What the caches are after all but those of w were deleted.
LeftTo(ds, w) ==
  /\ ds \in Seq(Stores)
  /\ \A i \in DOMAIN ds : ds[i].name \in Names(w) /\ \E k \in DOMAIN caches : ds[i] = caches[k]
  /\ \A i, j \in DOMAIN ds : ds[i].name = ds[j].name => i = j
  /\ ExistsIn(ds, AppName(w)) /\ ExistsIn(ds, DataName(w))

\* What is left of the caches are those of the worker.
LEMMA CachesOfFacts ==
  ASSUME caches \in Seq(Stores), NEW w \in Workers, Opened(w)
  PROVE  LeftTo(CachesOf(w), w)
<1> SUFFICES ASSUME NEW ds, ds = CachesOf(w)
             PROVE  LeftTo(ds, w)
  OBVIOUS
<1> USE DEF LeftTo
<1> DEFINE a == Place(AppName(w))
           d == Place(DataName(w))
<1>1. a \in DOMAIN caches /\ caches[a].name = AppName(w)
  BY DEF Place, Opened, Exists, ExistsIn
<1>2. d \in DOMAIN caches /\ caches[d].name = DataName(w)
  BY DEF Place, Opened, Exists, ExistsIn
<1>3. AppName(w) # DataName(w) /\ AppName(w) \in Names(w) /\ DataName(w) \in Names(w)
  BY NameFacts DEF Names
<1>4. caches[a] \in Stores /\ caches[d] \in Stores
  BY <1>1, <1>2, ElementOfSeq
<1>5. ds = <<caches[a], caches[d]>> \/ ds = <<caches[d], caches[a]>>
  BY DEF CachesOf
<1> HIDE DEF a, d
<1> DEFINE ca == caches[a]
           cd == caches[d]
<1>6. ds \in Seq(Stores)
  BY <1>4, <1>5, PairIsSequence
<1> HIDE DEF ca, cd
<1>7. ca \in Stores /\ cd \in Stores /\ (ds = <<ca, cd>> \/ ds = <<cd, ca>>)
      /\ ca.name = AppName(w) /\ cd.name = DataName(w)
      /\ \E k \in DOMAIN caches : ca = caches[k]
      /\ \E h \in DOMAIN caches : cd = caches[h]
  BY <1>1, <1>2, <1>4, <1>5 DEF ca, cd
<1>8. /\ DOMAIN ds = {1, 2}
      /\ (ds[1] = ca /\ ds[2] = cd) \/ (ds[1] = cd /\ ds[2] = ca)
  <2>1. CASE ds = <<ca, cd>>
    BY ONLY <2>1
  <2>2. CASE ds = <<cd, ca>>
    BY ONLY <2>2
  <2> QED BY <1>7, <2>1, <2>2
<1>9. \A i \in DOMAIN ds : ds[i] = ca \/ ds[i] = cd
  BY ONLY <1>8
<1>10. \A i, j \in DOMAIN ds : ds[i].name = ds[j].name => i = j
  BY ONLY <1>3, <1>7, <1>8
<1>11. ExistsIn(ds, AppName(w)) /\ ExistsIn(ds, DataName(w))
  BY ONLY <1>7, <1>8 DEF ExistsIn
<1>12. \A i \in DOMAIN ds : ds[i].name \in Names(w) /\ \E k \in DOMAIN caches : ds[i] = caches[k]
  BY ONLY <1>3, <1>7, <1>9
<1> QED BY ONLY <1>6, <1>10, <1>11, <1>12

-----------------------------------------------------------------------------
(* Requests and answers.                                                   *)

\* A worker asks for a file it wants.
LEMMA UpcomingWanted ==
  ASSUME TypeOK, installing # None, installing.wants # {}
  PROVE  Upcoming \in installing.wants /\ Upcoming \in Files
<1> DEFINE S == {i \in DOMAIN Listed : Listed[i] \in installing.wants}
<1>1. installing.wants \subseteq Range(Listed)
  BY DEF Installations, TypeOK
<1>2. S \subseteq Nat /\ S # {}
  <2>1. PICK f \in installing.wants : f \in Range(Listed)
    BY <1>1
  <2>2. PICK i \in DOMAIN Listed : f = Listed[i]
    BY <2>1 DEF Range
  <2>3. DOMAIN Listed \subseteq Nat
    BY ListedAssumption
  <2> QED BY <2>1, <2>2, <2>3
<1>3. Min(S) \in S
  BY <1>2, MinOfPositions
<1>4. Upcoming \in installing.wants
  BY <1>3 DEF Upcoming
<1>5. Upcoming \in Range(Listed)
  BY <1>1, <1>4
<1>6. \A i \in DOMAIN Listed : Listed[i] \in Files
  BY ListedAssumption, ElementOfSeq
<1>7. Range(Listed) \subseteq Files
  BY <1>6 DEF Range
<1> QED BY <1>4, <1>5, <1>7

\* What happens by itself happens once less often.
LEMMA EventFacts ==
  ASSUME TypeOK, NEW kind \in Kinds, Event(kind)
  PROVE  /\ left' \in [Kinds -> Nat] /\ left[kind] > 0 /\ left'[kind] = left[kind] - 1
         /\ kind # "replace" => left'["replace"] = left["replace"]
BY DEF TypeOK, Event, Kinds

\* One of a bag more or less.
LEMMA BagFacts ==
  ASSUME NEW B, NEW x
  PROVE  /\ DOMAIN (B (+) SetToBag({x})) = DOMAIN B \cup {x}
         /\ DOMAIN (B (-) SetToBag({x})) \subseteq DOMAIN B
<1>1. DOMAIN (B (+) SetToBag({x})) = DOMAIN B \cup {x}
  BY DEF (+), SetToBag
<1>2. DOMAIN (B (-) SetToBag({x})) \subseteq DOMAIN B
  BY DEF (-), SetToBag
<1> QED BY <1>1, <1>2

\* What is asked, and that its tag is that of a file that was there.
LEMMA AskFacts ==
  ASSUME TypeOK, Growing, Tagged, CopyNotOlder, NEW who \in Who, NEW f \in Files, Ask(who, f)
  PROVE  /\ req' \in [Who -> Requests \cup {None}]
         /\ req'[who] = [file |-> f, tag |-> Tag(f), copy |-> copy[f], by |-> active,
                        lost |-> FALSE]
         /\ \A other \in Who \ {who} : req'[other] = req[other]
         /\ Tag(Wasm) = disk[Wasm] /\ Tag(Dat) = loaded
<1> DEFINE r == [file |-> f, tag |-> Tag(f), copy |-> copy[f], by |-> active, lost |-> FALSE]
<1>1. Tag(Wasm) = disk[Wasm] /\ Tag(Dat) = loaded
  BY FilesAssumption DEF Tag
<1>2. Tag(f) \in Version
  BY BoundsAssumption DEF Tag, TypeOK, Version
<1>3. r \in Requests
  BY <1>2 DEF TypeOK, Requests
<1> HIDE DEF r
<1>4. req' = [req EXCEPT ![who] = r] /\ req \in [Who -> Requests \cup {None}]
  BY DEF Ask, TypeOK, r
<1> QED BY <1>1, <1>3, <1>4 DEF r

\* What a handler answers with is as new as the tag.
LEMMA BodyFacts ==
  ASSUME TypeOK, Tagged, NEW who \in Who, req[who] # None
  PROVE  /\ Body(req[who]) \in Version /\ TagOf(req[who].file, req[who].tag) \in Version
         /\ req[who].file \in Told =>
              /\ TagOf(req[who].file, req[who].tag) = req[who].tag
              /\ req[who].tag <= Body(req[who])
<1> DEFINE r == req[who]
<1>1. r \in Requests
  BY DEF TypeOK
<1>2. /\ r.file \in Files /\ r.tag \in Version
      /\ r.copy # None => r.copy \in Copies
  BY <1>1 DEF Requests
<1>3. r.copy # None => r.copy.tag \in Version /\ r.copy.body \in Version
  BY <1>2 DEF Copies
<1>4. disk[r.file] \in Version
  BY <1>2 DEF TypeOK
<1>5. r.file \in Told => r.tag <= disk[r.file] /\ (r.copy # None => r.copy.tag <= r.copy.body)
  BY DEF Tagged
<1>6. r.file \in Told => TagOf(r.file, r.tag) = r.tag
  BY DEF Told, TagOf, HasTag
<1>7. TagOf(r.file, r.tag) \in Version
  BY <1>2, <1>4 DEF TagOf
<1>8. Body(r) = IF r.copy # None /\ r.copy.tag = TagOf(r.file, r.tag) THEN r.copy.body ELSE disk[r.file]
  BY DEF Body
<1> HIDE DEF r
<1>9. Body(r) \in Version
  BY <1>3, <1>4, <1>8
<1>10. r.file \in Told => r.tag <= Body(r)
  BY <1>5, <1>6, <1>8
<1> QED BY <1>6, <1>7, <1>9, <1>10 DEF r

\* What an answer does.
LEMMA AnswersFacts ==
  ASSUME TypeOK, Tagged, CopyNotOlder, NEW who \in Who, NEW v \in Version, Answers(who, v)
  PROVE  /\ req[who] # None /\ req[who] \in Requests
         /\ req' \in [Who -> Requests \cup {None}] /\ req'[who] = None
         /\ \A other \in Who \ {who} : req'[other] = req[other]
         /\ who = "worker" /\ v # Absent /\ req[who].file \in Told =>
              req[who].file \in unasked' \/ req[who].tag <= v
         /\ unasked \subseteq unasked' /\ unasked' \subseteq Files
         /\ left' \in [Kinds -> Nat] /\ left'["replace"] = left["replace"]
         /\ copy' \in [Files -> Copies \cup {None}] /\ CopyNotOlder'
<1> DEFINE r == req[who]
<1>1. r # None /\ req' = [req EXCEPT ![who] = None]
  BY DEF Answers
<1>2. r \in Requests /\ req \in [Who -> Requests \cup {None}] /\ r.file \in Files
  BY <1>1 DEF TypeOK, Requests
<1>3. /\ req' \in [Who -> Requests \cup {None}] /\ req'[who] = None
      /\ \A other \in Who \ {who} : req'[other] = req[other]
  BY <1>1, <1>2
<1>4. unasked \subseteq Files /\ left \in [Kinds -> Nat]
  BY DEF TypeOK
<1>5. copy' = copy => CopyNotOlder' /\ copy' \in [Files -> Copies \cup {None}]
  BY DEF CopyNotOlder, TypeOK
<1> DEFINE c == [tag |-> TagOf(r.file, r.tag), body |-> v]
<1>6. CASE /\ ~ r.lost /\ v = Body(r) /\ UNCHANGED <<unasked, left>>
           /\ copy' = IF v = Absent THEN copy ELSE [copy EXCEPT ![r.file] = c]
  <2>1. r.file \in Told => r.tag <= v /\ c.tag <= c.body
    BY <1>1, <1>6, BodyFacts
  <2>2. CASE v = Absent
    BY <1>1, <1>2, <1>3, <1>4, <1>5, <1>6, <2>2
  <2>3. CASE v # Absent
    <3>1. c \in Copies
      BY <1>1, BodyFacts DEF Copies
    <3> HIDE DEF c
    <3>2. /\ copy' \in [Files -> Copies \cup {None}] /\ copy'[r.file] = c
          /\ \A f \in Files \ {r.file} : copy'[f] = copy[f]
      BY <1>2, <1>6, <2>3, <3>1 DEF TypeOK
    <3>3. Told \subseteq Files
      BY FilesAssumption DEF Told, Files
    <3>4. ASSUME NEW f \in Told, copy'[f] # None
          PROVE  copy'[f].body >= copy'[f].tag
      <4>1. CASE f = r.file
        <5>1. c.tag <= c.body /\ c.tag \in Int /\ c.body \in Int
          BY <2>1, <3>1, <4>1, BoundsAssumption DEF Copies, Version
        <5> QED BY <3>2, <4>1, <5>1
      <4>2. CASE f # r.file
        <5>1. copy'[f] = copy[f]
          BY <3>2, <3>3, <4>2
        <5> QED BY <3>4, <5>1 DEF CopyNotOlder, Told
      <4> QED BY <4>1, <4>2
    <3>5. CopyNotOlder'
      BY <3>4 DEF CopyNotOlder, Told
    <3> QED BY <1>1, <1>2, <1>3, <1>4, <1>6, <2>1, <3>2, <3>5
  <2> QED BY <2>2, <2>3
<1>7. CASE /\ unasked' = IF who = "worker" THEN unasked \cup {r.file} ELSE unasked
           /\ UNCHANGED <<copy, left>>
  BY <1>1, <1>2, <1>3, <1>4, <1>5, <1>7
<1>8. CASE v = Absent /\ (IF r.lost THEN UNCHANGED left ELSE Event("lose"))
           /\ UNCHANGED <<copy, unasked>>
  <2>1. left' \in [Kinds -> Nat] /\ left'["replace"] = left["replace"]
    <3>1. "lose" \in Kinds /\ "lose" # "replace"
      BY DEF Kinds
    <3> QED BY <1>4, <1>8, <3>1, EventFacts
  <2> QED BY <1>1, <1>2, <1>3, <1>4, <1>5, <1>8, <2>1
<1> QED BY <1>6, <1>7, <1>8 DEF Answers

\* What an answer to a page does besides.
LEMMA FetchFacts ==
  ASSUME TypeOK, Tagged, CopyNotOlder, NEW who \in Pages, NEW v \in Version,
         FetchAnswers(who, v)
  PROVE  /\ who \in Who /\ Answers(who, v) /\ DOMAIN puts' \subseteq Fetched
         /\ req[who].file \in Files /\ req[who].by \in Workers \cup {None}
         /\ \A p \in DOMAIN puts' \ DOMAIN puts :
              /\ v # Absent /\ req[who].by # None
              /\ p.by = req[who].by /\ p.file = req[who].file /\ p.body = v
<1> DEFINE r == req[who]
           p == [by |-> r.by, file |-> r.file, body |-> v]
<1>1. who \in Who /\ Answers(who, v)
  BY DEF Who, FetchAnswers
<1>2. r.file \in Files /\ r.by \in Workers \cup {None}
  BY <1>1, AnswersFacts DEF Requests
<1>3. puts' = IF v # Absent /\ r.by # None THEN puts (+) SetToBag({p}) ELSE puts
  BY DEF FetchAnswers
<1>4. DOMAIN puts \subseteq Fetched
  BY DEF TypeOK
<1>5. CASE v # Absent /\ r.by # None
  <2>1. p \in Fetched
    BY <1>2, <1>5 DEF Fetched
  <2>2. p.by = r.by /\ p.file = r.file /\ p.body = v
    OBVIOUS
  <2> HIDE DEF p
  <2>3. DOMAIN puts' = DOMAIN puts \cup {p}
    BY <1>3, <1>5, BagFacts
  <2> QED BY <1>1, <1>2, <1>4, <1>5, <2>1, <2>2, <2>3
<1>6. CASE ~ (v # Absent /\ r.by # None)
  BY <1>1, <1>2, <1>3, <1>4, <1>6
<1> QED BY <1>5, <1>6

\* What is opened is listed.
LEMMA OpensFacts ==
  /\ Range(Listed) \subseteq Files /\ {Wasm, Dat, Spr} \subseteq Range(Listed)
  /\ \A l \in Routines : Opens(l) \in Seq(Range(Listed))
  /\ \A l \in Routines : Len(Opens(l)) \in Nat /\ DOMAIN Opens(l) = 1..Len(Opens(l))
<1>1. \A i \in DOMAIN Listed : Listed[i] \in Files
  BY ListedAssumption, ElementOfSeq
<1>2. Range(Listed) \subseteq Files
  BY <1>1 DEF Range
<1>3. <<Spr>> \in Seq(Range(Listed))
  BY ListedAssumption
<1>4. Append(Needed \o Needed, Outfits) \in Seq(Range(Listed))
  BY LoadersAssumption, ConcatProperties, AppendProperties
<1>5. \A l \in Routines : Opens(l) \in Seq(Range(Listed))
  BY <1>3, <1>4 DEF Opens
<1>6. \A l \in Routines : Len(Opens(l)) \in Nat /\ DOMAIN Opens(l) = 1..Len(Opens(l))
  BY <1>5, LenProperties
<1> QED BY <1>2, <1>5, <1>6, ListedAssumption

\* What a page downloads is what a worker lists.
LEMMA DownloadsListed ==
  ASSUME PageAsks, NEW f, Downloads(f)
  PROVE  f \in Range(Listed)
<1>1. CASE f = Wasm
  BY <1>1, OpensFacts
<1>2. CASE lock \in Routines /\ f = Opens(lock)[step[lock]]
  <2>1. step[lock] \in DOMAIN Opens(lock)
    BY <1>2 DEF PageAsks, Opening
  <2>2. Opens(lock) \in Seq(Range(Listed))
    BY <1>2, OpensFacts
  <2> QED BY <1>2, <2>1, <2>2, ElementOfSeq
<1> QED BY <1>1, <1>2 DEF Downloads

\* What of a page has to do with downloads.
PageTyped ==
  /\ page \in {"none", "boot", "running", "dead"}
  /\ lock \in Routines \cup {Nobody, Leaked}
  /\ kept \in [Files -> Version] /\ opened \in [Files -> SUBSET Version]
  /\ step \in [Routines -> Nat] /\ \A l \in Routines : step[l] <= Len(Opens(l)) + 1

\* A goroutine that has opened a file, or has not, goes on to the next or waits.
LEMMA StepOn ==
  ASSUME TypeOK, PageAsks, lock \in Routines, NEW n \in {step[lock], step[lock] + 1},
         NEW new, new = [step EXCEPT ![lock] = n]
  PROVE  new \in [Routines -> Nat] /\ \A l \in Routines : new[l] <= Len(Opens(l)) + 1
<1>1. step \in [Routines -> Nat] /\ \A l \in Routines : step[l] <= Len(Opens(l)) + 1
  BY DEF TypeOK
<1>2. step[lock] \in 1..Len(Opens(lock)) /\ Len(Opens(lock)) \in Nat
  BY OpensFacts DEF PageAsks, Opening
<1>3. new[lock] = n /\ \A l \in Routines \ {lock} : new[l] = step[l]
  BY <1>1
<1>4. n \in Nat /\ n <= Len(Opens(lock)) + 1
  BY <1>2
<1> QED BY <1>1, <1>3, <1>4

\* A file that comes is kept if it is the first, and what is kept is returned.
LEMMA GotFacts ==
  ASSUME TypeOK, PageAsks, Kept, NEW f \in Files, Downloads(f),
         NEW v \in Version, v # Absent \/ kept[f] # Absent, Got(f, v)
  PROVE  PageTyped' /\ Kept' /\ page' # "dead" /\ (lock' \in Routines => Opening(lock)')
         /\ (lock' = Leaked => lock = Leaked)
<1>1. CASE page = "boot"
  BY <1>1 DEF Got, TypeOK, PageTyped, Kept, PageAsks, Opening
<1>2. CASE page # "boot"
  <2> DEFINE body == IF kept[f] # Absent THEN kept[f] ELSE v
  <2>1. page = "running" /\ lock \in Routines
    BY <1>2 DEF Downloads
  <2>2. /\ kept' = [kept EXCEPT ![f] = body] /\ opened' = [opened EXCEPT ![f] = @ \cup {body}]
        /\ step' = [step EXCEPT ![lock] = @ + 1] /\ lock' = Nobody /\ page' = page
    BY <1>2 DEF Got
  <2>3. body \in Version /\ body # Absent /\ (kept[f] # Absent => body = kept[f])
    BY DEF TypeOK
  <2> HIDE DEF body
  <2>4. /\ kept' \in [Files -> Version] /\ kept'[f] = body
        /\ \A g \in Files \ {f} : kept'[g] = kept[g]
    BY <2>2, <2>3 DEF TypeOK
  <2>5. /\ opened' \in [Files -> SUBSET Version] /\ opened'[f] = opened[f] \cup {body}
        /\ \A g \in Files \ {f} : opened'[g] = opened[g]
    BY <2>2, <2>3 DEF TypeOK
  <2>6. opened[f] \subseteq {body}
    BY <2>3 DEF Kept
  <2>7. ASSUME NEW g \in Files
        PROVE  opened'[g] \subseteq {kept'[g]} /\ (kept'[g] = Absent => opened'[g] = {})
    <3>1. CASE g = f
      BY <2>3, <2>4, <2>5, <2>6, <3>1
    <3>2. CASE g # f
      BY <2>4, <2>5, <3>2 DEF Kept
    <3> QED BY <3>1, <3>2
  <2>8. Kept'
    BY <2>7 DEF Kept
  <2>9. step' \in [Routines -> Nat] /\ \A l \in Routines : step'[l] <= Len(Opens(l)) + 1
    <3>1. step' = [step EXCEPT ![lock] = step[lock] + 1]
      BY <2>2
    <3> QED BY <2>1, <3>1, StepOn
  <2>10. lock' \notin Routines /\ lock' # Leaked
    BY <2>2, LoadersAssumption DEF Nobody, Leaked
  <2> QED BY <2>1, <2>2, <2>4, <2>5, <2>8, <2>9, <2>10 DEF PageTyped
<1> QED BY <1>1, <1>2

\* A download that fails leaves what was kept; the lock stays taken or the page dies.
LEMMA FailedFacts ==
  ASSUME TypeOK, PageAsks, NEW f \in Files, Downloads(f), NEW error, Failed(error)
  PROVE  PageTyped' /\ failed' \in BOOLEAN /\ kept' = kept /\ opened' = opened
         /\ (lock' \in Routines => Opening(lock)')
<1>1. CASE page = "boot" \/ error
  BY <1>1 DEF Failed, TypeOK, PageTyped, PageAsks, Opening
<1>2. CASE ~ (page = "boot" \/ error)
  <2> DEFINE n == IF step[lock] < Len(Opens(lock)) THEN step[lock] + 1 ELSE step[lock]
  <2>1. lock \in Routines /\ step' = [step EXCEPT ![lock] = n] /\ lock' = Leaked
        /\ page' = page /\ kept' = kept /\ opened' = opened /\ failed' = TRUE
    BY <1>2 DEF Failed, Downloads
  <2>2. n \in {step[lock], step[lock] + 1}
    OBVIOUS
  <2> HIDE DEF n
  <2>4. step' \in [Routines -> Nat] /\ \A l \in Routines : step'[l] <= Len(Opens(l)) + 1
    BY <2>1, <2>2, StepOn
  <2>3. lock' \notin Routines
    BY <2>1, LoadersAssumption
  <2> QED BY <2>1, <2>3, <2>4 DEF PageTyped, TypeOK
<1> QED BY <1>1, <1>2

-----------------------------------------------------------------------------
(* Types, and one cache of a name.                                         *)

Unique(ds) == \A i, j \in DOMAIN ds : ds[i].name = ds[j].name => i = j

\* Putting, opening and deleting leave one cache of a name.
LEMMA StillUnique ==
  ASSUME OneOfAName, NEW ds
  PROVE  /\ \A name, f, v : PutInto(ds, name, f, v) => Unique(ds)
         /\ \A w : OpenedBy(ds, w) => Unique(ds)
         /\ \A w : LeftTo(ds, w) => Unique(ds)
<1>1. ASSUME NEW name, NEW f, NEW v, PutInto(ds, name, f, v),
             NEW i \in DOMAIN ds, NEW j \in DOMAIN ds, ds[i].name = ds[j].name
      PROVE  i = j
  <2>1. CASE i \in DOMAIN caches /\ j \in DOMAIN caches
    BY <1>1, <2>1 DEF PutInto, OneOfAName
  <2>2. CASE i \notin DOMAIN caches /\ j \notin DOMAIN caches
    BY <1>1, <2>2 DEF PutInto
  <2>3. CASE i \in DOMAIN caches /\ j \notin DOMAIN caches
    BY <1>1, <2>3 DEF PutInto, Exists, ExistsIn
  <2>4. CASE i \notin DOMAIN caches /\ j \in DOMAIN caches
    BY <1>1, <2>4 DEF PutInto, Exists, ExistsIn
  <2> QED BY <2>1, <2>2, <2>3, <2>4
<1>2. ASSUME NEW w, OpenedBy(ds, w),
             NEW i \in DOMAIN ds, NEW j \in DOMAIN ds, ds[i].name = ds[j].name
      PROVE  i = j
  <2>1. CASE i \in DOMAIN caches /\ j \in DOMAIN caches
    BY <1>2, <2>1 DEF OpenedBy, OneOfAName
  <2>2. CASE i \notin DOMAIN caches /\ j \notin DOMAIN caches
    BY <1>2, <2>2 DEF OpenedBy
  <2>3. CASE i \in DOMAIN caches /\ j \notin DOMAIN caches
    BY <1>2, <2>3 DEF OpenedBy, Exists, ExistsIn
  <2>4. CASE i \notin DOMAIN caches /\ j \in DOMAIN caches
    BY <1>2, <2>4 DEF OpenedBy, Exists, ExistsIn
  <2> QED BY <2>1, <2>2, <2>3, <2>4
<1>3. ASSUME NEW w, LeftTo(ds, w)
      PROVE  Unique(ds)
  BY <1>3 DEF LeftTo, Unique
<1> QED BY <1>1, <1>2, <1>3, Zenon DEF Unique

\* A worker that is installed is made of what is there, and opens its caches.
LEMMA UpdateTyped ==
  ASSUME IInv, Update
  PROVE  /\ installing' \in Installations
         /\ installing'.worker \in Workers
         /\ installing'.worker = [script |-> Script, wasm |-> disk[Wasm], dat |-> loaded]
         /\ installing'.wants = Wanted(installing'.worker)
         /\ OpenedBy(caches', installing'.worker)
<1> DEFINE w == [script |-> Script, wasm |-> disk[Wasm], dat |-> loaded]
<1>1. w \in Workers
  BY FilesAssumption DEF IInv, TypeOK, Workers, Script, Files
<1>2. caches' = caches \o Fresh(AppName(w)) \o Fresh(DataName(w))
  BY DEF Update
<1>3. installing' = [worker |-> w, wants |-> Wanted(w)]
  BY DEF Update
<1> HIDE DEF w
<1>4. Wanted(w) \subseteq Range(Listed)
  BY DEF Wanted
<1>5. OpenedBy(caches', w)
  BY <1>1, <1>2, OpenFacts DEF IInv, TypeOK
<1> QED BY <1>1, <1>3, <1>4, <1>5 DEF Installations, w

\* The caches that a put leaves.
LEMMA PutTyped ==
  ASSUME TypeOK, OneOfAName, NEW w \in Workers, NEW f \in Files, NEW v \in Version,
         caches' = Put(NameFor(w, f), f, v)
  PROVE  /\ PutInto(caches', NameFor(w, f), f, v)
         /\ caches' \in Seq(Stores) /\ OneOfAName'
<1> DEFINE name == NameFor(w, f)
<1>1. name \in {"app", "data"} \X Version /\ caches \in Seq(Stores)
  BY NameFacts DEF TypeOK
<1> HIDE DEF name
<1>2. PutInto(Put(name, f, v), name, f, v)
  BY <1>1, PutFacts
<1>3. PutInto(caches', NameFor(w, f), f, v)
  BY <1>2 DEF name
<1>4. OneOfAName'
  BY <1>3, StillUnique DEF Unique, OneOfAName
<1> QED BY <1>3, <1>4 DEF PutInto

\* Steps keep the types, and one cache of a name.
LEMMA TypeStep ==
  ASSUME IInv, Next
  PROVE  TypeOK' /\ OneOfAName'
<1> USE DEF IInv
<1>0. {"replace", "restart", "install", "load", "start", "aside", "lose"} = Kinds
  BY DEF Kinds
<1>1. CASE Navigate
  <2>1. req' \in [Who -> Requests \cup {None}]
    <3>1. req \in [Who -> Requests \cup {None}] /\ req["page"] \in Requests \cup {None}
      BY DEF TypeOK, Who, Pages
    <3>2. CASE req' = [req EXCEPT !["page"] = None]
      BY <3>1, <3>2
    <3>3. ASSUME NEW o \in Others, req' = [req EXCEPT !["page"] = None, ![o] = req["page"]]
          PROVE  req' \in [Who -> Requests \cup {None}]
      BY <3>1, <3>3
    <3> QED BY <1>1, <3>2, <3>3 DEF Navigate
  <2>2. kept' \in [Files -> Version] /\ opened' \in [Files -> SUBSET Version]
    BY <1>1, BoundsAssumption DEF Navigate, Nothing, Version, Absent
  <2>3. step' \in [Routines -> Nat] /\ \A l \in Routines : step'[l] <= Len(Opens(l)) + 1
    BY <1>1, OpensFacts DEF Navigate
  <2>4. left' \in [Kinds -> Nat]
    BY <1>0, <1>1, EventFacts DEF Navigate
  <2>5. lock' \in Routines \cup {Nobody, Leaked} /\ page' \in {"none", "boot", "running", "dead"}
        /\ under' \in Workers \cup {None} /\ {brokeOff', failed'} \subseteq BOOLEAN
    BY <1>1 DEF Navigate, TypeOK
  <2>6. TypeOK'
    BY <1>1, <2>1, <2>2, <2>3, <2>4, <2>5 DEF Navigate, TypeOK, serverVars
  <2> QED BY <1>1, <2>6 DEF Navigate, OneOfAName
<1>2. CASE Register
  <2>1. installing' \in Installations /\ caches' \in Seq(Stores)
        /\ OpenedBy(caches', installing'.worker)
    BY <1>2, UpdateTyped DEF Register, OpenedBy
  <2>2. OneOfAName'
    BY <2>1, StillUnique DEF Unique, OneOfAName
  <2>3. left' \in [Kinds -> Nat]
    BY <1>0, <1>2, EventFacts DEF Register, Update
  <2> QED BY <1>2, <2>1, <2>2, <2>3 DEF Register, Update, TypeOK, serverVars, pageVars
<1>3. CASE AskToAdd /\ UNCHANGED <<serverVars, pageVars>>
  <2>1. req' \in [Who -> Requests \cup {None}]
    BY <1>3, UpcomingWanted, AskFacts DEF AskToAdd, Who
  <2> QED BY <1>3, <2>1 DEF AskToAdd, TypeOK, OneOfAName, serverVars, pageVars
<1>4. ASSUME NEW v \in Version, Add(v), UNCHANGED <<serverVars, pageVars>>
      PROVE  TypeOK' /\ OneOfAName'
  <2>1. Answers("worker", v)
    BY <1>4 DEF Add
  <2>2. /\ req' \in [Who -> Requests \cup {None}] /\ left' \in [Kinds -> Nat]
        /\ copy' \in [Files -> Copies \cup {None}] /\ unasked' \subseteq Files
    BY <2>1, AnswersFacts DEF Who
  <2>3. CASE v = Absent
    BY <1>4, <2>2, <2>3 DEF Add, TypeOK, OneOfAName, serverVars, pageVars
  <2>4. CASE v # Absent
    <3> DEFINE w == installing.worker
               f == req["worker"].file
    <3>1. installing # None /\ installing \in Installations
          /\ f \in Files /\ w \in Workers
      BY <2>1, AnswersFacts DEF Installations, WorkerAsks, TypeOK, Requests, Who
    <3>2. /\ installing' = [installing EXCEPT !.wants = @ \ {f}]
          /\ caches' = Put(NameFor(w, f), f, v) /\ UNCHANGED <<brokeOff, active>>
      BY <1>4, <2>4 DEF Add
    <3>3. installing' \in Installations
      BY <3>1, <3>2 DEF Installations
    <3>4. caches' \in Seq(Stores) /\ OneOfAName'
      <4> HIDE DEF w, f
      <4> QED BY <3>1, <3>2, PutTyped
    <3> QED BY <1>4, <2>2, <3>2, <3>3, <3>4 DEF Add, TypeOK, serverVars, pageVars
  <2> QED BY <2>3, <2>4
<1>5. CASE Activate /\ UNCHANGED <<serverVars, pageVars>>
  <2>1. installing # None /\ installing.worker \in Workers /\ Opened(installing.worker)
    BY <1>5 DEF Installations, Activate, TypeOK, Shelved
  <2>2. LeftTo(caches', installing.worker)
    BY <1>5, <2>1, CachesOfFacts DEF Activate, TypeOK
  <2>3. caches' \in Seq(Stores) /\ OneOfAName'
    BY <2>2, StillUnique DEF LeftTo, Unique, OneOfAName
  <2> QED BY <1>5, <2>1, <2>3 DEF Activate, TypeOK, serverVars, pageVars
<1>6. ASSUME NEW f \in Changing, Replace(f), UNCHANGED <<workerVars, pageVars>>
      PROVE  TypeOK' /\ OneOfAName'
  <2>1. left' \in [Kinds -> Nat] /\ left["replace"] > 0 /\ left \in [Kinds -> Nat]
    BY <1>0, <1>6, EventFacts DEF Replace, TypeOK
  <2>2. f \in Files /\ disk \in [Files -> Version] /\ disk[f] + left["replace"] <= 1 + MaxChanges
    BY <1>6, FilesAssumption DEF TypeOK, Growing
  <2>3. disk[f] + 1 \in Version
    <3>1. disk[f] \in 0..1 + MaxChanges /\ left["replace"] \in Nat /\ MaxChanges \in Nat
      BY <1>0, <2>1, <2>2, BoundsAssumption DEF Version
    <3> QED BY <2>1, <2>2, <3>1 DEF Version
  <2>4. disk' \in [Files -> Version]
    BY <1>6, <2>2, <2>3 DEF Replace
  <2> QED BY <1>6, <2>1, <2>4 DEF Replace, TypeOK, OneOfAName, workerVars, pageVars
<1>7. CASE RestartGotweb /\ UNCHANGED pageVars
  <2>1. loaded' \in Version
    BY <1>7, FilesAssumption DEF RestartGotweb, Restart, TypeOK, Files
  <2>2. left' \in [Kinds -> Nat]
    BY <1>0, <1>7, EventFacts DEF RestartGotweb, Restart
  <2>3. ASSUME NEW who \in Who
        PROVE  (IF req[who] = None THEN None ELSE [req[who] EXCEPT !.lost = TRUE])
                 \in Requests \cup {None}
    BY DEF TypeOK, Requests
  <2>4. req' \in [Who -> Requests \cup {None}]
    BY <1>7, <2>3 DEF RestartGotweb
  <2> QED BY <1>7, <2>1, <2>2, <2>4 DEF RestartGotweb, Restart, TypeOK, OneOfAName, pageVars
<1>8. ASSUME NEW f \in Files, GetCached(f)
      PROVE  TypeOK' /\ OneOfAName'
  <2>1. Cached(f) \in Version
    BY FirstFacts DEF Cached, TypeOK
  <2>2. PageTyped'
    BY <1>8, <2>1, GotFacts DEF GetCached
  <2> QED BY <1>8, <2>2 DEF GetCached, TypeOK, PageTyped, OneOfAName, serverVars, workerVars
<1>9. ASSUME NEW f \in Files, Get(f)
      PROVE  TypeOK' /\ OneOfAName'
  <2>1. req' \in [Who -> Requests \cup {None}]
    BY <1>9, AskFacts DEF Get, Who, Pages
  <2> QED BY <1>9, <2>1 DEF Get, TypeOK, OneOfAName, serverVars, pageVars
<1>10. ASSUME NEW who \in Pages, NEW v \in Version, FetchAnswers(who, v)
       PROVE  /\ req' \in [Who -> Requests \cup {None}] /\ left' \in [Kinds -> Nat]
              /\ copy' \in [Files -> Copies \cup {None}] /\ unasked' \subseteq Files
              /\ DOMAIN puts' \subseteq Fetched
  BY <1>10, FetchFacts, AnswersFacts
<1>11. ASSUME NEW v \in Version, GetAnswer(v)
       PROVE  TypeOK' /\ OneOfAName'
  <2>1. "page" \in Pages /\ FetchAnswers("page", v)
    BY <1>11 DEF GetAnswer, Pages
  <2>2. PageTyped' /\ failed' \in BOOLEAN
    <3> DEFINE f == req["page"].file
    <3>1. f \in Files /\ Downloads(f)
      BY <2>1, FetchFacts, AnswersFacts DEF PageAsks
    <3>2. \/ \E error : Failed(error)
          \/ Got(f, v) /\ (v # Absent \/ kept[f] # Absent) /\ UNCHANGED failed
      BY <1>11 DEF GetAnswer
    <3> HIDE DEF f
    <3> QED BY <3>1, <3>2, GotFacts, FailedFacts DEF TypeOK
  <2> QED BY <1>10, <1>11, <2>1, <2>2 DEF GetAnswer, TypeOK, PageTyped, OneOfAName, serverVars
<1>12. ASSUME NEW l \in Routines, Start(l)
       PROVE  TypeOK' /\ OneOfAName'
  <2>1. step' \in [Routines -> Nat] /\ step'[l] = 1 /\ \A k \in Routines \ {l} : step'[k] = step[k]
    BY <1>12 DEF Start, TypeOK
  <2>2. 1 <= Len(Opens(l)) + 1 /\ \A k \in Routines : step[k] <= Len(Opens(k)) + 1
    BY OpensFacts DEF TypeOK
  <2>3. \A k \in Routines : step'[k] <= Len(Opens(k)) + 1
    BY ONLY <2>1, <2>2
  <2>4. left' \in [Kinds -> Nat]
    BY <1>0, <1>12, EventFacts DEF Start, TypeOK
  <2> QED BY <1>12, <2>1, <2>3, <2>4 DEF Start, TypeOK, OneOfAName, serverVars, workerVars
<1>13. ASSUME NEW l \in Routines, Lock(l)
       PROVE  TypeOK' /\ OneOfAName'
  BY <1>13 DEF Lock, TypeOK, OneOfAName, serverVars, workerVars
<1>14. ASSUME NEW p \in DOMAIN puts, StoreFetched(p), UNCHANGED <<serverVars, pageVars>>
       PROVE  TypeOK' /\ OneOfAName'
  <2>1. p \in Fetched /\ DOMAIN puts' \subseteq Fetched
    BY <1>14, BagFacts DEF StoreFetched, TypeOK
  <2>2. p.by \in Workers /\ p.file \in Files /\ p.body \in Version
    BY <2>1 DEF Fetched
  <2>3. caches' \in Seq(Stores) /\ OneOfAName'
    BY <1>14, <2>2, PutTyped DEF StoreFetched
  <2> QED BY <1>14, <2>1, <2>3 DEF StoreFetched, TypeOK, serverVars, pageVars
<1>15. ASSUME NEW who \in Others, NEW f \in Range(Listed), OtherAsks(who, f),
              UNCHANGED <<serverVars, pageVars>>
       PROVE  TypeOK' /\ OneOfAName'
  <2>1. req' \in [Who -> Requests \cup {None}]
    BY <1>15, AskFacts, OpensFacts DEF OtherAsks, Who, Pages
  <2>2. left' \in [Kinds -> Nat]
    BY <1>0, <1>15, EventFacts DEF OtherAsks
  <2> QED BY <1>15, <2>1, <2>2 DEF OtherAsks, TypeOK, OneOfAName, serverVars, pageVars
<1>16. ASSUME NEW who \in Others, NEW v \in Version, OtherAnswered(who, v),
              UNCHANGED <<serverVars, pageVars>>
       PROVE  TypeOK' /\ OneOfAName'
  BY <1>10, <1>16 DEF OtherAnswered, Pages, TypeOK, OneOfAName, serverVars, pageVars
<1> QED BY <1>1, <1>2, <1>3, <1>4, <1>5, <1>6, <1>7, <1>8, <1>9, <1>11, <1>12, <1>13, <1>14,
           <1>15, <1>16 DEF Next, Worker, OtherPages, Deploy, Downloading

-----------------------------------------------------------------------------
(* Versions only grow, and requests are as good as what they found.        *)

\* No file and no data of gotweb is replaced by an older one.
LEMMA ServerGrows ==
  ASSUME IInv, Next
  PROVE  /\ \A f \in Files : disk[f] <= disk'[f]
         /\ loaded <= loaded'
         /\ Growing'
<1> USE DEF IInv
<1>1. /\ disk \in [Files -> Nat] /\ loaded \in Nat /\ left["replace"] \in Nat
      /\ MaxChanges \in Nat
  BY BoundsAssumption DEF TypeOK, Version, Kinds
<1>2. CASE UNCHANGED <<disk, loaded>> /\ left'["replace"] = left["replace"]
  BY <1>1, <1>2 DEF Growing
<1>3. ASSUME NEW f \in Changing, Replace(f)
      PROVE  (\A g \in Files : disk[g] <= disk'[g]) /\ loaded <= loaded' /\ Growing'
  <2>1. /\ f \in Files /\ disk'[f] = disk[f] + 1 /\ \A g \in Files \ {f} : disk'[g] = disk[g]
        /\ loaded' = loaded
    BY <1>1, <1>3, FilesAssumption DEF Replace
  <2>2. left'["replace"] = left["replace"] - 1
    BY <1>3, EventFacts DEF Replace, Kinds
  <2>3. \A g \in Files : disk[g] \in Nat /\ disk[g] + left["replace"] <= 1 + MaxChanges
    BY <1>1 DEF Growing
  <2>4. \A g \in Files : /\ disk[g] <= disk'[g] /\ disk'[g] \in Nat
                         /\ disk'[g] + left'["replace"] <= 1 + MaxChanges
    BY ONLY <1>1, <2>1, <2>2, <2>3
  <2>5. Dat \in Files /\ loaded <= disk[Dat]
    BY FilesAssumption DEF Growing, Files
  <2>6. loaded' <= disk'[Dat]
    BY ONLY <1>1, <2>1, <2>3, <2>4, <2>5
  <2> QED BY <1>1, <2>1, <2>4, <2>6 DEF Growing
<1>4. ASSUME Restart
      PROVE  (\A g \in Files : disk[g] <= disk'[g]) /\ loaded <= loaded' /\ Growing'
  <2>1. left'["replace"] = left["replace"]
    BY <1>4, EventFacts DEF Restart, Kinds
  <2> QED BY <1>1, <1>4, <2>1, FilesAssumption DEF Restart, Growing, Files
<1>5. ASSUME NEW kind \in Kinds \ {"replace"}, Event(kind)
      PROVE  left'["replace"] = left["replace"]
  BY <1>5, EventFacts
<1>6. {"install", "load", "start", "aside", "lose"} \subseteq Kinds \ {"replace"}
  BY DEF Kinds
<1>7. ASSUME NEW who \in Who, NEW v \in Version, Answers(who, v)
      PROVE  left'["replace"] = left["replace"]
  BY <1>7, AnswersFacts
<1>8. CASE Navigate \/ Register \/ (\E l \in Routines : Start(l) \/ Lock(l))
  BY <1>2, <1>5, <1>6, <1>8 DEF Navigate, Register, Update, Start, Lock, serverVars
<1>9. CASE Worker
  BY <1>2, <1>7, <1>9 DEF Worker, AskToAdd, Add, Activate, StoreFetched, serverVars, Who
<1>10. CASE OtherPages
  BY <1>2, <1>5, <1>6, <1>7, <1>10 DEF OtherPages, OtherAsks, OtherAnswered, FetchAnswers, Who,
                                       Pages, serverVars
<1>11. CASE Downloading
  BY <1>2, <1>7, <1>11 DEF Downloading, GetCached, Get, GetAnswer, FetchAnswers, Who, Pages,
                           serverVars
<1>12. CASE Deploy
  BY <1>3, <1>4, <1>12 DEF Deploy, RestartGotweb
<1> QED BY <1>8, <1>9, <1>10, <1>11, <1>12 DEF Next

\* A request is answered or given up, goes on, is left to others, or is new.
AskedNow(who, f) ==
  /\ req[who] = None
  /\ req'[who] = [file |-> f, tag |-> Tag(f), copy |-> copy[f], by |-> active, lost |-> FALSE]
  /\ UNCHANGED <<disk, loaded, caches, active, installing, brokeOff, page, step, lock, under>>

GoesOn(who, one) ==
  /\ req[one] # None /\ req'[who] \in Requests
  /\ req'[who].file = req[one].file /\ req'[who].tag = req[one].tag
  /\ req'[who].copy = req[one].copy /\ req'[who].by = req[one].by

RequestStep(who) ==
  \/ req'[who] = None
  \/ GoesOn(who, who)
  \/ who \in Others /\ GoesOn(who, "page")
  \/ /\ who = "worker" /\ AskToAdd /\ AskedNow("worker", Upcoming)
     /\ Upcoming \in installing.wants /\ Upcoming \in Files
  \/ \E f \in Files : who = "page" /\ Get(f) /\ AskedNow("page", f)
  \/ \E f \in Range(Listed) : who \in Others /\ OtherAsks(who, f) /\ AskedNow(who, f)

\* A request keeps what it was made of until it is answered or given up.
LEMMA RequestSteps ==
  ASSUME IInv, Next, NEW who \in Who
  PROVE  RequestStep(who)
<1>1. TypeOK /\ Growing /\ Tagged /\ CopyNotOlder /\ req \in [Who -> Requests \cup {None}]
  BY DEF IInv, TypeOK
<1>2. ASSUME req'[who] = req[who]
      PROVE  RequestStep(who)
  BY <1>1, <1>2 DEF RequestStep, GoesOn
<1>3. CASE Navigate
  <2>1. CASE req' = [req EXCEPT !["page"] = None]
    BY <1>1, <1>2, <2>1 DEF RequestStep
  <2>2. ASSUME NEW o \in Others, req["page"] # None,
               req' = [req EXCEPT !["page"] = None, ![o] = req["page"]]
        PROVE  RequestStep(who)
    <3>1. o # "page" /\ o \in Who /\ "page" \in Who
      BY OthersAssumption DEF Who, Pages
    <3>2. CASE who = "page"
      BY <1>1, <2>2, <3>1, <3>2 DEF RequestStep
    <3>3. CASE who = o
      BY <1>1, <2>2, <3>1, <3>3 DEF RequestStep, GoesOn
    <3>4. CASE who # "page" /\ who # o
      BY <1>1, <1>2, <2>2, <3>1, <3>4
    <3> QED BY <3>2, <3>3, <3>4
  <2> QED BY <1>3, <2>1, <2>2 DEF Navigate
<1>4. ASSUME NEW one \in Who, NEW f \in Files, Ask(one, f), req[one] = None,
             UNCHANGED <<disk, loaded, caches, active, installing, brokeOff, page, step, lock, under>>
      PROVE  AskedNow(one, f) /\ (who # one => req'[who] = req[who])
  BY <1>1, <1>4, AskFacts DEF AskedNow
<1>5. CASE AskToAdd /\ UNCHANGED <<serverVars, pageVars>>
  <2>1. Upcoming \in installing.wants /\ Upcoming \in Files /\ Ask("worker", Upcoming)
    BY <1>1, <1>5, UpcomingWanted DEF AskToAdd
  <2>2. AskedNow("worker", Upcoming) /\ (who # "worker" => req'[who] = req[who])
    BY <1>4, <1>5, <2>1 DEF AskToAdd, Who, serverVars, pageVars
  <2> QED BY <1>2, <1>5, <2>1, <2>2 DEF RequestStep
<1>6. ASSUME NEW f \in Files, Get(f)
      PROVE  RequestStep(who)
  <2>1. AskedNow("page", f) /\ (who # "page" => req'[who] = req[who])
    BY <1>4, <1>6 DEF Get, Who, Pages, serverVars, pageVars
  <2> QED BY <1>2, <1>6, <2>1 DEF RequestStep
<1>7. ASSUME NEW one \in Others, NEW f \in Range(Listed), OtherAsks(one, f),
             UNCHANGED <<serverVars, pageVars>>
      PROVE  RequestStep(who)
  <2>1. AskedNow(one, f) /\ (who # one => req'[who] = req[who])
    BY <1>4, <1>7, OpensFacts DEF OtherAsks, Who, Pages, serverVars, pageVars
  <2> QED BY <1>2, <1>7, <2>1 DEF RequestStep
<1>8. ASSUME NEW v \in Version, NEW one \in Who, Answers(one, v)
      PROVE  RequestStep(who)
  BY <1>1, <1>2, <1>8, AnswersFacts DEF RequestStep
<1>9. CASE RestartGotweb
  <2>1. req'[who] = IF req[who] = None THEN None ELSE [req[who] EXCEPT !.lost = TRUE]
    BY <1>9 DEF RestartGotweb
  <2> QED BY <1>1, <2>1 DEF Requests, RequestStep, GoesOn
<1>10. CASE UNCHANGED req
  BY <1>2, <1>10
<1>11. CASE Worker
  <2>1. ASSUME NEW v \in Version, Add(v) PROVE RequestStep(who)
    BY <1>8, <2>1 DEF Add, Who
  <2>2. CASE Activate \/ \E p \in DOMAIN puts : StoreFetched(p)
    BY <1>10, <2>2 DEF Activate, StoreFetched
  <2> QED BY <1>5, <1>11, <2>1, <2>2 DEF Worker
<1>12. CASE Downloading
  <2>1. ASSUME NEW v \in Version, GetAnswer(v) PROVE RequestStep(who)
    BY <1>8, <2>1 DEF GetAnswer, FetchAnswers, Who, Pages
  <2>2. ASSUME NEW f \in Files, GetCached(f) PROVE RequestStep(who)
    BY <1>10, <2>2 DEF GetCached, workerVars
  <2> QED BY <1>6, <1>12, <2>1, <2>2 DEF Downloading
<1>13. CASE OtherPages
  <2>1. ASSUME NEW one \in Others, NEW v \in Version, OtherAnswered(one, v)
        PROVE  RequestStep(who)
    BY <1>8, <2>1 DEF OtherAnswered, FetchAnswers, Who, Pages
  <2> QED BY <1>7, <1>13, <2>1 DEF OtherPages
<1>14. Register \/ (\E l \in Routines : Start(l) \/ Lock(l)) => UNCHANGED req
  BY DEF Register, Update, Start, Lock, workerVars
<1>15. Deploy => RestartGotweb \/ UNCHANGED req
  BY DEF Deploy, workerVars
<1> QED BY <1>3, <1>9, <1>10, <1>11, <1>12, <1>13, <1>14, <1>15 DEF Next

\* Answers and requests keep copies as new as their tags.
LEMMA CopiesStep ==
  ASSUME IInv, Next
  PROVE  CopyNotOlder' /\ Tagged'
<1> USE DEF IInv
<1>1. CopyNotOlder'
  <2>1. CASE UNCHANGED copy
    BY <2>1 DEF CopyNotOlder
  <2>2. ASSUME NEW who \in Who, NEW v \in Version, Answers(who, v)
        PROVE  CopyNotOlder'
    BY <2>2, AnswersFacts
  <2>3. UNCHANGED copy \/ \E who \in Who, v \in Version : Answers(who, v)
    <3>1. Worker => UNCHANGED copy \/ \E who \in Who, v \in Version : Answers(who, v)
      BY DEF Worker, AskToAdd, Add, Activate, StoreFetched, Who
    <3>2. OtherPages => UNCHANGED copy \/ \E who \in Who, v \in Version : Answers(who, v)
      BY DEF OtherPages, OtherAsks, OtherAnswered, FetchAnswers, Who, Pages
    <3>3. Downloading => UNCHANGED copy \/ \E who \in Who, v \in Version : Answers(who, v)
      BY DEF Downloading, GetCached, Get, GetAnswer, FetchAnswers, workerVars, Who, Pages
    <3>4. Navigate \/ Register \/ Deploy \/ (\E l \in Routines : Start(l) \/ Lock(l))
            => UNCHANGED copy
      BY DEF Navigate, Register, Update, Deploy, RestartGotweb, Start, Lock, workerVars
    <3> QED BY <3>1, <3>2, <3>3, <3>4 DEF Next
  <2> QED BY <2>1, <2>2, <2>3
<1>2. ASSUME NEW who \in Who, NEW f \in Told, req'[who] # None, req'[who].file = f
      PROVE  /\ req'[who].tag <= disk'[f]
             /\ req'[who].copy # None => req'[who].copy.tag <= req'[who].copy.body
  <2>1. f \in Files /\ disk[f] \in Nat /\ disk[f] <= disk'[f] /\ disk'[f] \in Nat
    <3>1. f \in Files
      BY FilesAssumption DEF Told, Files
    <3>2. TypeOK'
      BY TypeStep
    <3>3. disk \in [Files -> Version] /\ disk' \in [Files -> Version]
      BY <3>2 DEF TypeOK
    <3>4. Version \subseteq Nat
      BY BoundsAssumption DEF Version
    <3>5. disk[f] <= disk'[f]
      BY <3>1, ServerGrows
    <3> QED BY ONLY <3>1, <3>3, <3>4, <3>5
  <2>2. ASSUME NEW one \in Who, GoesOn(who, one)
        PROVE  /\ req'[who].tag <= disk'[f]
               /\ req'[who].copy # None => req'[who].copy.tag <= req'[who].copy.body
    <3>1. req'[who].tag \in Nat
      BY <2>2, BoundsAssumption DEF GoesOn, Requests, Version
    <3>2. req[one].tag <= disk[f]
          /\ (req[one].copy # None => req[one].copy.tag <= req[one].copy.body)
      BY <1>2, <2>2 DEF Tagged, GoesOn
    <3> QED BY <2>1, <2>2, <3>1, <3>2 DEF GoesOn
  <2>3. ASSUME NEW g \in Files, AskedNow(who, g)
        PROVE  /\ req'[who].tag <= disk'[f]
               /\ req'[who].copy # None => req'[who].copy.tag <= req'[who].copy.body
    <3>1. g = f /\ req'[who].tag = Tag(f) /\ req'[who].copy = copy[f] /\ disk' = disk
      BY <1>2, <2>3 DEF AskedNow
    <3>2. Tag(f) <= disk[f]
      <4>1. Tag(Wasm) = disk[Wasm] /\ Tag(Dat) = loaded /\ Tag(Pic) = disk[Pic]
        BY FilesAssumption DEF Tag
      <4>2. loaded <= disk[Dat]
        BY DEF Growing
      <4> QED BY <2>1, <4>1, <4>2 DEF Told
    <3>3. copy[f] # None => copy[f].tag <= copy[f].body
      <4>1. copy[f] # None => copy[f] \in Copies
        BY <2>1 DEF TypeOK
      <4> QED BY <4>1, BoundsAssumption DEF CopyNotOlder, Told, Copies, Version
    <3> QED BY <3>1, <3>2, <3>3
  <2>4. "page" \in Who /\ "worker" \in Who
    BY DEF Who, Pages
  <2> QED BY <1>2, <2>2, <2>3, <2>4, RequestSteps, OpensFacts DEF RequestStep
<1> QED BY <1>1, <1>2 DEF Tagged

-----------------------------------------------------------------------------
(* The order of workers, and what is waited for.                           *)

\* What a worker knows it knows for good.
LEMMA KnownStays ==
  ASSUME IInv, Next, NEW w \in Workers, Known(w)
  PROVE  MadeOf(w, disk'[Wasm], loaded')
<1>1. TypeOK /\ TypeOK' /\ Wasm \in Files
  BY TypeStep, FilesAssumption DEF IInv, Files
<1>2. w.wasm \in Version /\ w.dat \in Version
  BY DEF Workers
<1>3. disk[Wasm] \in Version /\ disk'[Wasm] \in Version /\ loaded \in Version /\ loaded' \in Version
  BY <1>1 DEF TypeOK
<1>4. disk[Wasm] <= disk'[Wasm] /\ loaded <= loaded'
  BY <1>1, ServerGrows
<1>5. \A v \in Version : v \in Int
  BY BoundsAssumption DEF Version
<1>6. w.wasm <= disk[Wasm] /\ w.dat <= loaded
  BY DEF Known, MadeOf
<1>7. /\ w.wasm \in Int /\ w.dat \in Int /\ disk[Wasm] \in Int /\ disk'[Wasm] \in Int
      /\ loaded \in Int /\ loaded' \in Int
  BY <1>2, <1>3, <1>5
<1>8. w.wasm <= disk'[Wasm] /\ w.dat <= loaded'
  BY ONLY <1>4, <1>6, <1>7
<1> QED BY <1>8 DEF Known, MadeOf

\* The active worker stays, or the next one takes its place.
LEMMA ActiveSteps ==
  ASSUME IInv, Next
  PROVE  \/ UNCHANGED <<active, installing>>
         \/ Register /\ Update /\ active' = active
         \/ UNCHANGED active /\ installing # None /\ brokeOff' = TRUE /\ installing' = None
         \/ /\ installing # None /\ UNCHANGED <<active, brokeOff>>
            /\ installing' = [installing EXCEPT !.wants = @ \ {req["worker"].file}]
         \/ Activate
<1> DEFINE Goal == \/ UNCHANGED <<active, installing>>
                   \/ Register /\ Update /\ active' = active
                   \/ UNCHANGED active /\ installing # None /\ brokeOff' = TRUE /\ installing' = None
                   \/ /\ installing # None /\ UNCHANGED <<active, brokeOff>>
                      /\ installing' = [installing EXCEPT !.wants = @ \ {req["worker"].file}]
                   \/ Activate
<1>1. CASE UNCHANGED <<active, installing>>
  BY <1>1
<1>2. CASE Register
  BY <1>2 DEF Register, Update
<1>3. CASE Worker
  <2>1. ASSUME NEW v \in Version, Add(v) PROVE Goal
    <3>1. installing # None
      BY <2>1 DEF Add, Answers, IInv, WorkerAsks
    <3>2. CASE v = Absent
      BY <2>1, <3>1, <3>2 DEF Add
    <3>3. CASE v # Absent
      BY <2>1, <3>1, <3>3 DEF Add
    <3> QED BY <3>2, <3>3
  <2>2. AskToAdd \/ (\E p \in DOMAIN puts : StoreFetched(p)) => UNCHANGED <<active, installing>>
    BY DEF AskToAdd, StoreFetched
  <2> HIDE DEF Goal
  <2>3. Activate => Goal
    BY DEF Goal
  <2>4. UNCHANGED <<active, installing>> => Goal
    BY DEF Goal
  <2>5. Goal
    BY <1>3, <2>1, <2>2, <2>3, <2>4 DEF Worker
  <2> QED BY <2>5 DEF Goal
<1>4. CASE Navigate \/ OtherPages \/ Deploy \/ Downloading \/ \E l \in Routines : Start(l) \/ Lock(l)
  <2>1. UNCHANGED <<active, installing>>
    <3>1. /\ \A f \in Files : GetCached(f) \/ Get(f) => UNCHANGED <<active, installing>>
          /\ \A v \in Version : GetAnswer(v) => UNCHANGED <<active, installing>>
      BY DEF GetCached, Get, GetAnswer, workerVars
    <3>2. Downloading => UNCHANGED <<active, installing>>
      BY <3>1 DEF Downloading
    <3> QED BY <1>4, <3>2 DEF Navigate, OtherPages, OtherAsks, OtherAnswered, Deploy,
                            RestartGotweb, Start, Lock, workerVars
  <2> QED BY <1>1, <2>1
<1> HIDE DEF Goal
<1> QED BY <1>2, <1>3, <1>4 DEF Next, Goal

\* Workers still come in the order of their versions.
LEMMA OrderedStep ==
  ASSUME IInv, Next
  PROVE  Ordered'
<1>1. TypeOK /\ Ordered /\ WorkerAsks
  BY DEF IInv
<1>2. active # None =>
        active \in Workers /\ Known(active) /\ MadeOf(active, disk'[Wasm], loaded')
  BY <1>1, KnownStays DEF TypeOK, Ordered
<1>3. installing # None =>
        /\ installing.worker \in Workers /\ Known(installing.worker)
        /\ MadeOf(installing.worker, disk'[Wasm], loaded')
  BY <1>1, KnownStays DEF Installations, TypeOK, Ordered
<1>4. UNCHANGED under \/ (Navigate /\ under' = active /\ active' = active)
  <2>1. /\ \A f \in Files : GetCached(f) \/ Get(f) => UNCHANGED under
        /\ \A v \in Version : GetAnswer(v) => UNCHANGED under
    BY DEF GetCached, Get, GetAnswer, pageVars
  <2>2. Downloading => UNCHANGED under
    BY <2>1 DEF Downloading
  <2> QED BY <2>2 DEF Next, Navigate, Register, Worker, OtherPages, Deploy, Start, Lock, pageVars
<1>5. active # None => active' # None
  <2>1. Activate => active' \in Workers
    BY <1>3 DEF Activate
  <2> QED BY <2>1, ActiveSteps, NoneAssumption
<1>6. under' # None => active' # None
  BY <1>1, <1>4, <1>5 DEF Ordered
<1>7. CASE UNCHANGED <<active, installing>>
  BY <1>1, <1>2, <1>3, <1>6, <1>7 DEF Ordered, Known, NotAfter
<1>8. CASE Register /\ Update /\ active' = active
  <2> DEFINE w == installing'.worker
  <2>1. w = [script |-> Script, wasm |-> disk[Wasm], dat |-> loaded] /\ w \in Workers
        /\ disk' = disk /\ loaded' = loaded
    <3>1. disk' = disk /\ loaded' = loaded
      BY <1>8 DEF Register, serverVars
    <3> QED BY <1>8, <3>1, UpdateTyped
  <2>2. Known(w) /\ w.script = Script
    <3>1. disk[Wasm] \in Version /\ loaded \in Version /\ Version \subseteq Nat
      BY <1>1, FilesAssumption, BoundsAssumption DEF TypeOK, Files, Version
    <3>2. /\ w.script = Script /\ w.wasm = disk[Wasm] /\ w.dat = loaded
          /\ Script.wasm = disk[Wasm] /\ Script.dat = loaded
      BY ONLY <2>1 DEF Script
    <3>3. disk[Wasm] <= disk[Wasm] /\ loaded <= loaded
      <4>1. disk[Wasm] \in Nat /\ loaded \in Nat
        BY ONLY <3>1
      <4>2. \A n \in Nat : n <= n
        OBVIOUS
      <4> HIDE DEF w
      <4> QED BY ONLY <4>1, <4>2
    <3> HIDE DEF w
    <3> QED BY ONLY <3>2, <3>3 DEF Known, MadeOf
  <2>3. active # None => NotAfter(active, w) /\ active.script # w.script
    BY <1>2, <1>8, <2>1, <2>2 DEF Update, NotAfter, Known, MadeOf
  <2> HIDE DEF w
  <2>4. MadeOf(w, disk'[Wasm], loaded')
    BY <2>1, <2>2 DEF Known
  <2> QED BY <1>2, <1>6, <1>8, <2>3, <2>4 DEF Ordered, NotAfter, Known, w
<1>9. CASE UNCHANGED active /\ installing' = None
  BY <1>2, <1>6, <1>9 DEF Ordered, Known
<1>10. CASE /\ installing # None /\ UNCHANGED <<active, brokeOff>>
            /\ installing' = [installing EXCEPT !.wants = @ \ {req["worker"].file}]
  <2>1. installing'.worker = installing.worker
    BY <1>1, <1>10 DEF TypeOK
  <2> QED BY <1>1, <1>2, <1>3, <1>6, <1>10, <2>1 DEF Ordered, Known, NotAfter
<1>11. CASE Activate
  BY <1>3, <1>6, <1>11 DEF Activate, Ordered, Known
<1> QED BY <1>7, <1>8, <1>9, <1>10, <1>11, ActiveSteps

\* The past stays the past.
LEMMA PastStays ==
  ASSUME IInv, Next, NEW b, Past(b)
  PROVE  Past(b)'
<1>1. TypeOK /\ Ordered /\ active # None /\ b \in Workers /\ Known(b) /\ NotAfter(b, active)
  BY DEF IInv, Past
<1>2. MadeOf(b, disk'[Wasm], loaded')
  BY <1>1, KnownStays
<1>3. active' # None /\ NotAfter(b, active')
  <2>1. CASE active' = active
    BY <1>1, <2>1
  <2>2. CASE Activate
    <3> DEFINE w == installing.worker
    <3>1. w \in Workers /\ active' = w /\ NotAfter(active, w) /\ active \in Workers
      BY <1>1, <2>2 DEF Installations, Activate, Ordered, TypeOK
    <3> HIDE DEF w
    <3>2. /\ w.wasm \in Int /\ active.wasm \in Int /\ b.wasm \in Int
          /\ w.dat \in Int /\ active.dat \in Int /\ b.dat \in Int
      BY <1>1, <3>1, BoundsAssumption DEF Workers, Version
    <3>3. NotAfter(b, w)
      BY ONLY <1>1, <3>1, <3>2 DEF NotAfter
    <3> QED BY <3>1, <3>3, NoneAssumption
  <2> QED BY <2>1, <2>2, ActiveSteps
<1> QED BY <1>1, <1>2, <1>3 DEF Past, Known, NotAfter

\* Requests of pages, and what the page waits for.
LEMMA PageAsksStep ==
  ASSUME IInv, Next
  PROVE  PageAsks'
<1>1. TypeOK /\ PageAsks /\ Kept /\ Ordered /\ RequestStep("page")
  BY RequestSteps DEF IInv, Who, Pages
<1>2. (lock \in Routines => Opening(lock))
      /\ (req["page"] # None => Downloads(req["page"].file))
  BY <1>1 DEF PageAsks
<1> DEFINE Waits == /\ lock' \in Routines => Opening(lock)'
                    /\ req'["page"] # None => Downloads(req["page"].file)'
<1>3. ASSUME Navigate
      PROVE  Waits
  <2>1. req'["page"] = None /\ lock' \notin Routines
    BY <1>1, <1>3, LoadersAssumption, OthersAssumption DEF Navigate, TypeOK, Who, Pages
  <2> QED BY <2>1
<1>4. ASSUME NEW l \in Routines, Start(l)
      PROVE  Waits
  <2>1. /\ step \in [Routines -> Nat] /\ step[l] = 0 /\ step' = [step EXCEPT ![l] = 1]
        /\ UNCHANGED <<lock, page, req>>
    BY <1>1, <1>4 DEF Start, workerVars, TypeOK
  <2>2. lock \in Routines => step'[lock] = step[lock]
    <3>1. ASSUME lock \in Routines PROVE lock # l
      BY <1>2, <2>1, <3>1, OpensFacts DEF Opening
    <3> QED BY <2>1, <3>1
  <2> QED BY <1>2, <2>1, <2>2 DEF Opening, Downloads
<1>5. ASSUME NEW l \in Routines, Lock(l)
      PROVE  Waits
  <2>1. lock \notin Routines /\ page = "running" /\ lock' = l /\ UNCHANGED <<req, step>>
        /\ Opening(l)
    BY <1>5, LoadersAssumption DEF Lock, workerVars
  <2>2. req["page"] = None
    BY <1>2, <2>1 DEF Downloads
  <2> QED BY <2>1, <2>2 DEF Opening
<1>6. ASSUME NEW f \in Files, GetCached(f)
      PROVE  Waits
  <2>1. Cached(f) \in Version
    BY <1>1, FirstFacts DEF Cached, TypeOK
  <2>2. lock' \in Routines => Opening(lock)'
    BY <1>1, <1>6, <2>1, GotFacts DEF GetCached
  <2>3. req'["page"] = None
    BY <1>6 DEF GetCached, workerVars
  <2> QED BY <2>2, <2>3
<1>7. ASSUME NEW v \in Version, GetAnswer(v)
      PROVE  Waits
  <2> DEFINE f == req["page"].file
  <2>1. req["page"] # None /\ req'["page"] = None /\ f \in Files
    BY <1>1, <1>7 DEF GetAnswer, FetchAnswers, Answers, TypeOK, Requests, Who, Pages
  <2>2. Downloads(f)
    BY <1>2, <2>1
  <2>3. (\E error : Failed(error)) \/ (Got(f, v) /\ (v # Absent \/ kept[f] # Absent))
    BY <1>7 DEF GetAnswer
  <2> HIDE DEF f
  <2>4. lock' \in Routines => Opening(lock)'
    BY <1>1, <2>1, <2>2, <2>3, GotFacts, FailedFacts
  <2> QED BY <2>1, <2>4
<1>8. ASSUME UNCHANGED <<page, lock, step>>
      PROVE  Waits
  <2>1. lock' \in Routines => Opening(lock)'
    BY <1>2, <1>8 DEF Opening
  <2>2. CASE GoesOn("page", "page")
    BY <1>2, <1>8, <2>1, <2>2 DEF Downloads, GoesOn
  <2>3. ASSUME NEW f \in Files, Get(f), AskedNow("page", f)
        PROVE  Waits
    <3>1. Downloads(f) /\ req'["page"].file = f
      BY <2>3 DEF Get, AskedNow
    <3> QED BY <1>8, <2>1, <3>1 DEF Downloads
  <2>4. CASE req'["page"] = None
    BY <2>1, <2>4
  <2> QED BY <1>1, <2>2, <2>3, <2>4, OthersAssumption DEF RequestStep
<1>9. Waits
  <2> HIDE DEF Waits
  <2>1. Register \/ Worker \/ OtherPages \/ Deploy => UNCHANGED <<page, lock, step>>
    BY DEF Register, Worker, OtherPages, Deploy, pageVars
  <2>2. ASSUME NEW f \in Files, Get(f)
        PROVE  UNCHANGED <<page, lock, step>>
    BY <2>2 DEF Get, pageVars
  <2>3. Downloading => Waits
    BY <1>6, <1>7, <1>8, <2>2 DEF Downloading
  <2> QED BY <1>3, <1>4, <1>5, <1>8, <2>1, <2>3 DEF Next
<1>10. ASSUME NEW who \in Pages, req'[who] # None, req'[who].by # None
       PROVE  Past(req[who].by)'
  <2> DEFINE b == req'[who].by
  <2>1. Past(b)
    <3>1. ASSUME NEW one \in Pages, GoesOn(who, one)
          PROVE  Past(b)
      BY <1>1, <1>10, <3>1 DEF PageAsks, GoesOn
    <3>2. ASSUME NEW f, AskedNow(who, f)
          PROVE  Past(b)
      <4>1. b = active /\ active \in Workers
        BY <1>1, <1>10, <3>2 DEF AskedNow, TypeOK
      <4>2. active.wasm \in Int /\ active.dat \in Int
        BY <4>1, BoundsAssumption DEF Workers, Version
      <4> QED BY <1>1, <1>10, <4>1, <4>2 DEF Past, NotAfter, Ordered
    <3>3. RequestStep(who) /\ who # "worker" /\ "page" \in Pages
      BY RequestSteps, OthersAssumption DEF Who, Pages
    <3> QED BY <1>10, <3>1, <3>2, <3>3 DEF RequestStep
  <2>2. PICK w : w = b /\ Past(w)
    BY <2>1
  <2>3. Past(w)'
    BY <2>2, PastStays
  <2> QED BY <2>2, <2>3
<1> QED BY <1>9, <1>10 DEF PageAsks

\* What is to be put into a cache was there before, or is brought now.
LEMMA PutsSteps ==
  ASSUME IInv, Next, NEW p \in DOMAIN puts'
  PROVE  \/ p \in DOMAIN puts
         \/ \E who \in Pages, v \in Version :
              /\ req[who] # None /\ req[who].by # None /\ v # Absent
              /\ p.by = req[who].by /\ p.file = req[who].file /\ p.body = v
<1>1. TypeOK /\ Tagged /\ CopyNotOlder
  BY DEF IInv
<1> DEFINE Goal == \/ p \in DOMAIN puts
                   \/ \E who \in Pages, v \in Version :
                        /\ req[who] # None /\ req[who].by # None /\ v # Absent
                        /\ p.by = req[who].by /\ p.file = req[who].file /\ p.body = v
<1>2. ASSUME NEW who \in Pages, NEW v \in Version, FetchAnswers(who, v)
      PROVE  Goal
  <2>1. req[who] # None
    BY <1>2 DEF FetchAnswers, Answers
  <2> QED BY <1>1, <1>2, <2>1, FetchFacts
<1>3. UNCHANGED puts => Goal
  OBVIOUS
<1>4. ASSUME NEW q, StoreFetched(q)
      PROVE  Goal
  BY <1>4, BagFacts DEF StoreFetched
<1> HIDE DEF Goal
<1>5. Worker => Goal
  BY <1>3, <1>4 DEF Worker, AskToAdd, Add, Activate
<1>6. OtherPages => Goal
  BY <1>2, <1>3 DEF OtherPages, OtherAsks, OtherAnswered, Pages
<1>7. Downloading => Goal
  BY <1>2, <1>3 DEF Downloading, GetCached, Get, GetAnswer, workerVars, Pages
<1>8. Navigate \/ Register \/ Deploy \/ (\E l \in Routines : Start(l) \/ Lock(l)) => UNCHANGED puts
  BY DEF Navigate, Register, Update, Deploy, RestartGotweb, Start, Lock, workerVars
<1>9. Goal
  BY <1>3, <1>5, <1>6, <1>7, <1>8 DEF Next
<1> QED BY <1>9 DEF Goal

\* It was asked for by workers of the past.
LEMMA PutsPastStep ==
  ASSUME IInv, Next
  PROVE  PutsPast'
<1>1. PageAsks /\ PutsPast
  BY DEF IInv
<1>2. ASSUME NEW p \in DOMAIN puts'
      PROVE  Past(p.by)' /\ p.body # Absent
  <2>1. Past(p.by) /\ p.body # Absent
    BY <1>1, <1>2, PutsSteps DEF PageAsks, PutsPast
  <2>2. PICK w : w = p.by /\ Past(w)
    BY <2>1
  <2>3. Past(w)'
    BY <2>2, PastStays
  <2> QED BY <2>1, <2>2, <2>3
<1> QED BY <1>2 DEF PutsPast

\* Requests of a worker, and what it wants.
LEMMA WorkerAsksStep ==
  ASSUME IInv, Next
  PROVE  WorkerAsks'
<1>1. TypeOK /\ WorkerAsks /\ Ordered /\ RequestStep("worker")
  BY RequestSteps DEF IInv, Who
<1> SUFFICES ASSUME req'["worker"] # None
             PROVE  /\ installing' # None /\ req'["worker"].file \in installing'.wants
                    /\ req'["worker"].file = Wasm => installing'.worker.wasm <= req'["worker"].tag
                    /\ req'["worker"].file = Dat => installing'.worker.dat <= req'["worker"].tag
  BY DEF WorkerAsks
<1>2. CASE AskToAdd /\ AskedNow("worker", Upcoming) /\ Upcoming \in installing.wants
  <2>1. /\ req'["worker"].file = Upcoming /\ req'["worker"].tag = Tag(Upcoming)
        /\ installing' = installing
    BY <1>2 DEF AskedNow
  <2>2. Tag(Wasm) = disk[Wasm] /\ Tag(Dat) = loaded
    BY FilesAssumption DEF Tag
  <2>3. installing # None /\ installing.worker.wasm <= disk[Wasm] /\ installing.worker.dat <= loaded
    BY <1>1, <1>2 DEF AskToAdd, Ordered, Known, MadeOf
  <2> QED BY <1>2, <2>1, <2>2, <2>3
<1>3. CASE GoesOn("worker", "worker")
  <2>1. /\ installing # None /\ req["worker"].file \in installing.wants
        /\ req["worker"].file = Wasm => installing.worker.wasm <= req["worker"].tag
        /\ req["worker"].file = Dat => installing.worker.dat <= req["worker"].tag
    BY <1>1, <1>3 DEF WorkerAsks, GoesOn
  <2>2. installing' = installing
    <3>1. ASSUME NEW v \in Version, Add(v) PROVE FALSE
      <4>1. req'["worker"] = None
        BY <1>1, <3>1 DEF Add, Answers, TypeOK, Who
      <4> QED BY <4>1
    <3>2. ~ Update /\ ~ Activate
      BY <2>1 DEF Update, Activate
    <3>3. AskToAdd \/ (\E p \in DOMAIN puts : StoreFetched(p)) => UNCHANGED installing
      BY DEF AskToAdd, StoreFetched
    <3>4. Worker => UNCHANGED installing
      BY <3>1, <3>2, <3>3 DEF Worker
    <3>5. /\ \A f \in Files : GetCached(f) \/ Get(f) => UNCHANGED installing
          /\ \A v \in Version : GetAnswer(v) => UNCHANGED installing
      BY DEF GetCached, Get, GetAnswer, workerVars
    <3>6. Downloading => UNCHANGED installing
      BY <3>5 DEF Downloading
    <3> QED BY <3>2, <3>4, <3>6 DEF Next, Navigate, Register, OtherPages, OtherAsks,
                                    OtherAnswered, Deploy, RestartGotweb, Start, Lock, workerVars
  <2> QED BY <1>3, <2>1, <2>2 DEF GoesOn
<1> QED BY <1>1, <1>2, <1>3, OthersAssumption DEF RequestStep

-----------------------------------------------------------------------------
(* What is kept, and the caches.                                           *)

\* What a page has opened of a file is still what it keeps.
LEMMA KeptStep ==
  ASSUME IInv, Next
  PROVE  Kept'
<1>1. TypeOK /\ PageAsks /\ Kept
  BY DEF IInv
<1>2. CASE Navigate
  BY <1>2 DEF Navigate, Kept, Nothing
<1>3. ASSUME UNCHANGED <<kept, opened>>
      PROVE  Kept'
  BY <1>1, <1>3 DEF Kept
<1>4. CASE Downloading
  <2>1. ASSUME NEW f \in Files, GetCached(f)
        PROVE  Kept'
    <3>1. Cached(f) \in Version
      BY <1>1, FirstFacts DEF Cached, TypeOK
    <3> QED BY <1>1, <2>1, <3>1, GotFacts DEF GetCached
  <2>2. ASSUME NEW f \in Files, Get(f)
        PROVE  Kept'
    BY <1>3, <2>2 DEF Get, pageVars
  <2>3. ASSUME NEW v \in Version, GetAnswer(v)
        PROVE  Kept'
    <3> DEFINE f == req["page"].file
    <3>1. f \in Files /\ Downloads(f)
      BY <1>1, <2>3 DEF GetAnswer, FetchAnswers, Answers, TypeOK, Requests, Who, Pages, PageAsks
    <3>2. (\E error : Failed(error)) \/ (Got(f, v) /\ (v # Absent \/ kept[f] # Absent))
      BY <2>3 DEF GetAnswer
    <3> HIDE DEF f
    <3> QED BY <1>1, <1>3, <3>1, <3>2, GotFacts, FailedFacts
  <2> QED BY <1>4, <2>1, <2>2, <2>3 DEF Downloading
<1>5. Register \/ Worker \/ OtherPages \/ Deploy \/ (\E l \in Routines : Start(l) \/ Lock(l))
        => UNCHANGED <<kept, opened>>
  BY DEF Register, Worker, OtherPages, Deploy, Start, Lock, pageVars
<1> QED BY <1>2, <1>3, <1>4, <1>5 DEF Next

\* How the caches change.
AddPuts(f, v) ==
  /\ v # Absent /\ installing # None /\ f \in installing.wants
  /\ req["worker"] # None /\ f = req["worker"].file
  /\ f \in {Wasm, Dat} => f \in unasked' \/ req["worker"].tag <= v
  /\ PutInto(caches', NameFor(installing.worker, f), f, v)
  /\ installing' = [installing EXCEPT !.wants = @ \ {f}] /\ UNCHANGED <<active, brokeOff, under>>
FetchPuts(p) ==
  /\ p \in DOMAIN puts /\ p \in Fetched
  /\ PutInto(caches', NameFor(p.by, p.file), p.file, p.body)
  /\ UNCHANGED <<active, installing, brokeOff, under>>
CacheStep ==
  \/ UNCHANGED <<caches, active>>
     /\ (UNCHANGED <<installing, brokeOff>> \/ (brokeOff' = TRUE /\ installing' = None))
  \/ /\ Register /\ OpenedBy(caches', installing'.worker)
     /\ UNCHANGED <<active, brokeOff, req, under>>
  \/ \E f \in Files, v \in Version : AddPuts(f, v)
  \/ \E p \in DOMAIN puts : FetchPuts(p)
  \/ Activate /\ LeftTo(caches', installing.worker) /\ UNCHANGED <<req, under>>

\* There is no other way for caches to change.
LEMMA CacheSteps ==
  ASSUME IInv, Next
  PROVE  CacheStep
<1>1. TypeOK /\ OneOfAName /\ Shelved /\ WorkerAsks /\ Tagged /\ CopyNotOlder
  BY DEF IInv
<1>2. ASSUME UNCHANGED <<caches, active, installing, brokeOff>>
      PROVE  CacheStep
  BY <1>2 DEF CacheStep
<1>3. CASE Register
  BY <1>3, UpdateTyped DEF CacheStep, Register, Update, pageVars
<1>4. ASSUME NEW v \in Version, Add(v), UNCHANGED <<serverVars, pageVars>>
      PROVE  CacheStep
  <2> DEFINE f == req["worker"].file
             w == installing.worker
  <2>1. Answers("worker", v) /\ req["worker"] # None
    BY <1>4 DEF Add, Answers
  <2>2. /\ v # Absent /\ f \in {Wasm, Dat} => f \in unasked' \/ req["worker"].tag <= v
        /\ req["worker"] \in Requests
    BY <1>1, <2>1, AnswersFacts DEF Who, Told
  <2>3. installing # None /\ f \in installing.wants /\ f \in Files /\ w \in Workers
    BY <1>1, <2>1, <2>2 DEF Installations, WorkerAsks, TypeOK, Requests
  <2>4. CASE v = Absent
    BY <1>4, <2>4 DEF Add, CacheStep
  <2>5. CASE v # Absent
    <3>1. caches' = Put(NameFor(w, f), f, v) /\ UNCHANGED <<active, brokeOff, under>>
          /\ installing' = [installing EXCEPT !.wants = @ \ {f}]
      BY <1>4, <2>5 DEF Add, pageVars
    <3>3. PutInto(caches', NameFor(w, f), f, v)
      <4> HIDE DEF w, f
      <4> QED BY <1>1, <2>3, <3>1, PutTyped
    <3>4. AddPuts(f, v)
      BY <2>1, <2>2, <2>3, <2>5, <3>1, <3>3 DEF AddPuts
    <3> HIDE DEF f
    <3> QED BY <2>3, <3>4 DEF CacheStep
  <2> QED BY <2>4, <2>5
<1>5. CASE Activate /\ UNCHANGED <<serverVars, pageVars>>
  <2>1. installing # None /\ installing.worker \in Workers /\ Opened(installing.worker)
    BY <1>1, <1>5 DEF Installations, Activate, TypeOK, Shelved
  <2>2. LeftTo(caches', installing.worker)
    BY <1>1, <1>5, <2>1, CachesOfFacts DEF Activate, TypeOK
  <2> QED BY <1>5, <2>2 DEF CacheStep, Activate, pageVars
<1>6. ASSUME NEW p \in DOMAIN puts, StoreFetched(p), UNCHANGED <<serverVars, pageVars>>
      PROVE  CacheStep
  <2>1. p \in Fetched /\ p.by \in Workers /\ p.file \in Files /\ p.body \in Version
    BY <1>1 DEF TypeOK, Fetched
  <2>2. PutInto(caches', NameFor(p.by, p.file), p.file, p.body)
    BY <1>1, <1>6, <2>1, PutTyped DEF StoreFetched
  <2>3. FetchPuts(p)
    BY <1>6, <2>1, <2>2 DEF FetchPuts, StoreFetched, pageVars
  <2> QED BY <2>3 DEF CacheStep
<1>7. CASE Worker
  <2>1. AskToAdd => UNCHANGED <<caches, active, installing, brokeOff>>
    BY DEF AskToAdd
  <2> QED BY <1>2, <1>4, <1>5, <1>6, <1>7, <2>1 DEF Worker
<1>8. CASE Downloading
  BY <1>2, <1>8 DEF Downloading, GetCached, Get, GetAnswer, workerVars
<1>9. Navigate \/ OtherPages \/ Deploy \/ (\E l \in Routines : Start(l) \/ Lock(l))
        => UNCHANGED <<caches, active, installing, brokeOff>>
  BY DEF Navigate, OtherPages, OtherAsks, OtherAnswered, Deploy, RestartGotweb, Start, Lock,
         workerVars
<1> QED BY <1>2, <1>3, <1>7, <1>8, <1>9 DEF Next

\* What the browser was not asked about is remembered.
LEMMA UnaskedStays ==
  ASSUME IInv, Next
  PROVE  unasked \subseteq unasked'
<1>1. TypeOK /\ Tagged /\ CopyNotOlder
  BY DEF IInv
<1>2. ASSUME NEW who \in Who, NEW v \in Version, Answers(who, v)
      PROVE  unasked \subseteq unasked'
  BY <1>1, <1>2, AnswersFacts
<1>3. Worker => unasked \subseteq unasked'
  BY <1>2 DEF Worker, AskToAdd, Add, Activate, StoreFetched, Who
<1>4. OtherPages => unasked \subseteq unasked'
  BY <1>2 DEF OtherPages, OtherAsks, OtherAnswered, FetchAnswers, Who, Pages
<1>5. Downloading => unasked \subseteq unasked'
  BY <1>2 DEF Downloading, GetCached, Get, GetAnswer, FetchAnswers, workerVars, Who, Pages
<1>6. Navigate \/ Register \/ Deploy \/ (\E l \in Routines : Start(l) \/ Lock(l))
        => UNCHANGED unasked
  BY DEF Navigate, Register, Update, Deploy, RestartGotweb, Start, Lock, workerVars
<1> QED BY <1>3, <1>4, <1>5, <1>6 DEF Next

\* Caches are only deleted by activation.
LEMMA Persist ==
  ASSUME NEW ds, NEW n, Exists(n)
  PROVE  /\ \A name, f, v : PutInto(ds, name, f, v) => ExistsIn(ds, n)
         /\ \A w : OpenedBy(ds, w) => ExistsIn(ds, n)
<1>1. PICK i \in DOMAIN caches : caches[i].name = n
  BY DEF Exists, ExistsIn
<1>2. ASSUME NEW name, NEW f, NEW v, PutInto(ds, name, f, v)
      PROVE  ExistsIn(ds, n)
  BY <1>1, <1>2 DEF PutInto, ExistsIn
<1>3. ASSUME NEW w, OpenedBy(ds, w)
      PROVE  ExistsIn(ds, n)
  BY <1>1, <1>3 DEF OpenedBy, ExistsIn
<1> QED BY <1>2, <1>3

\* Each file stays in caches of its kind.
LEMMA KindsStep ==
  ASSUME IInv, Next, NEW i \in DOMAIN caches', NEW f \in Files, caches'[i].has[f] # Absent
  PROVE  caches'[i].name[1] = Kind(f)
<1>1. TypeOK /\ Shelved /\ CacheStep
  BY CacheSteps DEF IInv
<1>2. \A k \in DOMAIN caches : caches[k].has[f] # Absent => caches[k].name[1] = Kind(f)
  BY <1>1 DEF Shelved
<1>3. CASE UNCHANGED caches
  BY <1>2, <1>3
<1>4. CASE Register /\ OpenedBy(caches', installing'.worker)
  BY <1>2, <1>4 DEF OpenedBy, Nothing
<1>5. ASSUME NEW w \in Workers, NEW g \in Files, NEW v, PutInto(caches', NameFor(w, g), g, v)
      PROVE  caches'[i].name[1] = Kind(f)
  <2>1. NameFor(w, g)[1] = Kind(g)
    BY NameFacts
  <2>2. CASE i \in DOMAIN caches
    BY <1>2, <1>5, <2>1, <2>2 DEF PutInto
  <2>3. CASE i \notin DOMAIN caches
    BY <1>5, <2>1, <2>3 DEF PutInto
  <2> QED BY <2>2, <2>3
<1>6. CASE Activate /\ LeftTo(caches', installing.worker)
  BY <1>2, <1>6 DEF LeftTo
<1>7. installing # None => installing.worker \in Workers
  BY <1>1 DEF Installations, TypeOK
<1>8. \A p \in Fetched : p.by \in Workers /\ p.file \in Files
  BY DEF Fetched
<1> QED BY <1>1, <1>3, <1>4, <1>5, <1>6, <1>7, <1>8 DEF CacheStep, AddPuts, FetchPuts

\* The active worker's caches stay in front.
LEMMA OwnStep ==
  ASSUME IInv, Next, active' # None
  PROVE  /\ ExistsIn(caches', AppName(active')) /\ ExistsIn(caches', DataName(active'))
         /\ \A i, j \in DOMAIN caches' :
              caches'[i].name \in Names(active') /\ caches'[j].name \notin Names(active') => i < j
<1>1. TypeOK /\ Shelved /\ CacheStep
  BY CacheSteps DEF IInv
<1>2. CASE UNCHANGED <<caches, active>>
  BY <1>1, <1>2 DEF Shelved, Opened, OwnFirst, Exists
<1>3. CASE /\ active' = active
           /\ \/ \E w : OpenedBy(caches', w)
              \/ \E name, f, v : PutInto(caches', name, f, v)
  <2>1. Exists(AppName(active)) /\ Exists(DataName(active)) /\ OwnFirst
    BY <1>1, <1>3 DEF Shelved, Opened
  <2>2. ExistsIn(caches', AppName(active)) /\ ExistsIn(caches', DataName(active))
    <3>1. CASE \E w : OpenedBy(caches', w)
      BY <2>1, <3>1, Persist
    <3>2. CASE \E name, f, v : PutInto(caches', name, f, v)
      BY <2>1, <3>2, Persist
    <3> QED BY <1>3, <3>1, <3>2
  <2>3. /\ DOMAIN caches \subseteq DOMAIN caches'
        /\ \A i \in DOMAIN caches : caches'[i].name = caches[i].name
        /\ \A i \in DOMAIN caches' \ DOMAIN caches :
             ~ Exists(caches'[i].name) /\ \A j \in DOMAIN caches : j < i
    BY <1>3 DEF OpenedBy, PutInto
  <2>4. \A n \in Names(active) : Exists(n)
    BY <2>1 DEF Names
  <2>5. ASSUME NEW i \in DOMAIN caches', NEW j \in DOMAIN caches',
               caches'[i].name \in Names(active), caches'[j].name \notin Names(active)
        PROVE  i < j
    <3>1. i \in DOMAIN caches
      BY <2>3, <2>4, <2>5
    <3>2. CASE j \in DOMAIN caches
      BY <2>1, <2>3, <2>5, <3>1, <3>2 DEF OwnFirst
    <3>3. CASE j \notin DOMAIN caches
      BY <2>3, <3>1, <3>3
    <3> QED BY <3>2, <3>3
  <2> QED BY <1>3, <2>2, <2>5
<1>4. CASE Activate /\ LeftTo(caches', installing.worker)
  BY <1>4 DEF Activate, LeftTo
<1>5. CASE (\E f \in Files, v \in Version : AddPuts(f, v)) \/ (\E p \in DOMAIN puts : FetchPuts(p))
  BY <1>3, <1>5 DEF AddPuts, FetchPuts
<1> QED BY <1>1, <1>2, <1>3, <1>4, <1>5 DEF CacheStep

\* The next worker's caches are there, and what it wants is not for the active one's.
LEMMA NextStep ==
  ASSUME IInv, Next, installing' # None
  PROVE  /\ ExistsIn(caches', AppName(installing'.worker))
         /\ ExistsIn(caches', DataName(installing'.worker))
         /\ active' # None => \A f \in installing'.wants :
              NameFor(installing'.worker, f) # NameFor(active', f)
<1>1. TypeOK /\ Shelved /\ CacheStep
  BY CacheSteps DEF IInv
<1> DEFINE w == installing.worker
<1>2. installing # None => Exists(AppName(w)) /\ Exists(DataName(w))
  BY <1>1 DEF Shelved, Opened
<1>3. active # None /\ installing # None =>
        \A f \in installing.wants : NameFor(w, f) # NameFor(active, f)
  BY <1>1 DEF Shelved
<1>4. CASE UNCHANGED <<caches, active, installing>>
  BY <1>2, <1>3, <1>4 DEF Exists
<1>5. CASE Register /\ OpenedBy(caches', installing'.worker) /\ active' = active
  <2> DEFINE n == installing'.worker
  <2>1. n \in Workers /\ installing'.wants = Wanted(n)
    BY <1>5, UpdateTyped DEF Register
  <2>2. ExistsIn(caches', AppName(n)) /\ ExistsIn(caches', DataName(n))
    BY <1>5 DEF OpenedBy
  <2>3. ASSUME active # None, NEW f \in Wanted(n)
        PROVE  NameFor(n, f) # NameFor(active, f)
    <3>1. ~ Exists(NameFor(n, f))
      BY <2>3 DEF Wanted
    <3>2. Exists(AppName(active)) /\ Exists(DataName(active))
      BY <1>1, <2>3 DEF Shelved, Opened
    <3> QED BY <3>1, <3>2 DEF NameFor
  <2> HIDE DEF n
  <2> QED BY <1>5, <2>1, <2>2, <2>3 DEF n
<1>6. ASSUME installing # None, active' = active, installing'.worker = w,
             installing'.wants \subseteq installing.wants,
             NEW name, NEW f, NEW v, PutInto(caches', name, f, v)
      PROVE  /\ ExistsIn(caches', AppName(installing'.worker))
             /\ ExistsIn(caches', DataName(installing'.worker))
             /\ active' # None => \A g \in installing'.wants :
                  NameFor(installing'.worker, g) # NameFor(active', g)
  <2>1. ExistsIn(caches', AppName(w)) /\ ExistsIn(caches', DataName(w))
    BY <1>2, <1>6, Persist
  <2> QED BY <1>3, <1>6, <2>1
<1>7. ASSUME NEW f \in Files, NEW v \in Version, AddPuts(f, v)
      PROVE  installing # None /\ active' = active /\ installing'.worker = w
             /\ installing'.wants \subseteq installing.wants
  BY <1>1, <1>7 DEF AddPuts, TypeOK
<1>8. ~ Activate
  BY DEF Activate
<1> QED BY <1>1, <1>4, <1>5, <1>6, <1>7, <1>8 DEF CacheStep, AddPuts, FetchPuts

\* Each file is still where it belongs.
LEMMA ShelvedStep ==
  ASSUME IInv, Next
  PROVE  Shelved'
<1>1. \A i \in DOMAIN caches', f \in Files :
        caches'[i].has[f] # Absent => caches'[i].name[1] = Kind(f)
  BY KindsStep
<1>2. active' # None => (Opened(active) /\ OwnFirst)'
  BY OwnStep DEF Opened, OwnFirst, Exists
<1>3. installing' # None => Opened(installing.worker)'
  BY NextStep DEF Opened, Exists
<1>4. active' # None /\ installing' # None =>
        \A f \in installing'.wants : NameFor(installing'.worker, f) # NameFor(active', f)
  BY NextStep
<1> QED BY <1>1, <1>2, <1>3, <1>4 DEF Shelved

-----------------------------------------------------------------------------
(* As long as no installation was broken off.                              *)

\* The active worker has all that is listed.
LEMMA Complete ==
  ASSUME IInv, ~ brokeOff, active # None, NEW f \in Range(Listed)
  PROVE  /\ Cached(f) # Absent
         /\ \E i \in DOMAIN caches :
              caches[i].name = NameFor(active, f) /\ caches[i].has[f] # Absent
<1>1. TypeOK /\ Shelved /\ Whole /\ active \in Workers /\ f \in Files
  BY OpensFacts DEF IInv, TypeOK
<1>2. PICK i \in DOMAIN caches : caches[i].name = NameFor(active, f)
  BY <1>1 DEF Shelved, Opened, NameFor, Exists, ExistsIn
<1>3. caches[i].name[1] = Kind(f)
  BY <1>1, <1>2, NameFacts
<1>4. caches[i].has[f] # Absent
  <2>1. ASSUME caches[i].has[f] = Absent
        PROVE  FALSE
    <3>1. /\ installing # None /\ f \in installing.wants
          /\ caches[i].name = NameFor(installing.worker, f)
      BY <1>1, <1>3, <2>1 DEF Whole
    <3> QED BY <1>1, <1>2, <3>1 DEF Shelved
  <2> QED BY <2>1
<1> QED BY <1>1, <1>2, <1>4, FirstFacts DEF Cached, TypeOK

\* Nobody asks for anything through a worker, and a page that a worker has loaded
\* asks for nothing.
LEMMA AsksNothing ==
  ASSUME IInv, Next, ~ brokeOff, NEW who \in Pages, req'[who] # None
  PROVE  req'[who].by = None /\ (who = "page" => under' = None)
<1>1. /\ TypeOK /\ Whole /\ Ordered /\ PageAsks /\ RequestStep(who)
      /\ who # "worker" /\ "page" \in Pages /\ "page" \notin Others /\ "page" \in Who
  BY RequestSteps, OthersAssumption DEF IInv, Who, Pages
<1>2. who = "page" => UNCHANGED under
  <2>1. who = "page" => ~ Navigate
    BY <1>1 DEF Navigate, TypeOK
  <2>2. /\ \A f \in Files : GetCached(f) \/ Get(f) => UNCHANGED under
        /\ \A v \in Version : GetAnswer(v) => UNCHANGED under
    BY DEF GetCached, Get, GetAnswer, pageVars
  <2>3. Downloading => UNCHANGED under
    BY <2>2 DEF Downloading
  <2> QED BY <2>1, <2>3 DEF Next, Register, Worker, OtherPages, Deploy, Start, Lock, pageVars
<1>3. ASSUME NEW one \in Pages, GoesOn(who, one), who = "page" => one = "page"
      PROVE  req'[who].by = None /\ (who = "page" => under' = None)
  BY <1>1, <1>2, <1>3 DEF Whole, GoesOn
<1>4. ASSUME NEW f \in Range(Listed), AskedNow(who, f), active # None => Cached(f) = Absent
      PROVE  req'[who].by = None /\ (who = "page" => under' = None)
  <2>1. active = None
    BY <1>4, Complete
  <2> QED BY <1>1, <1>2, <1>4, <2>1 DEF AskedNow, Ordered
<1>5. ASSUME NEW f \in Files, Get(f)
      PROVE  f \in Range(Listed) /\ (active # None => Cached(f) = Absent)
  BY <1>1, <1>5, DownloadsListed DEF Get
<1>6. ASSUME NEW f \in Range(Listed), OtherAsks(who, f)
      PROVE  active # None => Cached(f) = Absent
  BY <1>6 DEF OtherAsks
<1> QED BY <1>1, <1>3, <1>4, <1>5, <1>6 DEF RequestStep

\* The caches still have all but what the next worker wants.
LEMMA WholeStep ==
  ASSUME IInv, Next
  PROVE  Whole'
<1> SUFFICES ASSUME ~ brokeOff'
             PROVE  Whole'
  BY DEF Whole
<1>1. TypeOK /\ TypeOK' /\ Shelved /\ Whole /\ Ordered /\ WorkerAsks /\ CacheStep
  BY CacheSteps, TypeStep DEF IInv
<1>2. ~ brokeOff
  BY <1>1 DEF CacheStep, AddPuts, FetchPuts, Activate
<1>3. /\ \A i \in DOMAIN caches :
           \/ active # None /\ caches[i].name \in Names(active)
           \/ installing # None /\ caches[i].name \in Names(installing.worker)
      /\ \A i \in DOMAIN caches, f \in Range(Listed) :
           caches[i].name[1] = Kind(f) /\ caches[i].has[f] = Absent
           => /\ installing # None /\ f \in installing.wants
              /\ caches[i].name = NameFor(installing.worker, f)
      /\ \A i \in DOMAIN caches, f \in {Wasm, Dat} :
           caches[i].has[f] # Absent /\ f \notin unasked => caches[i].name[2] <= caches[i].has[f]
      /\ \A who \in Pages : req[who] # None => req[who].by = None
      /\ DOMAIN puts = {} /\ unasked \subseteq unasked'
  BY <1>1, <1>2, UnaskedStays DEF Whole
<1>4. /\ \A who \in Pages : req'[who] # None => req'[who].by = None
      /\ req'["page"] # None => under' = None
      /\ DOMAIN puts' = {}
  BY <1>2, <1>3, AsksNothing, PutsSteps DEF Pages
<1> DEFINE Rest == /\ \A i \in DOMAIN caches' :
                        \/ active' # None /\ caches'[i].name \in Names(active')
                        \/ installing' # None /\ caches'[i].name \in Names(installing'.worker)
                   /\ \A i \in DOMAIN caches', f \in Range(Listed) :
                        caches'[i].name[1] = Kind(f) /\ caches'[i].has[f] = Absent
                        => /\ installing' # None /\ f \in installing'.wants
                           /\ caches'[i].name = NameFor(installing'.worker, f)
                   /\ \A i \in DOMAIN caches', f \in {Wasm, Dat} :
                        caches'[i].has[f] # Absent /\ f \notin unasked' =>
                          caches'[i].name[2] <= caches'[i].has[f]
<1>5. ASSUME UNCHANGED <<caches, active, installing>>
      PROVE  Rest
  BY <1>3, <1>5
<1>6. ASSUME Register, OpenedBy(caches', installing'.worker), active' = active
      PROVE  Rest
  <2> DEFINE n == installing'.worker
  <2>1. installing = None /\ installing' # None /\ n \in Workers /\ installing'.wants = Wanted(n)
    BY <1>6, UpdateTyped, NoneAssumption DEF Register, Update
  <2>2. OpenedBy(caches', n)
    BY <1>6
  <2>3. \A f \in {Wasm, Dat} : f \in Files
    BY FilesAssumption DEF Files
  <2> HIDE DEF n
  <2>4. ASSUME NEW i \in DOMAIN caches'
        PROVE  \/ active' # None /\ caches'[i].name \in Names(active')
               \/ caches'[i].name \in Names(n)
    BY <1>3, <1>6, <2>1, <2>2 DEF OpenedBy
  <2>5. ASSUME NEW i \in DOMAIN caches', NEW f \in Range(Listed),
               caches'[i].name[1] = Kind(f), caches'[i].has[f] = Absent
        PROVE  f \in Wanted(n) /\ caches'[i].name = NameFor(n, f)
    <3>1. i \notin DOMAIN caches
      BY <1>3, <2>1, <2>2, <2>5 DEF OpenedBy
    <3>2. caches'[i].name \in Names(n) /\ ~ Exists(caches'[i].name)
      BY <2>2, <3>1 DEF OpenedBy
    <3>3. caches'[i].name = NameFor(n, f)
      BY <2>1, <2>5, <3>2, NameFacts, OpensFacts
    <3> QED BY <3>2, <3>3 DEF Wanted
  <2>6. ASSUME NEW i \in DOMAIN caches', NEW f \in {Wasm, Dat}, caches'[i].has[f] # Absent,
               f \notin unasked'
        PROVE  caches'[i].name[2] <= caches'[i].has[f]
    <3>1. i \in DOMAIN caches
      BY <2>2, <2>3, <2>6 DEF OpenedBy, Nothing
    <3> QED BY <1>3, <2>2, <2>6, <3>1 DEF OpenedBy
  <2> QED BY <2>1, <2>4, <2>5, <2>6 DEF n
<1>7. ASSUME NEW g \in Files, NEW v \in Version, AddPuts(g, v)
      PROVE  Rest
  <2> DEFINE w == installing.worker
  <2>1. /\ installing # None /\ w \in Workers /\ active' = active
        /\ installing' # None /\ installing'.worker = w /\ installing'.wants = installing.wants \ {g}
    <3>1. installing \in Installations /\ installing # None /\ active' = active
          /\ installing' = [installing EXCEPT !.wants = @ \ {g}]
      BY <1>1, <1>7 DEF AddPuts, TypeOK
    <3>2. /\ installing' \in Installations /\ w \in Workers
          /\ installing'.worker = w /\ installing'.wants = installing.wants \ {g}
      BY <3>1 DEF Installations
    <3> QED BY <3>1, <3>2, NoneAssumption
  <2>2. PutInto(caches', NameFor(w, g), g, v) /\ v # Absent
    BY <1>7 DEF AddPuts
  <2>3. Exists(NameFor(w, g))
    BY <1>1, <2>1 DEF Shelved, Opened, NameFor
  <2>4. \A f \in {Wasm, Dat} : f \in Files
    BY FilesAssumption DEF Files
  <2>5. g \in {Wasm, Dat} /\ g \notin unasked' => NameFor(w, g)[2] <= v
    <3> DEFINE r == req["worker"]
    <3>1. r # None /\ g = r.file
      BY <1>7 DEF AddPuts
    <3>2. /\ g = Wasm => w.wasm <= r.tag
          /\ g = Dat => w.dat <= r.tag
          /\ g \in {Wasm, Dat} /\ g \notin unasked' => r.tag <= v
      BY <1>1, <1>7, <3>1 DEF WorkerAsks, AddPuts
    <3>3. r.tag \in Int /\ v \in Int /\ w.wasm \in Int /\ w.dat \in Int
      <4>1. r \in Requests
        BY <1>1, <3>1 DEF TypeOK, Who
      <4>2. \A x \in Version : x \in Int
        BY BoundsAssumption DEF Version
      <4>3. r.tag \in Version /\ w.wasm \in Version /\ w.dat \in Version
        BY <2>1, <4>1 DEF Requests, Workers
      <4> QED BY <4>2, <4>3
    <3>4. /\ NameFor(w, Wasm)[2] = w.wasm /\ NameFor(w, Dat)[2] = w.dat
      BY <1>1, <2>1, NameFacts DEF Ordered, Known, MadeOf
    <3> HIDE DEF r, w
    <3> QED BY <3>2, <3>3, <3>4
  <2> HIDE DEF w
  <2>6. /\ DOMAIN caches' = DOMAIN caches
        /\ \A i \in DOMAIN caches : caches'[i].name = caches[i].name
        /\ \A i \in DOMAIN caches, f \in Files :
             caches'[i].has[f] = IF caches[i].name = NameFor(w, g) /\ f = g THEN v ELSE caches[i].has[f]
    <3> DEFINE n == NameFor(w, g)
    <3>1. PutInto(caches', n, g, v) /\ Exists(n)
      BY <2>2, <2>3
    <3> HIDE DEF n
    <3>2. DOMAIN caches' = DOMAIN caches
      BY ONLY <3>1 DEF PutInto
    <3>3. \A i \in DOMAIN caches : caches'[i].name = caches[i].name
      BY ONLY <3>1 DEF PutInto
    <3>4. \A i \in DOMAIN caches, f \in Files :
            caches'[i].has[f] = IF caches[i].name = n /\ f = g THEN v ELSE caches[i].has[f]
      BY ONLY <3>1 DEF PutInto
    <3> QED BY <3>2, <3>3, <3>4 DEF n
  <2>7. \A i \in DOMAIN caches' :
          \/ active' # None /\ caches'[i].name \in Names(active')
          \/ caches'[i].name \in Names(w)
    BY <1>3, <2>1, <2>6 DEF w
  <2>8. ASSUME NEW i \in DOMAIN caches', NEW f \in Range(Listed),
               caches'[i].name[1] = Kind(f), caches'[i].has[f] = Absent
        PROVE  f \in installing.wants \ {g} /\ caches'[i].name = NameFor(w, f)
    <3>1. i \in DOMAIN caches /\ caches[i].name = caches'[i].name /\ f \in Files
      BY <2>6, OpensFacts
    <3>2. caches[i].has[f] = Absent /\ ~ (caches[i].name = NameFor(w, g) /\ f = g)
      <4>1. caches'[i].has[f] =
              IF caches[i].name = NameFor(w, g) /\ f = g THEN v ELSE caches[i].has[f]
        BY <2>6, <3>1
      <4> QED BY <2>2, <2>8, <4>1
    <3>3. f \in installing.wants /\ caches[i].name = NameFor(w, f)
      BY <1>3, <2>8, <3>1, <3>2 DEF w
    <3> QED BY <3>1, <3>2, <3>3
  <2>9. ASSUME NEW i \in DOMAIN caches', NEW f \in {Wasm, Dat}, caches'[i].has[f] # Absent,
               f \notin unasked'
        PROVE  caches'[i].name[2] <= caches'[i].has[f]
    <3>1. i \in DOMAIN caches /\ caches[i].name = caches'[i].name /\ f \in Files
      BY <2>4, <2>6
    <3>2. CASE caches[i].name = NameFor(w, g) /\ f = g
      BY <2>5, <2>6, <2>9, <3>1, <3>2
    <3>3. CASE ~ (caches[i].name = NameFor(w, g) /\ f = g)
      BY <1>3, <2>6, <2>9, <3>1, <3>3
    <3> QED BY <3>2, <3>3
  <2> QED BY <2>1, <2>7, <2>8, <2>9
<1>8. ASSUME NEW p \in DOMAIN puts
      PROVE  ~ FetchPuts(p)
  BY <1>3, <1>8
<1>9. ASSUME Activate, LeftTo(caches', installing.worker)
      PROVE  Rest
  <2>1. active' # None /\ active' = installing.worker /\ installing.wants = {}
    BY <1>1, <1>9, NoneAssumption DEF Activate, TypeOK, Installations
  <2>2. \A i \in DOMAIN caches' : caches'[i].name \in Names(active') /\ \E k \in DOMAIN caches : caches'[i] = caches[k]
    BY <1>9, <2>1 DEF LeftTo
  <2>3. \A k \in DOMAIN caches, f \in Range(Listed) :
          caches[k].name[1] = Kind(f) => caches[k].has[f] # Absent
    BY <1>3, <2>1
  <2> QED BY <1>3, <2>1, <2>2, <2>3
<1>10. Rest
  <2>1. UNCHANGED <<caches, active>> /\ brokeOff' = TRUE => FALSE
    OBVIOUS
  <2> HIDE DEF Rest
  <2> QED BY <1>1, <1>5, <1>6, <1>7, <1>8, <1>9, <2>1 DEF CacheStep
<1> QED BY <1>4, <1>10 DEF Whole

\* A page that was loaded by a worker does not fail at a step.
LEMMA WorksOfflineStep ==
  ASSUME IInv, Next
  PROVE  WorksOffline'
<1>1. TypeOK /\ PageAsks /\ Kept /\ Whole /\ WorksOffline /\ CacheStep
  BY CacheSteps DEF IInv
<1> DEFINE Fine == page' # "dead" /\ lock' # Leaked /\ ~ failed'
<1> SUFFICES ASSUME under' # None, ~ brokeOff'
             PROVE  Fine
  BY DEF WorksOffline
<1>2. ~ brokeOff
  BY <1>1 DEF CacheStep, AddPuts, FetchPuts, Activate
<1>3. Navigate => Fine
  BY DEF Navigate, Nobody, Leaked
<1>4. UNCHANGED under => page # "dead" /\ lock # Leaked /\ ~ failed
  BY <1>1, <1>2 DEF WorksOffline
<1>5. ASSUME UNCHANGED <<under, page, lock, failed>>
      PROVE  Fine
  BY <1>4, <1>5
<1>6. ASSUME NEW l \in Routines, Start(l) \/ Lock(l)
      PROVE  Fine
  BY <1>4, <1>6, LoadersAssumption DEF Start, Lock
<1>7. ASSUME NEW f \in Files, GetCached(f)
      PROVE  Fine
  <2>1. Cached(f) \in Version
    BY <1>1, FirstFacts DEF Cached, TypeOK
  <2>2. page' # "dead" /\ (lock' = Leaked => lock = Leaked) /\ UNCHANGED <<under, failed>>
    BY <1>1, <1>7, <2>1, GotFacts DEF GetCached
  <2> QED BY <1>4, <2>2
<1>8. ASSUME NEW f \in Files, Get(f)
      PROVE  Fine
  BY <1>5, <1>8 DEF Get, pageVars
<1>9. ASSUME NEW v \in Version
      PROVE  ~ GetAnswer(v)
  <2>1. ASSUME GetAnswer(v) PROVE FALSE
    <3>1. req["page"] # None /\ under' = under
      BY <2>1 DEF GetAnswer, FetchAnswers, Answers
    <3> QED BY <1>1, <1>2, <3>1 DEF Whole
  <2> QED BY <2>1
<1>10. Register \/ Worker \/ OtherPages \/ Deploy => UNCHANGED <<under, page, lock, failed>>
  BY DEF Register, Worker, OtherPages, Deploy, pageVars
<1>11. Downloading => Fine
  <2> HIDE DEF Fine
  <2> QED BY <1>7, <1>8, <1>9 DEF Downloading
<1> HIDE DEF Fine
<1> QED BY <1>3, <1>5, <1>6, <1>10, <1>11 DEF Next

-----------------------------------------------------------------------------
(* The invariant holds.                                                    *)

\* At the beginning there is nothing but gotweb.
LEMMA InitIInv ==
  ASSUME Init
  PROVE  IInv
<1> USE DEF Init, ServerInit, WorkerInit
<1>1. caches \in Seq(Stores) /\ DOMAIN caches = {} /\ \A who \in Who : req[who] = None
  <2>1. caches = <<>>
    OBVIOUS
  <2> QED BY <2>1
<1>2. Nothing \in [Files -> Version]
  BY BoundsAssumption DEF Nothing, Absent, Version
<1>3. TypeOK /\ Growing
  <2>1. /\ disk \in [Files -> Version] /\ loaded \in Version
        /\ \A f \in Files : disk[f] <= 1 /\ disk[f] \in Nat
        /\ loaded <= disk[Dat]
    <3>1. disk \in [Files -> {Absent, 1}] /\ loaded = disk[Dat]
      OBVIOUS
    <3>2. Absent = 0 /\ 0 \in Version /\ 1 \in Version
      BY BoundsAssumption DEF Absent, Version
    <3>3. Dat \in Files
      BY FilesAssumption DEF Files
    <3>4. \A f \in Files : disk[f] \in {0, 1}
      BY ONLY <3>1, <3>2
    <3>5. disk \in [Files -> Version] /\ loaded \in Version
      BY ONLY <3>1, <3>2, <3>3
    <3>6. loaded \in Int
      BY ONLY <3>1, <3>3, <3>4
    <3> QED BY ONLY <3>1, <3>4, <3>5, <3>6
  <2>2. step \in [Routines -> Nat] /\ \A l \in Routines : step[l] <= Len(Opens(l)) + 1
    BY OpensFacts
  <2>3. left \in [Kinds -> Nat] /\ left["replace"] <= MaxChanges /\ left["replace"] \in Nat
        /\ MaxChanges \in Nat /\ DOMAIN puts = {}
    BY BoundsAssumption DEF Kinds, EmptyBag, SetToBag
  <2>4. copy \in [Files -> Copies \cup {None}] /\ req \in [Who -> Requests \cup {None}]
        /\ kept \in [Files -> Version] /\ opened \in [Files -> SUBSET Version]
    BY <1>2
  <2>5. lock \in Routines \cup {Nobody, Leaked} /\ {brokeOff, failed} \subseteq BOOLEAN
        /\ unasked \subseteq Files
        /\ page \in {"none", "boot", "running", "dead"} /\ active \in Workers \cup {None}
        /\ installing \in Installations \cup {None} /\ under \in Workers \cup {None}
    OBVIOUS
  <2>6. Growing
    BY <2>1, <2>3 DEF Growing
  <2> QED BY <1>1, <2>1, <2>2, <2>3, <2>4, <2>5, <2>6 DEF TypeOK
<1>4. OneOfAName /\ CopyNotOlder
  BY <1>1, FilesAssumption DEF OneOfAName, CopyNotOlder, Files
<1>5. Tagged /\ Ordered /\ WorkerAsks
  BY <1>1 DEF Tagged, Ordered, WorkerAsks, Who
<1>6. PageAsks /\ PutsPast /\ DOMAIN puts = {}
  BY <1>1, LoadersAssumption DEF PageAsks, PutsPast, Who, Pages, EmptyBag, SetToBag
<1>7. Shelved /\ Whole
  BY <1>1, <1>6 DEF Shelved, Whole, Who, Pages
<1>8. WorksOffline /\ Kept
  BY <1>2 DEF WorksOffline, Kept, Nothing
<1> QED BY <1>3, <1>4, <1>5, <1>6, <1>7, <1>8 DEF IInv

\* No step disturbs the invariant.
LEMMA NextIInv ==
  ASSUME IInv, [Next]_vars
  PROVE  IInv'
<1>1. CASE Next
  BY <1>1, TypeStep, CopiesStep, ServerGrows, OrderedStep, PageAsksStep, PutsPastStep, WorkerAsksStep,
     ShelvedStep, WholeStep, WorksOfflineStep, KeptStep DEF IInv
<1>2. CASE UNCHANGED vars
  <2> USE <1>2 DEF vars, serverVars, workerVars, pageVars, IInv
  <2>1. TypeOK' /\ OneOfAName' /\ CopyNotOlder' /\ Growing' /\ Tagged'
    BY DEF TypeOK, OneOfAName, CopyNotOlder, Growing, Tagged
  <2>2. Ordered' /\ PageAsks' /\ PutsPast' /\ WorkerAsks'
    BY DEF Ordered, PageAsks, PutsPast, WorkerAsks, Past, Known, NotAfter, Opening, Downloads
  <2>3. Shelved'
    BY DEF Shelved, Opened, Exists, OwnFirst
  <2>4. Whole' /\ WorksOffline' /\ Kept'
    BY DEF Whole, WorksOffline, Kept
  <2> QED BY <2>1, <2>2, <2>3, <2>4
<1> QED BY <1>1, <1>2

\* So it always holds.
LEMMA IInvariant == Spec => []IInv
<1>1. Init => IInv
  BY InitIInv
<1>2. IInv /\ [Next]_vars => IInv'
  BY NextIInv
<1> QED BY <1>1, <1>2, PTL DEF Spec

-----------------------------------------------------------------------------
(* What follows.                                                           *)

\* The page, its worker and gotweb hold what they may, no two caches have one
\* name, and a copy that is told by a version is not older than its tag (sw.js:181-201,
\* 298-311, gotweb.go:460-475, 523-534, 670-700).
THEOREM FrontendTyped == Spec => []FrontendInv
<1>1. IInv => FrontendInv
  BY DEF IInv, FrontendInv
<1> QED BY <1>1, IInvariant, PTL

\* What is in a worker's own cache is what is served of the file, if the worker's
\* caches come before the others.
LEMMA OwnServed ==
  ASSUME NEW cs \in Seq(Stores), NEW w \in Workers, NEW f \in Files, Unique(cs),
         \A i \in DOMAIN cs, g \in Files : cs[i].has[g] # Absent => cs[i].name[1] = Kind(g),
         \A i, j \in DOMAIN cs : cs[i].name \in Names(w) /\ cs[j].name \notin Names(w) => i < j,
         NEW own \in DOMAIN cs, cs[own].name \in Names(w), cs[own].has[f] # Absent
  PROVE  FirstOf(cs, f) = cs[own].has[f] /\ cs[own].name = NameFor(w, f)
<1>1. Holding(cs, f) # {} /\ own \in Nat
  BY DEF Holding
<1>2. PICK k \in DOMAIN cs :
        /\ FirstOf(cs, f) = cs[k].has[f] /\ cs[k].has[f] # Absent
        /\ \A j \in DOMAIN cs : cs[j].has[f] # Absent => k <= j
  BY <1>1, FirstFacts
<1>3. k <= own /\ k \in Nat
  BY <1>2
<1>4. cs[k].name \in Names(w)
  BY <1>1, <1>3
<1>5. cs[k].name = NameFor(w, f) /\ cs[own].name = NameFor(w, f)
  BY <1>2, <1>4, NameFacts
<1>6. k = own
  BY <1>5 DEF Unique
<1> QED BY <1>2, <1>5, <1>6

\* The same of the active worker.
LEMMA ActiveServes ==
  ASSUME TypeOK, OneOfAName, Shelved, active # None, NEW f \in Files,
         NEW i \in DOMAIN caches, caches[i].name \in Names(active), caches[i].has[f] # Absent
  PROVE  Cached(f) = caches[i].has[f] /\ caches[i].name = NameFor(active, f)
<1>1. caches \in Seq(Stores) /\ active \in Workers /\ Unique(caches)
  BY DEF TypeOK, OneOfAName, Unique
<1>2. /\ \A k \in DOMAIN caches, g \in Files :
           caches[k].has[g] # Absent => caches[k].name[1] = Kind(g)
      /\ \A k, j \in DOMAIN caches :
           caches[k].name \in Names(active) /\ caches[j].name \notin Names(active) => k < j
  BY DEF Shelved, OwnFirst
<1> QED BY <1>1, <1>2, OwnServed DEF Cached

\* A worker whose predecessors and itself were installed without a failure serves a
\* program and data at least as new as those its script was made of, but for what the
\* browser took from a copy of its own for fresh (gotweb.go:449-471, 556-600,
\* sw.js:64-114).
THEOREM ServesTheNewest == Spec => []ServesWhatItCameWith
<1>1. ASSUME IInv
      PROVE  ServesWhatItCameWith
  <2>1. SUFFICES ASSUME active # None, ~ brokeOff
                 PROVE  /\ Wasm \in unasked \/ Cached(Wasm) >= active.wasm
                        /\ Dat \in unasked \/ Cached(Dat) >= active.dat
    BY DEF ServesWhatItCameWith
  <2>2. TypeOK /\ OneOfAName /\ Shelved /\ Whole /\ Ordered /\ active \in Workers
        /\ caches \in Seq(Stores)
    BY <1>1, <2>1 DEF IInv, TypeOK
  <2>3. ASSUME NEW f \in {Wasm, Dat}
        PROVE  /\ f \in unasked \/ NameFor(active, f)[2] <= Cached(f)
               /\ Cached(f) \in Version
    <3>1. f \in Range(Listed) /\ f \in Files
      BY OpensFacts
    <3>2. PICK i \in DOMAIN caches :
            caches[i].name = NameFor(active, f) /\ caches[i].has[f] # Absent
      BY <1>1, <2>1, <3>1, Complete
    <3>3. caches[i].name \in Names(active)
      BY <2>2, <3>1, <3>2, NameFacts
    <3>4. Cached(f) = caches[i].has[f]
      BY <2>1, <2>2, <3>1, <3>2, <3>3, ActiveServes
    <3>5. f \in unasked \/ caches[i].name[2] <= caches[i].has[f]
      BY <2>1, <2>2, <3>2 DEF Whole
    <3>6. Cached(f) \in Version
      BY <2>2, <3>1, FirstFacts DEF Cached
    <3> QED BY <3>2, <3>4, <3>5, <3>6
  <2>4. NameFor(active, Wasm)[2] = active.wasm /\ NameFor(active, Dat)[2] = active.dat
    BY <2>1, <2>2, NameFacts DEF Ordered, Known, MadeOf
  <2>5. active.wasm \in Int /\ active.dat \in Int /\ \A v \in Version : v \in Int
    BY <2>2, BoundsAssumption DEF Workers, Version
  <2>6. /\ Wasm \in unasked \/ active.wasm <= Cached(Wasm)
        /\ Dat \in unasked \/ active.dat <= Cached(Dat)
        /\ Cached(Wasm) \in Int /\ Cached(Dat) \in Int
    BY <2>3, <2>4, <2>5
  <2> QED BY ONLY <2>5, <2>6
<1> QED BY <1>1, IInvariant, PTL

\* A page that a worker has loaded neither fails nor loses the lock for want of
\* gotweb, even if the worker is replaced under it (sw.js:181-201, 257-283,
\* http.go:55-103).
THEOREM Offline == Spec => []WorksOffline
<1>1. IInv => WorksOffline
  BY DEF IInv
<1> QED BY <1>1, IInvariant, PTL

\* Whatever a page opens of a file, and whoever opens it, is of one version
\* (http.go:78-97).
THEOREM OneVersionAlways == Spec => []OneVersion
<1>1. IInv => OneVersion
  BY DEF IInv, Kept, OneVersion
<1> QED BY <1>1, IInvariant, PTL

\* A cache of the active worker keeps what it has as long as the worker is active,
\* or gets what another fetch has brought.
LEMMA OwnKept ==
  ASSUME IInv, Next, active # None, active' = active, NEW i \in DOMAIN caches, NEW f \in Files,
         caches[i].name \in Names(active), caches[i].has[f] # Absent
  PROVE  /\ i \in DOMAIN caches' /\ caches'[i].name = caches[i].name
         /\ caches'[i].has[f] # Absent
         /\ \/ caches'[i].has[f] = caches[i].has[f]
            \/ brokeOff /\ \E p \in DOMAIN puts :
                 /\ NameFor(p.by, f) = caches[i].name /\ p.file = f
                 /\ caches'[i].has[f] = p.body
<1>1. TypeOK /\ OneOfAName /\ Shelved /\ Ordered /\ Whole /\ PutsPast /\ CacheStep
  BY CacheSteps DEF IInv
<1>2. caches[i].name = NameFor(active, f)
  BY <1>1, ActiveServes
<1> DEFINE Goal == /\ i \in DOMAIN caches' /\ caches'[i].name = caches[i].name
                   /\ caches'[i].has[f] # Absent
                   /\ \/ caches'[i].has[f] = caches[i].has[f]
                      \/ brokeOff /\ \E p \in DOMAIN puts :
                           /\ NameFor(p.by, f) = caches[i].name /\ p.file = f
                           /\ caches'[i].has[f] = p.body
<1>3. UNCHANGED caches => Goal
  OBVIOUS
<1>4. OpenedBy(caches', installing'.worker) => Goal
  BY DEF OpenedBy
<1>5. ASSUME NEW g \in Files, NEW v \in Version, AddPuts(g, v)
      PROVE  Goal
  <2>1. NameFor(installing.worker, g) # NameFor(active, g)
    BY <1>1, <1>5 DEF AddPuts, Shelved
  <2>2. PutInto(caches', NameFor(installing.worker, g), g, v)
    BY <1>5 DEF AddPuts
  <2>3. ~ (caches[i].name = NameFor(installing.worker, g) /\ f = g)
    BY <1>2, <2>1
  <2> QED BY <2>2, <2>3 DEF PutInto
<1>6. ASSUME NEW p \in DOMAIN puts, FetchPuts(p)
      PROVE  Goal
  <2>1. PutInto(caches', NameFor(p.by, p.file), p.file, p.body)
    BY <1>6 DEF FetchPuts
  <2>2. brokeOff /\ p.body # Absent
    BY <1>1, <1>6 DEF Whole, PutsPast
  <2>3. CASE caches[i].name = NameFor(p.by, p.file) /\ f = p.file
    <3>1. caches'[i].has[f] = p.body /\ i \in DOMAIN caches' /\ caches'[i].name = caches[i].name
      BY <2>1, <2>3 DEF PutInto
    <3> QED BY <1>6, <2>2, <2>3, <3>1
  <2>4. CASE ~ (caches[i].name = NameFor(p.by, p.file) /\ f = p.file)
    BY <2>1, <2>4 DEF PutInto
  <2> QED BY <2>3, <2>4
<1>7. ~ Activate
  BY <1>1 DEF Activate, Ordered
<1> HIDE DEF Goal
<1>8. Goal
  BY <1>1, <1>3, <1>4, <1>5, <1>6, <1>7 DEF CacheStep
<1> QED BY <1>8 DEF Goal

\* A file in a cache of the active worker is served from there, and goes on being
\* served until another worker is active: as it is, or, after an installation that was
\* broken off, as another fetch has brought it (sw.js:64-114, 181-201, 285-311).
THEOREM NoneLostAlways == Spec => NoneLost
<1> DEFINE Act == \A i \in DOMAIN caches, f \in Files :
                    /\ active # None /\ active' = active
                    /\ caches[i].name \in Names(active) /\ caches[i].has[f] # Absent
                    => /\ Cached(f) = caches[i].has[f]
                       /\ \/ Cached(f)' = Cached(f)
                          \/ brokeOff /\ \E p \in DOMAIN puts :
                               /\ NameFor(p.by, f) = caches[i].name /\ p.file = f
                               /\ Cached(f)' = p.body
<1>1. IInv /\ IInv' /\ [Next]_vars => [Act]_vars
  <2>1. SUFFICES ASSUME IInv, IInv', Next, NEW i \in DOMAIN caches, NEW f \in Files,
                        active # None, active' = active,
                        caches[i].name \in Names(active), caches[i].has[f] # Absent
                 PROVE  /\ Cached(f) = caches[i].has[f]
                        /\ \/ Cached(f)' = Cached(f)
                           \/ brokeOff /\ \E p \in DOMAIN puts :
                                /\ NameFor(p.by, f) = caches[i].name /\ p.file = f
                                /\ Cached(f)' = p.body
    OBVIOUS
  <2>2. Cached(f) = caches[i].has[f]
    BY <2>1, ActiveServes DEF IInv
  <2>3. /\ i \in DOMAIN caches' /\ caches'[i].name = caches[i].name
        /\ caches'[i].has[f] # Absent
        /\ \/ caches'[i].has[f] = caches[i].has[f]
           \/ brokeOff /\ \E p \in DOMAIN puts :
                /\ NameFor(p.by, f) = caches[i].name /\ p.file = f
                /\ caches'[i].has[f] = p.body
    BY <2>1, OwnKept
  <2>4. caches' \in Seq(Stores) /\ active' \in Workers /\ Unique(caches')
    BY <2>1 DEF IInv, TypeOK, OneOfAName, Unique
  <2>5. /\ \A k \in DOMAIN caches', g \in Files :
             caches'[k].has[g] # Absent => caches'[k].name[1] = Kind(g)
        /\ \A k, j \in DOMAIN caches' :
             caches'[k].name \in Names(active') /\ caches'[j].name \notin Names(active') => k < j
    BY <2>1 DEF IInv, Shelved, OwnFirst
  <2>6. FirstOf(caches', f) = caches'[i].has[f]
    BY <2>1, <2>3, <2>4, <2>5, OwnServed
  <2> QED BY <2>2, <2>3, <2>6 DEF Cached
<1> QED BY <1>1, IInvariant, PTL DEF Spec, NoneLost

=============================================================================
