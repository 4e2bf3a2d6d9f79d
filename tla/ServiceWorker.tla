----------------------------- MODULE ServiceWorker -----------------------------
(***************************************************************************)
(* The service worker of gotwebfe (datafiles/html/sw.js) and the browser   *)
(* around it: a worker keeps the files it lists in two caches, named after *)
(* versions that gotweb has put into its script; it answers for the page   *)
(* from any cache there is, and from gotweb otherwise.  A new script is    *)
(* installed beside the active one, and takes over when it has what it     *)
(* wants.                                                                  *)
(*                                                                         *)
(* The browser has copies of what it got over HTTP, of which it takes any  *)
(* for fresh, and asks gotweb about others.  A fetch of a worker is the    *)
(* worker's own: it goes on when the page that it is for has gone, and     *)
(* what it brings is put into a cache in its own time.                     *)
(*                                                                         *)
(* A worker's requests are answered in the order of its list; one worker   *)
(* is installed at a time, and is activated in one step.                   *)
(***************************************************************************)
EXTENDS Gotweb, Sequences, SequencesExt, Bags

CONSTANTS
  Listed,    \* the files that a worker keeps, in the order of cachesSpec
  None,      \* no worker, no request, no copy
  Others     \* requests of other pages: of other tabs, or that have gone

\* The program and the data are listed (sw.js:18, 33-35), and nothing twice.
ASSUME ListedAssumption ==
  /\ Listed \in Seq(Files) /\ IsInjective(Listed)
  /\ {Wasm, Dat, Spr} \subseteq Range(Listed)
ASSUME OthersAssumption == Others \cap {"worker", "page"} = {}

\* A worker: the script, and the program and data that it was made of.
Workers == [script : [wasm : Version, dat : Version], wasm : Version, dat : Version]

\* The installation of one, and what it still wants.
Installations == [worker : Workers, wants : SUBSET Range(Listed)]

ASSUME NoneAssumption == None \notin Workers \cup Installations

VARIABLES
  copy,       \* the browser's copy of each file and what it is told by, or None
  caches,     \* the caches of workers, as they were created
  active,     \* the script of the active worker, and what it was made of, or None
  installing, \* the worker being installed and what it still wants, or None
  brokeOff,   \* history: an installation has failed
  unasked,    \* history: the files that one was given from the browser's copy
  req,        \* the requests of the worker, of the page, and of other pages
  puts        \* what fetches have brought, and will put into a cache

workerVars == <<copy, caches, active, installing, brokeOff, unasked, req, puts>>

Pages == {"page"} \cup Others
Who == {"worker"} \cup Pages
Nothing == [f \in Files |-> Absent]
AppName(w) == <<"app", w.script.wasm>>
DataName(w) == <<"data", w.script.dat>>
Names(w) == {AppName(w), DataName(w)}
NameFor(w, f) == IF f \in DataFiles THEN DataName(w) ELSE AppName(w)
ExistsIn(cs, name) == \E i \in DOMAIN cs : cs[i].name = name
Exists(name) == ExistsIn(caches, name)

WorkerInit ==
  /\ copy = [f \in Files |-> None]
  /\ caches = <<>>
  /\ active = None /\ installing = None /\ brokeOff = FALSE /\ unasked = {}
  /\ req = [who \in Who |-> None]
  /\ puts = EmptyBag

-----------------------------------------------------------------------------
(* Requests.                                                               *)

\* caches.open(name).put: the cache is created if there is none.
Put(name, f, v) ==
  IF Exists(name)
  THEN [i \in DOMAIN caches |->
          IF caches[i].name = name THEN [caches[i] EXCEPT !.has[f] = v] ELSE caches[i]]
  ELSE Append(caches, [name |-> name, has |-> [Nothing EXCEPT ![f] = v]])

\* matchCachesIndividually: what is in the oldest cache that has the file.
Holding(cs, f) == {i \in DOMAIN cs : cs[i].has[f] # Absent}
FirstOf(cs, f) == IF Holding(cs, f) = {} THEN Absent ELSE cs[Min(Holding(cs, f))].has[f]
Cached(f) == FirstOf(caches, f)

\* A request reaches its handler, which computes the tag.
Ask(who, f) ==
  req' = [req EXCEPT ![who] =
            [file |-> f, tag |-> Tag(f), copy |-> copy[f], by |-> active, lost |-> FALSE]]

\* Faulty: whatever the browser has is not modified.
BodyUnmodified(r) == IF r.copy # None THEN r.copy.body ELSE disk[r.file]

\* The handler finds that the browser has the file, or serves it.
Body(r) ==
  IF r.copy # None /\ r.copy.tag = TagOf(r.file, r.tag) THEN r.copy.body ELSE disk[r.file]

\* The answer v to a request, Absent if there is none or it is not 200.
Answers(who, v) ==
  LET r == req[who]
  IN  /\ r # None
      /\ req' = [req EXCEPT ![who] = None]
      /\ \/ /\ ~ r.lost /\ v = Body(r)
            /\ copy' = IF v = Absent THEN copy
                       ELSE [copy EXCEPT ![r.file] =
                               [tag |-> TagOf(r.file, r.tag), body |-> v]]
            /\ UNCHANGED <<unasked, left>>
         \/ /\ r.copy # None /\ v = r.copy.body  \* taken for fresh
            /\ unasked' = IF who = "worker" THEN unasked \cup {r.file} ELSE unasked
            /\ UNCHANGED <<copy, left>>
         \/ /\ v = Absent
            /\ IF r.lost THEN UNCHANGED left ELSE Event("lose")
            /\ UNCHANGED <<copy, unasked>>

\* fetchAndStore: the answer for a page is put into a cache of the worker that
\* asked, but nobody waits for that.
FetchAnswers(who, v) ==
  LET r == req[who]
  IN  /\ Answers(who, v)
      /\ puts' = IF v # Absent /\ r.by # None
                 THEN puts (+) SetToBag({[by |-> r.by, file |-> r.file, body |-> v]})
                 ELSE puts

\* The put.
StoreFetched(p) ==
  /\ p \in DOMAIN puts
  /\ puts' = puts (-) SetToBag({p})
  /\ caches' = Put(NameFor(p.by, p.file), p.file, p.body)
  /\ UNCHANGED <<copy, active, installing, brokeOff, unasked, req, left>>

\* Another page asks for a file of the list, unless a worker finds it in a cache.
OtherAsks(who, f) ==
  /\ Event("aside")
  /\ req[who] = None
  /\ active # None => Cached(f) = Absent
  /\ Ask(who, f)
  /\ UNCHANGED <<copy, caches, active, installing, brokeOff, unasked, puts>>

OtherAnswered(who, v) ==
  /\ FetchAnswers(who, v)
  /\ UNCHANGED <<caches, active, installing, brokeOff>>

\* gotweb is restarted, and answers nobody who asked before.
RestartGotweb ==
  /\ Restart
  /\ req' = [who \in Who |-> IF req[who] = None THEN None ELSE [req[who] EXCEPT !.lost = TRUE]]
  /\ UNCHANGED <<copy, caches, active, installing, brokeOff, unasked, puts>>

-----------------------------------------------------------------------------
(* Installation.                                                           *)

\* The files whose cache does not exist; one that does is taken for complete.
Wanted(w) == {f \in Range(Listed) : ~ Exists(NameFor(w, f))}
Fresh(name) == IF Exists(name) THEN <<>> ELSE <<[name |-> name, has |-> Nothing]>>

\* The browser gets sw.js, which differs from the active one, and install opens
\* the caches that do not exist.
Update ==
  LET w == [script |-> Script, wasm |-> disk[Wasm], dat |-> loaded]
  IN  /\ Event("install")
      /\ installing = None
      /\ active # None => active.script # Script
      /\ installing' = [worker |-> w, wants |-> Wanted(w)]
      /\ caches' = caches \o Fresh(AppName(w)) \o Fresh(DataName(w))
      /\ UNCHANGED <<copy, active, brokeOff, unasked, req, puts>>

\* cache.add: the request, for the next in the list.
Upcoming == Listed[Min({i \in DOMAIN Listed : Listed[i] \in installing.wants})]
AskToAdd ==
  /\ installing # None /\ installing.wants # {} /\ req["worker"] = None
  /\ Ask("worker", Upcoming)
  /\ UNCHANGED <<copy, caches, active, installing, brokeOff, unasked, puts, left>>

\* Faulty: an installation that fails deletes the caches of its worker.
AddCleaning(v) ==
  LET f == req["worker"].file
  IN  /\ Answers("worker", v)
      /\ IF v = Absent
         THEN /\ installing' = None /\ brokeOff' = TRUE
              /\ caches' = SelectSeq(caches, LAMBDA c : c.name \notin Names(installing.worker))
         ELSE /\ installing' = [installing EXCEPT !.wants = @ \ {f}]
              /\ caches' = Put(NameFor(installing.worker, f), f, v)
              /\ UNCHANGED brokeOff
      /\ UNCHANGED <<active, puts>>

\* cache.add: the answer.  Without one, the installation has failed, and the
\* caches stay.
Add(v) ==
  LET f == req["worker"].file
  IN  /\ Answers("worker", v)
      /\ IF v = Absent
         THEN installing' = None /\ brokeOff' = TRUE /\ UNCHANGED caches
         ELSE /\ installing' = [installing EXCEPT !.wants = @ \ {f}]
              /\ caches' = Put(NameFor(installing.worker, f), f, v)
              /\ UNCHANGED brokeOff
      /\ UNCHANGED <<active, puts>>

\* The caches of a worker, the older first: both exist once it is installing.
Place(name) == CHOOSE i \in DOMAIN caches : caches[i].name = name
CachesOf(w) ==
  LET app == Place(AppName(w))
      data == Place(DataName(w))
  IN  IF app < data THEN <<caches[app], caches[data]>> ELSE <<caches[data], caches[app]>>

\* Faulty: the install event is over before everything is added.
ActivateEarly ==
  /\ installing # None /\ req["worker"] = None
  /\ active' = installing.worker /\ installing' = None
  /\ caches' = CachesOf(installing.worker)
  /\ UNCHANGED <<copy, brokeOff, unasked, req, puts, left>>

\* skipWaiting and activate: caches of other names are deleted.
Activate ==
  /\ installing # None /\ installing.wants = {}
  /\ active' = installing.worker /\ installing' = None
  /\ caches' = CachesOf(installing.worker)
  /\ UNCHANGED <<copy, brokeOff, unasked, req, puts, left>>
=============================================================================
