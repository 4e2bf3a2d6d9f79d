------------------------------- MODULE Frontend --------------------------------
(***************************************************************************)
(* gotwebfe in a page of the browser (cmd/gotwebfe/main.go), with the way  *)
(* its files come: paths.Find and paths.Open of a file download it over    *)
(* HTTP under the lock of a cache (paths/http.go), past the service worker *)
(* if there is one, from gotweb.  Each press of a button starts another    *)
(* loader, in a goroutine of its own.                                      *)
(*                                                                         *)
(* A page has the program, runs main, and then its loaders; it is dead     *)
(* once the program has panicked or could not be had.  Reloading it begins *)
(* anew.  Of other tabs there is what they ask for and the installations   *)
(* that they start.                                                        *)
(***************************************************************************)
EXTENDS ServiceWorker

CONSTANTS
  Loaders,   \* calls of loaderPromise in a page
  Main,      \* the goroutine of main
  Needed,    \* the files of full.FromDefaultPaths, in its order
  Outfits    \* outfits.xml

Routines == Loaders \cup {Main}
Nobody == "nobody"  \* no holder of the lock
Leaked == "leaked"  \* one who has returned without releasing it

\* What a loader reads is listed by the worker (sw.js:24-35).
ASSUME LoadersAssumption ==
  /\ Main \notin Loaders /\ Routines \cap {Nobody, Leaked} = {}
  /\ Needed \in Seq(Range(Listed)) /\ Outfits \in Range(Listed)

\* What a goroutine opens: main the sprites, a loader all files to find them,
\* again to read them, and then the outfits.
Opens(l) == IF l = Main THEN <<Spr>> ELSE Append(Needed \o Needed, Outfits)

VARIABLES
  page,      \* "none", "boot", "running" or "dead"
  under,     \* the worker that was active when it was loaded
  step,      \* which of its files each goroutine opens, 0 before it is started
  lock,      \* who has cacheLock
  kept,      \* the cache of paths/http.go
  opened,    \* history: the versions of each file that were returned
  failed     \* history: a download of this page was not answered with 200

pageVars == <<page, under, step, lock, kept, opened, failed>>
vars == <<serverVars, left, workerVars, pageVars>>

Init ==
  /\ ServerInit /\ WorkerInit
  /\ page = "none" /\ under = None
  /\ step = [l \in Routines |-> 0]
  /\ lock = Nobody
  /\ kept = Nothing
  /\ opened = [f \in Files |-> {}]
  /\ failed = FALSE

-----------------------------------------------------------------------------
(* The page.                                                               *)

\* The page is loaded, or loaded again.  A fetch of the worker goes on; as many
\* do as there are Others (a bound).
Navigate ==
  /\ Event("load")
  /\ page' = "boot" /\ under' = active
  /\ step' = [l \in Routines |-> 0]
  /\ lock' = Nobody
  /\ kept' = Nothing
  /\ opened' = [f \in Files |-> {}]
  /\ failed' = FALSE
  /\ \/ /\ req["page"] # None => req["page"].by = None
        /\ req' = [req EXCEPT !["page"] = None]
     \/ \E o \in Others :
          /\ req["page"] # None /\ req["page"].by # None /\ req[o] = None
          /\ req' = [req EXCEPT !["page"] = None, ![o] = req["page"]]
  /\ UNCHANGED <<serverVars, copy, caches, active, installing, brokeOff, unasked, puts>>

\* navigator.serviceWorker.register, in this page or another, and what it finds.
Register ==
  /\ Update
  /\ UNCHANGED <<serverVars, pageVars>>

Opening(l) == step[l] \in DOMAIN Opens(l)

\* main begins with the program, and loaders with a button that it has shown.
Start(l) ==
  /\ page = "running" /\ step[l] = 0
  /\ IF l = Main THEN UNCHANGED left ELSE opened[Spr] # {} /\ Event("start")
  /\ step' = [step EXCEPT ![l] = 1]
  /\ UNCHANGED <<serverVars, workerVars, page, under, lock, kept, opened, failed>>

\* noFindOpenHTTPImp, to the download.
Lock(l) ==
  /\ page = "running" /\ Opening(l) /\ lock = Nobody
  /\ lock' = l
  /\ UNCHANGED <<serverVars, left, workerVars, page, under, step, kept, opened, failed>>

\* What the page is downloading: the program, and then what the holder opens.
Downloads(f) ==
  \/ page = "boot" /\ f = Wasm
  \/ page = "running" /\ lock \in Routines /\ f = Opens(lock)[step[lock]]

\* Faulty: what is in the cache is returned without unlocking it.
GotLocked(f, v) ==
  IF page = "boot" THEN page' = "running" /\ UNCHANGED <<step, lock, kept, opened>>
  ELSE LET body == IF kept[f] # Absent THEN kept[f] ELSE v
       IN  /\ kept' = [kept EXCEPT ![f] = body]
           /\ opened' = [opened EXCEPT ![f] = @ \cup {body}]
           /\ step' = [step EXCEPT ![lock] = @ + 1]
           /\ lock' = IF kept[f] # Absent THEN Leaked ELSE Nobody
           /\ UNCHANGED page

\* Faulty: the cache is not consulted.
GotLatest(f, v) ==
  IF page = "boot" THEN page' = "running" /\ UNCHANGED <<step, lock, kept, opened>>
  ELSE /\ kept' = [kept EXCEPT ![f] = v]
       /\ opened' = [opened EXCEPT ![f] = @ \cup {v}]
       /\ step' = [step EXCEPT ![lock] = @ + 1]
       /\ lock' = Nobody
       /\ UNCHANGED page

\* A download, of which only the first of a file is used.
Got(f, v) ==
  IF page = "boot" THEN page' = "running" /\ UNCHANGED <<step, lock, kept, opened>>
  ELSE LET body == IF kept[f] # Absent THEN kept[f] ELSE v
       IN  /\ kept' = [kept EXCEPT ![f] = body]
           /\ opened' = [opened EXCEPT ![f] = @ \cup {body}]
           /\ step' = [step EXCEPT ![lock] = @ + 1]
           /\ lock' = Nobody
           /\ UNCHANGED page

\* No program; or an error of http.Get, which panics; or an answer other than
\* 200 or a body that is cut off, with which the lock is not released.  What is
\* opened last is opened by paths.Open, which tries it once more and so waits for
\* the lock (find_wasm.go:57-64, fs.go:68).
Failed(error) ==
  /\ failed' = TRUE
  /\ IF page = "boot" \/ error THEN page' = "dead" /\ UNCHANGED <<step, lock>>
     ELSE /\ step' = [step EXCEPT ![lock] = IF @ < Len(Opens(lock)) THEN @ + 1 ELSE @]
          /\ lock' = Leaked
          /\ UNCHANGED page
  /\ UNCHANGED <<kept, opened>>

\* smartFetch finds the file in a cache.
GetCached(f) ==
  /\ Downloads(f) /\ req["page"] = None
  /\ active # None /\ Cached(f) # Absent
  /\ Got(f, Cached(f))
  /\ UNCHANGED <<serverVars, left, workerVars, under, failed>>

\* Otherwise, or without a worker, it is asked for.
Get(f) ==
  /\ Downloads(f) /\ req["page"] = None
  /\ active # None => Cached(f) = Absent
  /\ Ask("page", f)
  /\ UNCHANGED <<serverVars, left, copy, caches, active, installing, brokeOff, unasked, puts,
                 pageVars>>

\* The answer.  fetchAndStore makes an error of one that is not ok, as does the
\* browser of none; one may also come without all of its body, which is only read
\* of a file that is not kept.
GetAnswer(v) ==
  LET r == req["page"]
      gone == r.lost \/ left' # left
  IN  /\ FetchAnswers("page", v)
      /\ \/ v # Absent /\ Got(r.file, v) /\ UNCHANGED failed
         \/ v = Absent /\ Failed(r.by # None \/ gone)
         \/ v = Absent /\ gone /\ kept[r.file] = Absent /\ Failed(FALSE)
         \/ v = Absent /\ gone /\ kept[r.file] # Absent /\ Got(r.file, v) /\ UNCHANGED failed
      /\ UNCHANGED <<serverVars, caches, active, installing, brokeOff, under>>

-----------------------------------------------------------------------------

Worker ==
  /\ \/ AskToAdd
     \/ \E v \in Version : Add(v)
     \/ Activate
     \/ \E p \in DOMAIN puts : StoreFetched(p)
  /\ UNCHANGED <<serverVars, pageVars>>

OtherPages ==
  /\ \E who \in Others :
       \/ \E f \in Range(Listed) : OtherAsks(who, f)
       \/ \E v \in Version : OtherAnswered(who, v)
  /\ UNCHANGED <<serverVars, pageVars>>

Deploy ==
  \/ \E f \in Changing : Replace(f) /\ UNCHANGED <<workerVars, pageVars>>
  \/ RestartGotweb /\ UNCHANGED pageVars

Downloading ==
  \/ \E f \in Files : GetCached(f) \/ Get(f)
  \/ \E v \in Version : GetAnswer(v)

Next ==
  \/ Navigate \/ Register \/ Worker \/ OtherPages \/ Deploy \/ Downloading
  \/ \E l \in Routines : Start(l) \/ Lock(l)

Spec == Init /\ [][Next]_vars

\* Downloads come to an end, and goroutines that can run do, no matter in which
\* order.
FairSpec == Spec /\ WF_vars(Downloading \/ \E l \in Routines : Lock(l))

-----------------------------------------------------------------------------
(* Properties.                                                             *)

Stores == [name : {"app", "data"} \X Version, has : [Files -> Version]]
Copies == [tag : Version, body : Version]
Requests ==
  [file : Files, tag : Version, copy : Copies \cup {None}, by : Workers \cup {None},
   lost : BOOLEAN]

Fetched == [by : Workers, file : Files, body : Version]

TypeOK ==
  /\ disk \in [Files -> Version] /\ loaded \in Version
  /\ left \in [Kinds -> Nat]
  /\ copy \in [Files -> Copies \cup {None}]
  /\ caches \in Seq(Stores)
  /\ active \in Workers \cup {None}
  /\ installing \in Installations \cup {None}
  /\ req \in [Who -> Requests \cup {None}]
  /\ DOMAIN puts \subseteq Fetched /\ unasked \subseteq Files
  /\ {brokeOff, failed} \subseteq BOOLEAN
  /\ page \in {"none", "boot", "running", "dead"} /\ under \in Workers \cup {None}
  /\ lock \in Routines \cup {Nobody, Leaked}
  /\ kept \in [Files -> Version] /\ opened \in [Files -> SUBSET Version]
  /\ step \in [Routines -> Nat] /\ \A l \in Routines : step[l] <= Len(Opens(l)) + 1

\* No two caches have one name.
OneOfAName ==
  \A i, j \in DOMAIN caches : caches[i].name = caches[j].name => i = j

\* Of the files that are told by a hash or by the signature of the data, no copy
\* is older than what it is told by: whoever is answered that it has not been
\* modified has the file (gotweb.go:460-475, 523-534, 670-700).
CopyNotOlder ==
  \A f \in {Wasm, Dat, Pic} : copy[f] # None => copy[f].body >= copy[f].tag

\* The types of all there is, one cache of a name, and copies as new as their tags.
FrontendInv == TypeOK /\ OneOfAName /\ CopyNotOlder

\* An active worker of whose installations none was broken off has a program and
\* data at least as new as were there when its script was made, but for what the
\* browser gave it from a copy without asking (gotweb.go:556-600, sw.js:64-114).
ServesWhatItCameWith ==
  active # None /\ ~ brokeOff =>
    /\ Wasm \in unasked \/ Cached(Wasm) >= active.wasm
    /\ Dat \in unasked \/ Cached(Dat) >= active.dat

\* As long as a worker is active, a file that is in a cache of its own is served
\* from there, and is not lost, whatever becomes of its successors.  It stays the
\* same, but when an installation was broken off and what another fetch of it has
\* brought is put there late (sw.js:64-114, 181-201, 285-311).
NoneLost ==
  [][\A i \in DOMAIN caches, f \in Files :
       /\ active # None /\ active' = active
       /\ caches[i].name \in Names(active) /\ caches[i].has[f] # Absent
       => /\ Cached(f) = caches[i].has[f]
          /\ \/ Cached(f)' = Cached(f)
             \/ brokeOff /\ \E p \in DOMAIN puts :
                  /\ NameFor(p.by, f) = caches[i].name /\ p.file = f
                  /\ Cached(f)' = p.body]_vars

\* A page that a worker has loaded needs nothing of gotweb: as long as no
\* installation was broken off, it never fails, even over a change of workers
\* (sw.js:181-201, 257-283, http.go:64-77).
WorksOffline ==
  under # None /\ ~ brokeOff => page # "dead" /\ lock # Leaked /\ ~ failed

\* A page has one version of each file, however often it downloads it and
\* whatever changes meanwhile (http.go:78-97).
OneVersion == \A f \in Files : \A v, w \in opened[f] : v = w

\* A loader that was started ends, unless a download of its page failed
\* (http.go:55-103, main.go:164-220).
LoadersEnd ==
  \A l \in Loaders : step[l] = 1 ~> step[l] \in {0, Len(Opens(l)) + 1} \/ failed
=============================================================================
