-------------------------------- MODULE Gotweb ---------------------------------
(***************************************************************************)
(* The files that gotweb serves under /app/ (cmd/gotweb/gotweb.go), while  *)
(* they are replaced on the disk and gotweb is restarted.                  *)
(*                                                                         *)
(* A file is its version, which also stands for its modification time, its *)
(* hash and the signature in it: all are as good as the author's who puts  *)
(* another version there.  gotweb has read Tibia.dat and Tibia.spr when it *)
(* was started, and tells what it read by their signatures; but the        *)
(* signature of sprites is never set (spr/spr.go DecodeAll).               *)
(***************************************************************************)
EXTENDS Integers

CONSTANTS
  Wasm,            \* html/main.wasm
  Dat, Spr, Pic,   \* Tibia.dat, Tibia.spr, Tibia.pic
  AppFiles,        \* files of the program: Wasm and more
  DataFiles,       \* files of the data: Dat, Spr, Pic
  Optional,        \* files that may be missing
  Changing,        \* bound: files that are replaced
  MaxChanges,      \* bound: how often any is
  Scenarios        \* bound: how often each kind of event may happen

Files == AppFiles \cup DataFiles
Absent == 0

ASSUME FilesAssumption ==
  /\ Wasm \in AppFiles /\ {Dat, Spr, Pic} \subseteq DataFiles
  /\ Dat # Spr /\ Dat # Pic /\ Spr # Pic
  /\ AppFiles \cap DataFiles = {}
  /\ Optional \subseteq Files \ {Wasm, Dat, Spr, Pic} /\ Changing \subseteq Files \ Optional

\* What happens by itself: a file is replaced, gotweb restarted, a worker
\* installed, a page loaded, a loader started, another page asks for a file,
\* a request gets no answer.
Kinds == {"replace", "restart", "install", "load", "start", "aside", "lose"}
ASSUME BoundsAssumption ==
  /\ MaxChanges \in Nat
  /\ Scenarios \subseteq [Kinds -> Nat] /\ \A s \in Scenarios : s["replace"] <= MaxChanges

Version == 0..1 + MaxChanges

VARIABLES
  disk,    \* the version of each file, or Absent
  loaded,  \* the version of Tibia.dat that gotweb was started with
  left     \* how often each kind of event may still happen

serverVars == <<disk, loaded>>

Event(kind) == left[kind] > 0 /\ left' = [left EXCEPT ![kind] = @ - 1]

ServerInit ==
  /\ disk \in {d \in [Files -> {Absent, 1}] : \A f \in Files \ Optional : d[f] = 1}
  /\ loaded = disk[Dat]
  /\ left \in Scenarios

\* Somebody puts another version of a file in its place.
Replace(f) ==
  /\ Event("replace")
  /\ disk' = [disk EXCEPT ![f] = @ + 1]
  /\ UNCHANGED loaded

\* thingsOpen, as gotweb starts again.
Restart ==
  /\ Event("restart")
  /\ loaded' = disk[Dat]
  /\ UNCHANGED disk

-----------------------------------------------------------------------------
(* The handlers.                                                           *)

\* Faulty: the signature of Tibia.dat is no better than that of Tibia.spr.
TagUnsigned(f) == IF f \in {Dat, Spr} THEN 0 ELSE disk[f]

\* What a handler tells a file by when it begins: the signature read at the
\* start, or else the contents, or the signature that is in the file now.
Tag(f) == IF f = Dat THEN loaded ELSE IF f = Spr THEN 0 ELSE disk[f]

\* The handlers compare tags first, and then http.ServeFile opens the file by
\* itself.  Only for files that have no tag of the handler's it tells them by
\* what it serves.
HasTag(f) == f \in {Wasm, Dat, Spr, Pic}
TagOf(f, began) == IF HasTag(f) THEN began ELSE disk[f]

\* sw.js names its caches after main.wasm on the disk, and the data loaded.
Script == [wasm |-> disk[Wasm], dat |-> loaded]
=============================================================================
