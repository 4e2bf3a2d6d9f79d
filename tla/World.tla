-------------------------------- MODULE World --------------------------------
(***************************************************************************)
(* Where the players' creatures are: the map data source's creatures and   *)
(* tiles, and the operations the main goroutines perform on them without a *)
(* lock: AddCreature at login, moveCreature (gameworld/playermove.go),     *)
(* RemoveCreatureByID at logout.                                           *)
(*                                                                         *)
(* A tile keeps a slice of creatures.  Its AddCreature and RemoveCreature  *)
(* read the slice, build another and assign it: two steps, between which   *)
(* another player's goroutine may assign its own.  The order of the slice  *)
(* (the stack position) is left out: a slice is a count per creature.      *)
(*                                                                         *)
(* Two data sources are covered.  The procedural one stores every tile it  *)
(* generates (Stored = Pos); the OTBM map hands out a fresh tile, which it *)
(* forgets, for a position its file has none for (otb/map/public.go:77).   *)
(***************************************************************************)
EXTENDS Naturals

CONSTANTS
  Player,     \* the players, each with its creature
  Width,      \* x runs over 0..Width-1 and wraps: 2^16 in the code
  Height,     \* likewise y
  Stored,     \* the positions whose tile the data source keeps
  Spawn,      \* where each player's creature is added
  MaxMoves    \* bound: walk requests of one player

Pos == (0..Width - 1) \X (0..Height - 1)

ASSUME SizeAssumption == Width \in Nat \ {0} /\ Height \in Nat \ {0}
ASSUME MapAssumption == Stored \subseteq Pos /\ Spawn \in [Player -> Pos]
ASSUME MovesAssumption == MaxMoves \in Nat

VARIABLES
  creatures,  \* the creatures the data source has registered
  pos,        \* the position in each player's creature
  tile,       \* the slice of each stored tile: how often each creature is in it
  pc,         \* what each player's main goroutine is doing to the map
  loaded,     \* it has read the slice it is going to replace
  buf,        \* that slice
  target,     \* where a walk leads
  moves,      \* walks requested so far
  raced       \* history: some slice was replaced after it had changed

vars == <<creatures, pos, tile, pc, loaded, buf, target, moves, raced>>

Slice == [Player -> Nat]
Empty == [p \in Player |-> 0]
With(s, p)    == [s EXCEPT ![p] = @ + 1]
Without(s, p) == [s EXCEPT ![p] = 0]

Dirs == {"north", "east", "south", "west"}

\* uint16 arithmetic, scaled.
Neighbour(q, d) ==
  CASE d = "north" -> <<q[1], (q[2] + Height - 1) % Height>>
    [] d = "south" -> <<q[1], (q[2] + 1) % Height>>
    [] d = "west"  -> <<(q[1] + Width - 1) % Width, q[2]>>
    [] d = "east"  -> <<(q[1] + 1) % Width, q[2]>>

Init ==
  /\ creatures = {}
  /\ pos = Spawn
  /\ tile = [q \in Pos |-> Empty]
  /\ pc = [p \in Player |-> "out"]
  /\ loaded = [p \in Player |-> FALSE]
  /\ buf = [p \in Player |-> Empty]
  /\ target = Spawn
  /\ moves = [p \in Player |-> 0]
  /\ raced = FALSE

-----------------------------------------------------------------------------

\* The slice of the tile GetMapTile returns.
GetMapTile(q) == IF q \in Stored THEN tile[q] ELSE Empty

\* serveGame creates the creature and AddCreature registers it.
Enter(p) ==
  /\ pc[p] = "out"
  /\ creatures' = creatures \cup {p}
  /\ pc' = [pc EXCEPT ![p] = "adding"]
  /\ UNCHANGED <<pos, tile, loaded, buf, target, moves, raced>>

\* Faulty: moveCreature goes on although the creature is not on the tile.
WalkUnchecked(p, d) ==
  /\ pc[p] = "idle"
  /\ moves[p] < MaxMoves
  /\ moves' = [moves EXCEPT ![p] = @ + 1]
  /\ target' = [target EXCEPT ![p] = Neighbour(pos[p], d)]
  /\ pc' = [pc EXCEPT ![p] = "moving"]
  /\ UNCHANGED <<creatures, pos, tile, loaded, buf, raced>>

\* moveCreature looks for the creature on the tile of its position.
Walk(p, d) ==
  /\ pc[p] = "idle"
  /\ moves[p] < MaxMoves
  /\ moves' = [moves EXCEPT ![p] = @ + 1]
  /\ GetMapTile(pos[p])[p] > 0
  /\ target' = [target EXCEPT ![p] = Neighbour(pos[p], d)]
  /\ pc' = [pc EXCEPT ![p] = "moving"]
  /\ UNCHANGED <<creatures, pos, tile, loaded, buf, raced>>

\* "creature not found at expected tile": the request has no effect.
WalkFails(p) ==
  /\ pc[p] = "idle"
  /\ moves[p] < MaxMoves
  /\ moves' = [moves EXCEPT ![p] = @ + 1]
  /\ GetMapTile(pos[p])[p] = 0
  /\ UNCHANGED <<creatures, pos, tile, pc, loaded, buf, target, raced>>

\* RemoveCreatureByID unregisters the creature before it looks at its tile.
Leave(p) ==
  /\ pc[p] = "idle"
  /\ creatures' = creatures \ {p}
  /\ pc' = [pc EXCEPT ![p] = "erasing"]
  /\ UNCHANGED <<pos, tile, loaded, buf, target, moves, raced>>

-----------------------------------------------------------------------------
(* mapTile.AddCreature and mapTile.RemoveCreature.                         *)

LoadSlice(p) ==
  /\ pc[p] \in {"adding", "moving", "placing", "erasing"}
  /\ ~loaded[p]
  /\ loaded' = [loaded EXCEPT ![p] = TRUE]
  /\ buf' = [buf EXCEPT ![p] = GetMapTile(pos[p])]
  /\ UNCHANGED <<creatures, pos, tile, pc, target, moves, raced>>

\* t.creatures = s, on the tile at the creature's position.
Assign(p, s) ==
  /\ loaded[p]
  /\ loaded' = [loaded EXCEPT ![p] = FALSE]
  /\ buf' = [buf EXCEPT ![p] = Empty]
  /\ tile' = IF pos[p] \in Stored THEN [tile EXCEPT ![pos[p]] = s] ELSE tile
  /\ raced' = (raced \/ GetMapTile(pos[p]) # buf[p])

\* The end of AddCreature, at login or at the end of a walk.
Put(p) ==
  /\ pc[p] \in {"adding", "placing"}
  /\ Assign(p, With(buf[p], p))
  /\ pc' = [pc EXCEPT ![p] = "idle"]
  /\ UNCHANGED <<creatures, pos, target, moves>>

\* Faulty: the position is changed before the creature is taken off its tile.
TakeAfterSetPos(p) ==
  /\ pc[p] = "moving"
  /\ loaded[p]
  /\ loaded' = [loaded EXCEPT ![p] = FALSE]
  /\ buf' = [buf EXCEPT ![p] = Empty]
  /\ pos' = [pos EXCEPT ![p] = target[p]]
  /\ pc' = [pc EXCEPT ![p] = "placing"]
  /\ UNCHANGED <<creatures, tile, target, moves, raced>>

\* moveCreature: the old tile's RemoveCreature, then SetPos.
Take(p) ==
  /\ pc[p] = "moving"
  /\ Assign(p, Without(buf[p], p))
  /\ pos' = [pos EXCEPT ![p] = target[p]]
  /\ pc' = [pc EXCEPT ![p] = "placing"]
  /\ UNCHANGED <<creatures, target, moves>>

\* The end of RemoveCreatureByID.
Erase(p) ==
  /\ pc[p] = "erasing"
  /\ Assign(p, Without(buf[p], p))
  /\ pc' = [pc EXCEPT ![p] = "gone"]
  /\ UNCHANGED <<creatures, pos, target, moves>>

Next ==
  \E p \in Player :
    \/ Enter(p) \/ WalkFails(p) \/ Leave(p)
    \/ \E d \in Dirs : Walk(p, d)
    \/ LoadSlice(p) \/ Put(p) \/ Take(p) \/ Erase(p)

Spec == Init /\ [][Next]_vars

-----------------------------------------------------------------------------
(* Properties.                                                             *)

TypeOK ==
  /\ creatures \subseteq Player
  /\ pos \in [Player -> Pos]
  /\ tile \in [Pos -> Slice]
  /\ pc \in [Player -> {"out", "adding", "idle", "moving", "placing", "erasing", "gone"}]
  /\ loaded \in [Player -> BOOLEAN]
  /\ buf \in [Player -> Slice]
  /\ target \in [Player -> Pos]
  /\ moves \in [Player -> 0..MaxMoves]
  /\ raced \in BOOLEAN

\* The creature of p has been added to the tile of its position and not yet
\* been taken off it.
Standing(p) == pc[p] \in {"idle", "moving", "erasing"}

\* As long as no slice was replaced that had changed since it was read, every
\* creature is exactly once on the tile of its position if that is stored, and
\* nowhere else: before, between and after its walks (playermove.go:83-86),
\* and nowhere at all once it has left (gameworld/procedural_map.go:236-252).
\* So lost updates are the only way to break it.
TilesAgree ==
  ~raced =>
    \A p \in Player, q \in Pos :
      tile[q][p] = IF Standing(p) /\ q = pos[p] /\ q \in Stored THEN 1 ELSE 0

\* A player on a position whose tile is not stored never gets away from it,
\* although nothing else goes wrong: moveCreature does not find it there
\* (playermove.go:118-123).
StrandedStays ==
  [][\A p \in Player : pos[p] \notin Stored => pos'[p] = pos[p]]_vars

\* What the code promises of a finished walk: "the creature is removed from the
\* old tile and added to the new tile" (gameworld/playermove.go:85-86).
WalkEffect ==
  \A p \in Player :
    pc[p] = "idle" =>
      /\ tile[pos[p]][p] = 1
      /\ \A q \in Pos \ {pos[p]} : tile[q][p] = 0
=============================================================================
