------------------------------ MODULE OtbmLoader ------------------------------
(***************************************************************************)
(* How an OTBM map is built from the tree of its file (otb/map/new.go,     *)
(* otb/map/map.go): a walk of the tree, in which each node first reads its *)
(* own properties and then has its children read.                          *)
(*                                                                         *)
(* The file is chosen as it is read.  A node's frame stands for the call   *)
(* of the function that reads it.  Positions are on a line that wraps, as  *)
(* x and y do; 0 is the origin, which the loader takes for no position.    *)
(* Of an item the model has its server identifier, by which it is looked   *)
(* up in the items loaded before; item attributes are left out, and so is  *)
(* what is read and only logged: tile flags, houses, names.                *)
(***************************************************************************)
EXTENDS ItemsOtb

CONSTANTS
  Wrap,       \* positions are 0..Wrap-1
  Offsets,    \* of a tile in its area
  FileIDs,    \* server identifiers in the map file
  GroundID,   \* the ground put under creatures: 100
  MaxNodes    \* bound: nodes and inline items in the file

Pos == 0..Wrap - 1

ASSUME MapFileAssumption ==
  /\ Wrap \in Nat \ {0}
  /\ Offsets \subseteq Nat
  /\ FileIDs \subseteq ID
  /\ GroundID \in ID \ {0}
  /\ MaxNodes \in Nat

VARIABLES
  frames,    \* the calls of the functions that read nodes
  tiles,     \* the map's tiles, by position
  spawn,     \* defaultPlayerSpawnPoint
  mapFile,   \* New: "waiting" for the items, "reading", "loaded", "failed", "panicked"
  nodes,     \* how many nodes and inline items were read
  listed,    \* history: the items the file lists on the last tile at a position
  temples    \* history: the positions of towns and waypoints, in order

mapVars == <<frames, tiles, spawn, mapFile, nodes, listed, temples>>
vars == <<itemsVars, mapVars>>

Frame(at, p, id) == [at |-> at, pos |-> p, id |-> id]
Top == frames[Len(frames)]
Parent == frames[Len(frames) - 1]
Push(f) == frames' = Append(frames, f)
Popped == SubSeq(frames, 1, Len(frames) - 1)

EmptyTile == [ground |-> 0, layers |-> [n \in 0..3 |-> <<>>]]

\* The items GetItem returns for 0, 1, ...
Contents(t) ==
  (IF t.ground # 0 THEN <<t.ground>> ELSE <<>>)
    \o t.layers[0] \o t.layers[1] \o t.layers[2] \o t.layers[3]

Init ==
  /\ ItemsInit
  /\ frames = <<>>
  /\ tiles = [p \in {} |-> EmptyTile]
  /\ spawn = 0
  /\ mapFile = "waiting"
  /\ nodes = 0
  /\ listed = [p \in Pos |-> <<>>]
  /\ temples = <<>>

-----------------------------------------------------------------------------
(* Nodes.                                                                  *)

\* gotserv gives New the map file once things are there; its root has the
\* right type and header.
OpenMap ==
  /\ itemsFile = "loaded"
  /\ mapFile = "waiting"
  /\ mapFile' = "reading"
  /\ Push(Frame("root", 0, 0))
  /\ UNCHANGED <<tiles, spawn, nodes, listed, temples>>

\* The next node of the file is a child of the node that is being read.
Child(parents) ==
  /\ mapFile = "reading"
  /\ nodes < MaxNodes
  /\ Top.at \in parents
  /\ nodes' = nodes + 1
  /\ UNCHANGED mapFile

\* OTBM_MAP_DATA, with its description and file names.
MapData ==
  /\ Child({"root"})
  /\ Push(Frame("mapData", 0, 0))
  /\ UNCHANGED <<tiles, spawn, listed, temples>>

\* OTBM_ITEM_DEF is ignored, and its children with it.
ItemDef ==
  /\ Child({"mapData"})
  /\ UNCHANGED <<frames, tiles, spawn, listed, temples>>

TileArea(p) ==
  /\ Child({"mapData"})
  /\ Push(Frame("area", p, 0))
  /\ UNCHANGED <<tiles, spawn, listed, temples>>

\* OTBM_TILE and OTBM_HOUSETILE: the tile is stored before it is read, in the
\* place of any other at its position.
Tile(off) ==
  /\ Child({"area"})
  /\ LET p == (Top.pos + off) % Wrap
     IN  /\ tiles' = Put(tiles, p, EmptyTile)
         /\ listed' = [listed EXCEPT ![p] = <<>>]
         /\ Push(Frame("attributes", p, 0))
  /\ UNCHANGED <<spawn, temples>>

\* All attributes of the tile have been read.
EndAttributes ==
  /\ mapFile = "reading"
  /\ Top.at = "attributes"
  /\ frames' = Append(Popped, Frame("tile", Top.pos, 0))
  /\ UNCHANGED <<tiles, spawn, mapFile, nodes, listed, temples>>

-----------------------------------------------------------------------------
(* Items.                                                                  *)

\* The tile t after addItem.
WithItem(t, id) ==
  LET r == ItemByServerID(id)
  IN  IF r.ground THEN [t EXCEPT !.ground = id]
      ELSE [t EXCEPT !.layers[r.order] = Append(@, id)]

\* Faulty: the item is put below those that are there.
AddItemBelow(p, id) ==
  IF id = 0 \/ ~Known(id) THEN UNCHANGED <<tiles, mapFile>>
  ELSE LET r == ItemByServerID(id)
           t == tiles[p]
       IN  /\ tiles' = [tiles EXCEPT ![p] =
                          IF r.ground THEN [t EXCEPT !.ground = id]
                          ELSE [t EXCEPT !.layers[r.order] = <<id>> \o @]]
           /\ UNCHANGED mapFile

\* Faulty: an item that is not in items.otb is stored on layer 0.
AddItemUnknown(p, id) ==
  IF id = 0 THEN UNCHANGED <<tiles, mapFile>>
  ELSE /\ tiles' = [tiles EXCEPT ![p] =
                      IF Known(id) THEN WithItem(@, id)
                      ELSE [@ EXCEPT !.layers[0] = Append(@, id)]]
       /\ UNCHANGED mapFile

\* Item 0 and items that are not in items.otb are dropped.  An order that is
\* not that of one of the four layers is out of their range.
AddItem(p, id) ==
  IF id = 0 \/ ~Known(id) THEN UNCHANGED <<tiles, mapFile>>
  ELSE IF ~ItemByServerID(id).ground /\ ItemByServerID(id).order > 3
       THEN mapFile' = "panicked" /\ UNCHANGED tiles
       ELSE /\ tiles' = [tiles EXCEPT ![p] = WithItem(@, id)]
            /\ UNCHANGED mapFile

List(p, id) == listed' = [listed EXCEPT ![p] = Append(@, id)]

\* OTBM_ATTR_ITEM among the tile's attributes: a countable item stops the
\* program.
InlineItem(id) ==
  /\ mapFile = "reading"
  /\ nodes < MaxNodes
  /\ Top.at = "attributes"
  /\ nodes' = nodes + 1
  /\ List(Top.pos, id)
  /\ IF Known(id) /\ ItemByServerID(id).countable
     THEN mapFile' = "panicked" /\ UNCHANGED tiles
     ELSE AddItem(Top.pos, id)
  /\ UNCHANGED <<frames, spawn, temples>>

\* OTBM_ITEM with identifier 0 is ignored, and its children with it.
NoItem ==
  /\ Child({"tile", "item"})
  /\ UNCHANGED <<frames, tiles, spawn, listed, temples>>

\* OTBM_ITEM: its attributes are read, then the items in it.
ItemNode(id) ==
  /\ id # 0
  /\ Child({"tile", "item"})
  /\ Push(Frame("item", Top.pos, id))
  /\ IF Top.at = "tile" THEN List(Top.pos, id) ELSE UNCHANGED listed
  /\ UNCHANGED <<tiles, spawn, temples>>

\* The item is added to its tile; one in another item is forgotten.
EndItem ==
  /\ mapFile = "reading"
  /\ Top.at = "item"
  /\ frames' = Popped
  /\ IF Parent.at = "tile" THEN AddItem(Top.pos, Top.id)
     ELSE UNCHANGED <<tiles, mapFile>>
  /\ UNCHANGED <<spawn, nodes, listed, temples>>

-----------------------------------------------------------------------------
(* Towns and waypoints, and the ends.                                      *)

\* OTBM_TOWNS and OTBM_WAYPOINTS.
Places ==
  /\ Child({"mapData"})
  /\ Push(Frame("places", 0, 0))
  /\ UNCHANGED <<tiles, spawn, listed, temples>>

\* OTBM_TOWN or OTBM_WAYPOINT: the first is where players start.
Place(p) ==
  /\ Child({"places"})
  /\ temples' = Append(temples, p)
  /\ spawn' = IF spawn = 0 THEN p ELSE spawn
  /\ UNCHANGED <<frames, tiles, listed>>

\* A node other than an item has no more children.
EndNode ==
  /\ mapFile = "reading"
  /\ Top.at \in {"mapData", "area", "tile", "places"}
  /\ frames' = Popped
  /\ UNCHANGED <<tiles, spawn, mapFile, nodes, listed, temples>>

\* The root has no more children; it must have had some.
CloseMap ==
  /\ mapFile = "reading"
  /\ Top.at = "root"
  /\ nodes > 0
  /\ frames' = <<>>
  /\ mapFile' = "loaded"
  /\ UNCHANGED <<tiles, spawn, nodes, listed, temples>>

\* A node of a type its parent does not have, an attribute of an unknown type,
\* or properties that are cut short: New returns no map.
MapFails ==
  /\ mapFile = "reading"
  /\ mapFile' = "failed"
  /\ UNCHANGED <<frames, tiles, spawn, nodes, listed, temples>>

-----------------------------------------------------------------------------
(* The loaded map.                                                         *)

\* AddCreature puts ground under a creature on a tile without any item, and
\* does not look for it in items.otb.
StandOn(p) ==
  /\ mapFile = "loaded"
  /\ p \in DOMAIN tiles
  /\ Contents(tiles[p]) = <<>>
  /\ tiles' = [tiles EXCEPT ![p].ground = GroundID]
  /\ UNCHANGED <<frames, spawn, mapFile, nodes, listed, temples>>

ReadMap ==
  \/ OpenMap \/ MapData \/ ItemDef \/ EndAttributes
  \/ \E p \in Pos : TileArea(p) \/ Place(p)
  \/ \E off \in Offsets : Tile(off)
  \/ \E id \in FileIDs : InlineItem(id) \/ ItemNode(id)
  \/ NoItem \/ EndItem \/ Places \/ EndNode \/ CloseMap \/ MapFails
  \/ \E p \in Pos : StandOn(p)

Next == (ItemsNext /\ UNCHANGED mapVars) \/ (ReadMap /\ UNCHANGED itemsVars)

Spec == Init /\ [][Next]_vars

-----------------------------------------------------------------------------
(* Properties.                                                             *)

Call == [at : {"root", "mapData", "area", "attributes", "tile", "item", "places"},
         pos : Pos, id : ID]
TileOnMap == [ground : ID, layers : [0..3 -> Seq(ID)]]

TypeOK ==
  /\ ItemsTypeOK
  /\ frames \in Seq(Call)
  /\ tiles \in [DOMAIN tiles -> TileOnMap] /\ DOMAIN tiles \subseteq Pos
  /\ spawn \in Pos
  /\ mapFile \in {"waiting", "reading", "loaded", "failed", "panicked"}
  /\ nodes \in 0..MaxNodes
  /\ listed \in [Pos -> Seq(ID)]
  /\ temples \in Seq(Pos)

\* The identifiers of items.otb that are ground, and those on a layer.
Grounds == {id \in DOMAIN byServer : id # 0 /\ ItemByServerID(id).ground}
OnLayer(n) ==
  {id \in DOMAIN byServer :
     id # 0 /\ ~ItemByServerID(id).ground /\ ItemByServerID(id).order = n}

\* q is what s has of T, in the order of s.
Sifted(q, s, T) ==
  LET upTo(k) == {i \in 1..k : s[i] \in T}
  IN  /\ Len(q) = Cardinality(upTo(Len(s)))
      /\ \A k \in upTo(Len(s)) : q[Cardinality(upTo(k))] = s[k]

\* g is the last of T in s, or there is none and it is 0.
LastOf(g, s, T) ==
  \/ g = 0 /\ \A i \in 1..Len(s) : s[i] \notin T
  \/ \E i \in 1..Len(s) :
       /\ g = s[i] /\ g \in T
       /\ \A j \in i + 1..Len(s) : s[j] \notin T

\* The tile t is what items.otb knows of the list s: the last ground, and the
\* others on the layer of their order, those of one layer as they are listed.
AsListed(t, s) ==
  /\ LastOf(t.ground, s, Grounds)
  /\ \A n \in 0..3 : Sifted(t.layers[n], s, OnLayer(n))

\* Nothing on it could be kept, and somebody stands on it.
StoodOn(t, s) == AsListed(EmptyTile, s) /\ t = [EmptyTile EXCEPT !.ground = GroundID]

\* Between two items the map has on each tile what the file lists there,
\* whether it is listed inline or as nodes, with or without contents, and
\* whatever else was at the same position (otb/map/map.go:341-426, 582-597).
TilesAsListed ==
  mapFile \in {"reading", "loaded"} /\ (\A i \in 1..Len(frames) : frames[i].at # "item") =>
    \A p \in DOMAIN tiles :
      AsListed(tiles[p], listed[p]) \/ StoodOn(tiles[p], listed[p])

AllKnown(t) ==
  /\ t.ground \in DOMAIN byServer \cup {0, GroundID}
  /\ \A n \in 0..3 : \A i \in 1..Len(t.layers[n]) : Known(t.layers[n][i])

\* Everything on a tile is in items.otb, where those who describe and draw
\* tiles look it up (gameworld/map.go:318-329), except the ground put under
\* creatures, although an error of addItem is dropped (otb/map/map.go:411, 595)
\* and an item is only looked up when it is added.
TilesKnown == \A p \in DOMAIN tiles : AllKnown(tiles[p])

\* Players start at the first town or waypoint of the file that is not at the
\* origin, whichever list comes first (otb/map/map.go:668, 730).
SpawnIsFirst ==
  \/ spawn = 0 /\ \A i \in 1..Len(temples) : temples[i] = 0
  \/ \E i \in 1..Len(temples) :
       /\ temples[i] = spawn /\ spawn # 0
       /\ \A j \in 1..i - 1 : temples[j] = 0

\* What has been loaded is what the file lists, tiles and places; and no index
\* or order is out of range unless the program has stopped there
\* (otb/map/map.go:117, 407).
LoadedAsListed == TypeOK /\ TilesAsListed /\ SpawnIsFirst

-----------------------------------------------------------------------------
(* The inductive invariant behind TilesKnown and the indexes.              *)

\* Every item that has a server identifier is found by one; the file is read
\* below its root.
LoaderInv ==
  /\ TypeOK
  /\ IndexesAgree
  /\ \A i \in 1..Len(items) : items[i].server # None => Known(items[i].server)
  /\ TilesKnown
  /\ mapFile = "waiting" => frames = <<>>
  /\ mapFile = "reading" => frames # <<>> /\ frames[1].at = "root"

-----------------------------------------------------------------------------
(* The inductive invariant behind LoadedAsListed.                          *)

\* A function reads a node in the call of the one that reads its parent.
Nested ==
  \A i \in 1..Len(frames) :
    /\ frames[i].at = "root" <=> i = 1
    /\ frames[i].at = "mapData" <=> i = 2
    /\ frames[i].at \in {"area", "places"} <=> i = 3
    /\ frames[i].at \in {"attributes", "tile"} <=> i = 4
    /\ frames[i].at \in {"attributes", "places"} => i = Len(frames)

\* An item and all that is in it are read for one tile, which is on the map.
OnOneTile ==
  Len(frames) >= 4 =>
    /\ frames[4].pos \in DOMAIN tiles
    /\ \A i \in 5..Len(frames) : frames[i].pos = frames[4].pos

\* The item that is being read is listed, and not on its tile yet.
ItemPending ==
  Len(frames) >= 5 =>
    LET s == listed[frames[4].pos]
    IN  /\ s # <<>> /\ s[Len(s)] = frames[5].id
        /\ AsListed(tiles[frames[4].pos], SubSeq(s, 1, Len(s) - 1))

\* Every other tile is as listed.
OthersAsListed ==
  \A p \in DOMAIN tiles :
    ~(Len(frames) >= 5 /\ p = frames[4].pos) => AsListed(tiles[p], listed[p])

WalkInv ==
  /\ mapFile = "waiting" => DOMAIN tiles = {} /\ frames = <<>>
  /\ mapFile # "waiting" => itemsFile = "loaded"
  /\ mapFile = "reading" => Nested /\ OnOneTile /\ ItemPending /\ OthersAsListed
  /\ mapFile = "loaded" =>
       frames = <<>> /\ \A p \in DOMAIN tiles :
                          AsListed(tiles[p], listed[p]) \/ StoodOn(tiles[p], listed[p])
  /\ SpawnIsFirst
=============================================================================
