-------------------------------- MODULE Drawing --------------------------------
(***************************************************************************)
(* Drawing a part of the map: compositor.CompositeMap goes through floors  *)
(* and tiles, compositeTile through the items and creatures of a tile,     *)
(* things looks each up in items.otb and in the dataset, and spr decodes   *)
(* the sprites of what it finds.  Requests are drawn concurrently, and     *)
(* share one reader of the sprite file (spr/spr.go) under a lock.          *)
(*                                                                         *)
(* The files are read by FromPaths one after the other before anything is  *)
(* drawn; one that was not found is omitted.  A server of pictures stops   *)
(* when it registers its routes without a dataset or sprites; tools and    *)
(* tests draw one picture with what there is.  Pixels, light and outfit    *)
(* colors are left out: what counts is which sprites are painted, where    *)
(* and in which order.  A program that stops, or a request whose goroutine *)
(* does, has panicked.                                                     *)
(***************************************************************************)
EXTENDS ItemsOtb, Dataset

CONSTANTS
  Drawers,       \* goroutines that draw, one request each
  Nobody,        \* not a drawer
  Worlds,        \* maps: functions from some positions to tiles
  Boxes,         \* what may be asked for
  NSprites,      \* the sprite file's SpriteCount
  Unreadable,    \* sprites whose data cannot be decoded
  DecorativeID,  \* the outfit drawn in every picture: 128
  Peopled        \* where a generated map puts a creature; none on a stored map

\* Arguments of CompositeMap; without a width or a height nothing is drawn.
Box == [x : 0..Word - 1, y : 0..Word - 1, top : Nat, bottom : Nat,
        width : Nat \ {0}, height : Nat \ {0}]
Thing == [kind : {"item", "creature", "decoration"}, id : Nat, dir : 0..3]

ASSUME DrawersAssumption == Nobody \notin Drawers
ASSUME SpriteFileAssumption == NSprites \in Nat /\ Unreadable \subseteq Nat
ASSUME DecorativeAssumption == DecorativeID \in Nat
ASSUME BoxesAssumption == Boxes \subseteq Box
ASSUME WorldsAssumption ==
  \A w \in Worlds : \A p \in DOMAIN w :
    w[p] \in Seq([kind : {"item", "creature"}, id : Nat, dir : 0..3])

VARIABLES
  program,   \* "server" or "tool"
  things,    \* what FromPaths is at: "items", "dat" or "spr"; "ready", or "nil"
             \* if it has failed
  spriteSet, \* the sprites have been read
  world,     \* the map
  at,        \* where each drawer is: "idle", "drawing", "find", "read",
             \* "done", "panicked", "spinning" or "stuck"
  box,       \* what each was asked for
  visited,   \* how many tiles of it have been come to
  queue,     \* what is left to draw of the tile
  sprites,   \* what is left of the sprites of one thing
  mapHolder, \* who never gives back generatedMapTilesLock, or Nobody
  holder,    \* who holds SpriteSet.m, or Nobody
  reader,    \* where SpriteSet.buf is: 0 at the start, or at a sprite's data
  painted    \* history: the sprites asked for and painted, and where

drawVars == <<world, at, box, visited, queue, sprites, mapHolder, holder, reader,
              painted>>
filesVars == <<itemsVars, datVars, program, things, spriteSet>>
vars == <<filesVars, drawVars>>

Init ==
  /\ ItemsInit /\ DatInit
  /\ program \in {"server", "tool"} /\ things = "items" /\ spriteSet = FALSE
  /\ world \in Worlds
  /\ at = [d \in Drawers |-> "idle"]
  /\ box \in [Drawers -> Boxes]
  /\ visited = [d \in Drawers |-> 0]
  /\ queue = [d \in Drawers |-> <<>>]
  /\ sprites = [d \in Drawers |-> <<>>]
  /\ mapHolder = Nobody /\ holder = Nobody
  /\ reader = 0
  /\ painted = [d \in Drawers |-> <<>>]

\* What FromPaths is at after a step on a file.
After(file, next) ==
  IF file \in {"loaded", "omitted"} THEN next ELSE IF file = "failed" THEN "nil" ELSE things

\* FromPaths: items.otb, Tibia.dat, Tibia.spr, any of which is omitted if there is
\* no path to it.
LoadItems ==
  /\ things = "items"
  /\ \/ ItemsNext /\ things' = After(itemsFile', "dat")
     \/ items = <<>> /\ things' = "dat" /\ UNCHANGED itemsVars
  /\ UNCHANGED <<datVars, spriteSet>>

LoadDat ==
  /\ things = "dat"
  /\ DatNext /\ things' = After(datFile', "spr")
  /\ UNCHANGED <<itemsVars, spriteSet>>

LoadSprites ==
  /\ things = "spr"
  /\ \/ things' = "ready" /\ spriteSet' \in BOOLEAN
     \/ things' = "nil" /\ UNCHANGED spriteSet
  /\ UNCHANGED <<itemsVars, datVars>>

Load == (LoadItems \/ LoadDat \/ LoadSprites) /\ UNCHANGED <<program, drawVars>>

HasDataset == things = "ready" /\ datFile = "loaded"

-----------------------------------------------------------------------------
(* The tiles of a picture.                                                 *)

\* Faulty: a higher floor is shifted on the picture, and not on the map.
VisitUnshifted(b, i) ==
  LET up == (i - 1) \div (b.width * b.height)
      tx == b.x + ((i - 1) % b.width)
      ty == b.y + (((i - 1) \div b.width) % b.height)
  IN  [pos |-> <<tx % Word, ty % Word, b.bottom - up>>,
       cell |-> <<tx - b.x + 1 - up, ty - b.y + 1 - up>>]

\* The i-th tile, in the loops of CompositeMap and compositeFloor: floors from
\* the bottom up, each shifted against the one below.  A cell is the corner a
\* thing is aligned with, in tiles.
Visit(b, i) ==
  LET up == (i - 1) \div (b.width * b.height)
      tx == b.x + up + ((i - 1) % b.width)
      ty == b.y + up + (((i - 1) \div b.width) % b.height)
  IN  [pos |-> <<tx % Word, ty % Word, b.bottom - up>>,
       cell |-> <<tx - b.x + 1 - up, ty - b.y + 1 - up>>]

NVisits(b) ==
  IF b.top > b.bottom THEN 0 ELSE (b.bottom - b.top + 1) * (b.width * b.height)
Here(d) == Visit(box[d], visited[d])

\* The cell of the lowest floor with one more character.
Decorated(b, v) ==
  /\ v.pos[3] = b.bottom
  /\ v.cell = <<b.width \div 2 + 1, b.height \div 2 + 1>>

Decoration == [kind |-> "decoration", id |-> DecorativeID, dir |-> 2]

\* A request to a server, which has asked for the signatures of dataset and
\* sprites first (RegisterRoutes), or the picture of a tool, which does not care
\* whether FromPaths has failed.
StartDrawing(d) ==
  /\ at[d] = "idle"
  /\ \/ program = "server" /\ HasDataset /\ spriteSet
     \/ /\ program = "tool" /\ things \in {"ready", "nil"}
        /\ \A c \in Drawers : at[c] = "idle"
  /\ at' = [at EXCEPT ![d] = "drawing"]
  /\ UNCHANGED <<filesVars, world, box, visited, queue, sprites, mapHolder,
                 holder, reader, painted>>

\* GetMapTile: where nothing is stored there is an empty tile.
TileAt(p) == IF p \in DOMAIN world THEN world[p] ELSE <<>>

\* A generated map that puts a creature on a new tile asks itself for that tile,
\* and waits for a lock it has.
NextTile(d) ==
  LET v == Visit(box[d], visited[d] + 1)
  IN  /\ at[d] = "drawing" /\ queue[d] = <<>> /\ sprites[d] = <<>>
      /\ visited[d] < NVisits(box[d])
      /\ mapHolder = Nobody
      /\ IF v.pos \in Peopled
         THEN /\ mapHolder' = d
              /\ at' = [at EXCEPT ![d] = "stuck"]
              /\ UNCHANGED <<visited, queue>>
         ELSE /\ visited' = [visited EXCEPT ![d] = @ + 1]
              /\ queue' = [queue EXCEPT ![d] =
                   IF Decorated(box[d], v) THEN Append(TileAt(v.pos), Decoration)
                   ELSE TileAt(v.pos)]
              /\ UNCHANGED <<mapHolder, at>>
      /\ UNCHANGED <<filesVars, world, box, sprites, holder, reader, painted>>

Finish(d) ==
  /\ at[d] = "drawing" /\ queue[d] = <<>> /\ sprites[d] = <<>>
  /\ visited[d] = NVisits(box[d])
  /\ at' = [at EXCEPT ![d] = "done"]
  /\ UNCHANGED <<filesVars, world, box, visited, queue, sprites, mapHolder,
                 holder, reader, painted>>

-----------------------------------------------------------------------------
(* The things on a tile.                                                   *)

\* What the dataset has for a thing: an item without a client identifier has
\* nothing, nor has anything else if there is no dataset.
EntryOf(t) ==
  IF ~ HasDataset THEN NoEntry
  ELSE IF t.kind # "item" THEN Outfit(t.id)
  ELSE IF ThingsItem(t.id).dat = 0 THEN NoEntry
  ELSE DatItem(ThingsItem(t.id).dat)

ItemFrame(e, v) == DrawnSprites(e, v.pos[1], v.pos[2], 0, AllLayers(e.gfx))

\* ColorizedCreatureFrame, which also draws the mask for the colors, if the
\* outfit has more than one layer.  No addons are drawn.
CreatureFrame(e, dir) ==
  IF e.gfx.blend = 1 THEN DrawnSprites(e, dir, 0, 0, <<0>>)
  ELSE DrawnSprites(e, dir, 0, 0, <<0>>) \o DrawnSprites(e, dir, 0, 0, <<1>>)

FrameOf(t, v) ==
  IF t.kind = "item" THEN ItemFrame(EntryOf(t), v) ELSE CreatureFrame(EntryOf(t), t.dir)

HasEntry(t) == EntryOf(t).kind \in Kind

\* One turn of a loop of compositeTile, or the decoration of compositeFloor.
\* Without a dataset th.Creature fails: the decoration is left out, but the
\* loop over creatures goes on with the same index.  A nil outfit, and the nil
\* frame of an item, are dereferenced.
DrawThing(d) ==
  LET t == Head(queue[d])
  IN  /\ at[d] = "drawing" /\ queue[d] # <<>> /\ sprites[d] = <<>>
      /\ \/ /\ HasEntry(t)
            /\ sprites' = [sprites EXCEPT ![d] = FrameOf(t, Here(d))]
            /\ queue' = [queue EXCEPT ![d] = Tail(@)]
            /\ UNCHANGED at
         \/ /\ ~ HasDataset /\ t.kind = "decoration"
            /\ queue' = [queue EXCEPT ![d] = Tail(@)]
            /\ UNCHANGED <<at, sprites>>
         \/ /\ ~ HasDataset /\ t.kind = "creature"
            /\ at' = [at EXCEPT ![d] = "spinning"]
            /\ UNCHANGED <<queue, sprites>>
         \/ /\ ~ HasEntry(t)
            /\ ~ HasDataset => t.kind = "item"
            /\ at' = [at EXCEPT ![d] = "panicked"]
            /\ UNCHANGED <<queue, sprites>>
      /\ UNCHANGED <<filesVars, world, box, visited, mapHolder, holder, reader,
                     painted>>

-----------------------------------------------------------------------------
(* The sprites of a thing.                                                 *)

\* compositeGfx leaves out number 0, and does not look whether the number of a
\* sprite is there at all.
NoSprite(d) ==
  /\ at[d] = "drawing" /\ sprites[d] # <<>> /\ Head(sprites[d]) \in {0, Beyond}
  /\ IF Head(sprites[d]) = 0
     THEN sprites' = [sprites EXCEPT ![d] = Tail(@)] /\ UNCHANGED at
     ELSE at' = [at EXCEPT ![d] = "panicked"] /\ UNCHANGED sprites
  /\ UNCHANGED <<filesVars, world, box, visited, queue, mapHolder, holder,
                 reader, painted>>

\* SpriteSet.Image of no sprite set.
NoSpriteSet(d) ==
  /\ at[d] = "drawing" /\ sprites[d] # <<>> /\ Head(sprites[d]) > 0
  /\ ~ spriteSet
  /\ at' = [at EXCEPT ![d] = "panicked"]
  /\ UNCHANGED <<filesVars, world, box, visited, queue, sprites, mapHolder, holder,
                 reader, painted>>

\* Faulty: the lock is not waited for.
LockSpritesUnheld(d) ==
  /\ at[d] = "drawing" /\ sprites[d] # <<>> /\ Head(sprites[d]) > 0
  /\ spriteSet
  /\ holder' = d
  /\ reader' = 0
  /\ at' = [at EXCEPT ![d] = "find"]
  /\ UNCHANGED <<filesVars, world, box, visited, queue, sprites, mapHolder,
                 painted>>

\* SpriteSet.Image, which goes back to the start of the file.
LockSprites(d) ==
  /\ at[d] = "drawing" /\ sprites[d] # <<>> /\ Head(sprites[d]) > 0
  /\ spriteSet
  /\ holder = Nobody
  /\ holder' = d
  /\ reader' = 0
  /\ at' = [at EXCEPT ![d] = "find"]
  /\ UNCHANGED <<filesVars, world, box, visited, queue, sprites, mapHolder,
                 painted>>

\* The image is painted, or if there is none (got = 0) the sprite left out.
Paint(d, got) ==
  /\ painted' = [painted EXCEPT ![d] = Append(@,
                   [pos |-> Here(d).pos, cell |-> Here(d).cell,
                    asked |-> Head(sprites[d]), got |-> got])]
  /\ sprites' = [sprites EXCEPT ![d] = Tail(@)]
  /\ at' = [at EXCEPT ![d] = "drawing"]

\* Faulty: the lock is not released if there is no such sprite.
FindSpriteLocked(d) ==
  /\ at[d] = "find"
  /\ IF Head(sprites[d]) >= NSprites
     THEN Paint(d, 0) /\ UNCHANGED <<holder, reader>>
     ELSE /\ reader' = reader + Head(sprites[d])
          /\ at' = [at EXCEPT ![d] = "read"]
          /\ UNCHANGED <<sprites, painted, holder>>
  /\ UNCHANGED <<filesVars, world, box, visited, queue, mapHolder>>

\* decodeOne as far as the pointer, which is counted from where the reader is.
\* It refuses the last sprite.
FindSprite(d) ==
  /\ at[d] = "find"
  /\ IF Head(sprites[d]) >= NSprites
     THEN Paint(d, 0) /\ holder' = Nobody /\ UNCHANGED reader
     ELSE /\ reader' = reader + Head(sprites[d])
          /\ at' = [at EXCEPT ![d] = "read"]
          /\ UNCHANGED <<sprites, painted, holder>>
  /\ UNCHANGED <<filesVars, world, box, visited, queue, mapHolder>>

\* decodeUpcoming and decodeData, where the reader is now.
ReadSprite(d) ==
  /\ at[d] = "read"
  /\ Paint(d, IF reader \in Unreadable THEN 0 ELSE reader)
  /\ holder' = Nobody
  /\ UNCHANGED <<filesVars, world, box, visited, queue, mapHolder, reader>>

-----------------------------------------------------------------------------

Draw(d) ==
  \/ NextTile(d) \/ DrawThing(d) \/ NoSprite(d) \/ NoSpriteSet(d) \/ LockSprites(d)
  \/ FindSprite(d) \/ ReadSprite(d) \/ Finish(d)

Next == Load \/ \E d \in Drawers : StartDrawing(d) \/ Draw(d)

Spec == Init /\ [][Next]_vars
FairSpec == Spec /\ \A d \in Drawers : WF_vars(Draw(d))

-----------------------------------------------------------------------------
(* Properties.                                                             *)

Position == (0..Word - 1) \X (0..Word - 1) \X Int
Painting == [pos : Position, cell : Int \X Int, asked : Nat, got : Nat]

TypeOK ==
  /\ ItemsTypeOK /\ DatTypeOK
  /\ program \in {"server", "tool"} /\ spriteSet \in BOOLEAN
  /\ things \in {"items", "dat", "spr", "ready", "nil"}
  /\ world \in Worlds
  /\ at \in [Drawers -> {"idle", "drawing", "find", "read", "done", "panicked",
                         "spinning", "stuck"}]
  /\ box \in [Drawers -> Boxes]
  /\ visited \in [Drawers -> Nat]
  /\ queue \in [Drawers -> Seq(Thing)]
  /\ sprites \in [Drawers -> Seq(Nat \cup {Beyond})]
  /\ mapHolder \in Drawers \cup {Nobody}
  /\ holder \in Drawers \cup {Nobody}
  /\ reader \in Nat
  /\ painted \in [Drawers -> Seq(Painting)]

\* However requests overlap on the one reader of the sprite file
\* (spr/spr.go:29-43), what is painted is the sprite that was asked for, and
\* it is missing only if the file has no such sprite, cannot be decoded there,
\* or has it last.
SpritesAsAsked ==
  \A d \in Drawers : \A i \in 1..Len(painted[d]) :
    LET p == painted[d][i]
    IN  p.got = IF p.asked >= NSprites \/ p.asked \in Unreadable THEN 0 ELSE p.asked

\* Two drawers are never in SpriteSet.Image at once, and nobody has left it
\* with the lock (spr/spr.go:33-41).
OneReader ==
  \A d \in Drawers : at[d] \in {"find", "read"} <=> holder = d

\* The types of all there is, one reader at a time, and nobody's sprites mixed up.
DrawingInv == TypeOK /\ OneReader /\ SpritesAsAsked

Drawable(t) ==
  /\ HasDataset
  /\ IF t.kind = "item"
     THEN Known(t.id) /\ ClientIDForServerID(t.id) \in FirstID..FirstID + NItems - 1
     ELSE t.id \in 1..NOutfits

\* What a request has come to last: a tile, and the decoration if it is due there.
Around(d) ==
  LET tile == TileAt(Here(d).pos)
  IN  {tile[i] : i \in 1..Len(tile)}
        \cup (IF Decorated(box[d], Here(d)) THEN {Decoration} ELSE {})

\* A thing that drawing stops at: the files do not have it, or its sprites were
\* counted wrongly.  Without a dataset no more than items are looked for.
Stopper(t) ==
  IF Drawable(t) THEN HasEntry(t) /\ ~ Counted(EntryOf(t).gfx)
  ELSE HasDataset \/ t.kind = "item"

\* A request stops only at the tile it has come to, and for something that is
\* there, or due there, and is not in items.otb, not in the dataset, or there with
\* sprites that were counted wrongly.  That the files themselves are missing stops
\* tools only: for want of sprites, or of a dataset, without which the first
\* creature is composited forever (compositor/tile.go:18-54, floor.go:56,
\* spr/spr.go:27, web/handlers.go:554).
StopsOnlyOnBadData ==
  \A d \in Drawers :
    /\ at[d] = "panicked" =>
         \/ \E t \in Around(d) : Stopper(t)
         \/ program = "tool" /\ HasDataset /\ ~ spriteSet
    /\ at[d] = "spinning" =>
         /\ program = "tool" /\ ~ HasDataset
         /\ \E t \in Around(d) : t.kind = "creature"

\* Floors lie on top of each other: everything on one cell of the picture is
\* on one line of the map that goes up to the south east, and what is lower is
\* painted first (compositor/compositor.go:44-51, floor.go:23-27).
Perspective ==
  \A d \in Drawers : \A i, j \in 1..Len(painted[d]) :
    LET p == painted[d][i] q == painted[d][j]
    IN  /\ p.cell \in (1..box[d].width) \X (1..box[d].height)
        /\ p.cell = q.cell /\ i < j =>
             /\ p.pos[3] >= q.pos[3]
             /\ \A k \in {1, 2} : q.pos[k] = (p.pos[k] + p.pos[3] - q.pos[3]) % Word

\* Every request that was begun comes to an end, whatever the others do, unless
\* it goes on forever on one creature, or the map has locked itself up; also
\* where a sprite that cannot be decoded gives its lock back (spr/spr.go:33-37).
DrawingEnds ==
  \A d \in Drawers :
    at[d] = "drawing" ~>
      at[d] \in {"done", "panicked", "spinning"} \/ mapHolder # Nobody

-----------------------------------------------------------------------------
(* The inductive invariant behind DrawingInv and the lookups.              *)

\* Whoever reads is at the sprite it has to paint next.
ReaderInv ==
  \A d \in Drawers :
    at[d] \in {"find", "read"} =>
      /\ sprites[d] # <<>> /\ Head(sprites[d]) > 0
      /\ reader = IF at[d] = "find" THEN 0 ELSE Head(sprites[d])
      /\ at[d] = "read" => Head(sprites[d]) < NSprites

\* Entries are where load780plus put them, and have what it counted.
EntriesInv ==
  /\ datFile = "header" => entries = <<>>
  /\ \A n \in 1..Len(entries) :
       LET e == entries[n]
       IN  /\ e.kind = KindAt(n) /\ e.id = IdAt(n)
           /\ SpriteCount(e.gfx) # 0 /\ Len(e.sprites) = SpriteCount(e.gfx)

\* Requests are served when the files have been read, and pictures drawn when
\* reading them has come to an end.
FilesInv ==
  \A d \in Drawers :
    at[d] # "idle" =>
      /\ things \in {"ready", "nil"}
      /\ program = "server" => HasDataset /\ spriteSet

DrawInv == DrawingInv /\ ReaderInv /\ EntriesInv /\ FilesInv
=============================================================================
