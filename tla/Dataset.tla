-------------------------------- MODULE Dataset --------------------------------
(***************************************************************************)
(* The client's Tibia.dat (dat/dat.go): NewDataset makes four arrays of    *)
(* the sizes the header asks for, and fills them in one loop over the      *)
(* file.  An entry is a list of option bytes that ends with 0xFF, then the *)
(* description of its graphics, which says how many numbers of sprites     *)
(* follow.                                                                 *)
(*                                                                         *)
(* The file is chosen as it is read, and may end anywhere.  Of what option *)
(* bytes say about an entry the model keeps the bytes and the strength of  *)
(* its light.  Widths of integers are constants, so that products wrap in  *)
(* small instances as they do at 256 and at 65536.                         *)
(***************************************************************************)
EXTENDS Integers, Sequences

CONSTANTS
  Byte,        \* uint8 is 0..Byte-1
  Word,        \* uint16 is 0..Word-1
  FirstID,     \* the client identifier of the first item: 100
  Headers,     \* headers a file may have
  Options,     \* option bytes a file may have, each with what follows it
  Specs,       \* descriptions of graphics a file may have
  Fillings,    \* numbers of sprites a file may have, as sequences to cut
  MaxOptions,  \* bound: options of an entry
  MaxEntries   \* bound: entries in a file

Header == [items : 0..Word - 1, outfits : 0..Word - 1,
           effects : 0..Word - 1, missiles : 0..Word - 1]
Option == [byte : 0..254, value : Nat]
Graphics == [width : 0..Byte - 1, height : 0..Byte - 1, blend : 0..Byte - 1,
             xdiv : 0..Byte - 1, ydiv : 0..Byte - 1, zdiv : 0..Byte - 1,
             anim : 0..Byte - 1]
Kind == {"item", "outfit", "effect", "missile"}
Entry == [kind : Kind, id : Nat, options : Seq(Option), gfx : Graphics,
          sprites : Seq(0..Word - 1)]

ASSUME WidthsAssumption ==
  /\ Byte \in Nat \ {0} /\ Word \in Nat \ {0} /\ FirstID \in 1..Word - 1
ASSUME FileAssumption ==
  /\ Headers \subseteq Header /\ Options \subseteq Option
  /\ Specs \subseteq Graphics /\ Fillings \subseteq Seq(0..Word - 1)
  /\ MaxOptions \in Nat /\ MaxEntries \in Nat

VARIABLES
  datFile,   \* "header", "options", "graphics", "loaded", "failed" or "omitted"
  header,    \* Dataset.Header
  entries,   \* items, outfits, effects, distanceEffects, as far as filled
  options    \* OptBytes780 of the entry that is being read

datVars == <<datFile, header, entries, options>>

NoHeader == [items |-> 0, outfits |-> 0, effects |-> 0, missiles |-> 0]

DatInit ==
  /\ datFile = "header"
  /\ header = NoHeader
  /\ entries = <<>>
  /\ options = <<>>

-----------------------------------------------------------------------------
(* The arrays.                                                             *)

\* len(d.items): the header has the largest identifier, and what is subtracted
\* from it has 16 bits as well.
NItems == (header.items - FirstID + 1) % Word
NOutfits == header.outfits
NEntries == NItems + NOutfits + header.effects + header.missiles

\* The n-th entry is the last one of load780plus.
LastEntry(n) == n = NEntries

\* Faulty: the array of items counts from the header's number.
KindAtFromHeader(n) ==
  IF n <= header.items THEN "item"
  ELSE IF n <= header.items + NOutfits THEN "outfit"
  ELSE IF n <= header.items + NOutfits + header.effects THEN "effect" ELSE "missile"

\* What the n-th entry of the file is.
KindAt(n) ==
  IF n <= NItems THEN "item"
  ELSE IF n <= NItems + NOutfits THEN "outfit"
  ELSE IF n <= NItems + NOutfits + header.effects THEN "effect" ELSE "missile"

\* Its Id, in numbers of its kind.
IdAt(n) ==
  IF n <= NItems THEN n - 1 + FirstID
  ELSE IF n <= NItems + NOutfits THEN n - NItems
  ELSE IF n <= NItems + NOutfits + header.effects THEN n - NItems - NOutfits
  ELSE n - NItems - NOutfits - header.effects

-----------------------------------------------------------------------------
(* Reading.                                                                *)

\* NewDataset, up to the loop.
ReadHeader(h) ==
  /\ datFile = "header"
  /\ header' = h
  /\ datFile' = IF LastEntry(0)' THEN "loaded" ELSE "options"
  /\ UNCHANGED <<entries, options>>

\* The switch of load780OptByte, up to light: what a thing is and may be used
\* for, which is said of items only.
ItemFlags == 0..21

\* The rest of it: light and two unknown options are for everything, an offset
\* and an idle animation also for outfits.  A line spot has one of 13 types.
Accepted(o, kind) ==
  /\ \/ kind = "item" /\ o.byte \in ItemFlags \cup 22..32
     \/ kind = "outfit" /\ o.byte \in {25, 28}
     \/ o.byte \in {22, 24, 31}
  /\ o.byte = 30 => o.value \in 76..88

ReadOption(o) ==
  /\ datFile = "options"
  /\ Len(options) < MaxOptions
  /\ IF Accepted(o, KindAt(Len(entries) + 1))
     THEN options' = Append(options, o) /\ UNCHANGED datFile
     ELSE datFile' = "failed" /\ UNCHANGED options
  /\ UNCHANGED <<header, entries>>

\* 0xFF.
EndOfOptions ==
  /\ datFile = "options"
  /\ datFile' = "graphics"
  /\ UNCHANGED <<header, entries, options>>

\* Faulty: each frame of an animation is counted without its blend frames.
SpriteCountUnblended(g) ==
  ((g.width * g.height) % Byte) * ((g.xdiv * g.ydiv * g.zdiv) % Byte) * g.anim

\* How many sprites follow: two of the products are of uint8.
SpriteCount(g) ==
  ((g.width * g.height) % Byte) * g.blend
    * ((g.xdiv * g.ydiv * g.zdiv) % Byte) * g.anim

\* loadGraphicsSpec, with the sprites cut from f; the entry is complete.
ReadGraphics(g, f) ==
  /\ datFile = "graphics"
  /\ Len(entries) < MaxEntries
  /\ Len(f) >= SpriteCount(g)
  /\ IF SpriteCount(g) = 0
     THEN datFile' = "failed" /\ UNCHANGED <<entries, options>>
     ELSE LET n == Len(entries) + 1
          IN  /\ entries' = Append(entries,
                              [kind |-> KindAt(n), id |-> IdAt(n), options |-> options,
                               gfx |-> g, sprites |-> SubSeq(f, 1, SpriteCount(g))])
              /\ options' = <<>>
              /\ datFile' = IF LastEntry(n) THEN "loaded" ELSE "options"
  /\ UNCHANGED header

\* The file ends, or an option has a value it cannot have: no dataset.
DatFails ==
  /\ datFile \in {"header", "options", "graphics"}
  /\ datFile' = "failed"
  /\ UNCHANGED <<header, entries, options>>

\* FromPaths with no path to the file: nobody asks for a dataset.
DatOmitted ==
  /\ datFile = "header"
  /\ datFile' = "omitted"
  /\ UNCHANGED <<header, entries, options>>

DatNext ==
  \/ \E h \in Headers : ReadHeader(h)
  \/ \E o \in Options : ReadOption(o)
  \/ EndOfOptions
  \/ \E g \in Specs, f \in Fillings : ReadGraphics(g, f)
  \/ DatFails
  \/ DatOmitted

-----------------------------------------------------------------------------
(* Lookups in a loaded dataset.                                            *)

NoEntry == [kind |-> "nil"]
OutOfRange == [kind |-> "index out of range"]

\* Dataset.Item, whose upper bound is one too high.
DatItem(id) ==
  IF id < FirstID \/ id > NItems + FirstID THEN NoEntry
  ELSE IF id - FirstID >= NItems THEN OutOfRange
  ELSE entries[id - FirstID + 1]

\* Faulty: the last outfit is taken for one too many.
OutfitShort(id) ==
  IF id = 0 \/ id >= NOutfits THEN NoEntry ELSE entries[NItems + id]

\* Dataset.Outfit.
Outfit(id) ==
  IF id = 0 \/ id >= NOutfits + 1 THEN NoEntry ELSE entries[NItems + id]

MinItemID == FirstID
MaxItemID == header.items

-----------------------------------------------------------------------------
(* The sprites of an entry that are drawn (things/compositor.go).          *)

\* compositeGfx: the first sprite of the block for a variant and a frame,
\* counted from 0; depth is left out.
ActiveSprite(g, x, y, frame) ==
  g.blend * g.height * g.width
    * ((x % g.xdiv) + (y % g.ydiv) * g.xdiv + (frame % g.anim) * g.xdiv * g.ydiv)

Beyond == -1   \* the index of a sprite is out of range

\* The i-th sprite of a block that is looked at, if the given layers of it are:
\* 0 if it is skipped.  Only where a layer starts is compared with the number
\* of sprites there are.
SpriteAt(e, x, y, frame, layers, i) ==
  LET area == e.gfx.width * e.gfx.height
      start == ActiveSprite(e.gfx, x, y, frame) + area * layers[((i - 1) \div area) + 1]
      at == start + ((i - 1) % area)
  IN  IF start >= Len(e.sprites) THEN 0
      ELSE IF at >= Len(e.sprites) THEN Beyond ELSE e.sprites[at + 1]

DrawnSprites(e, x, y, frame, layers) ==
  [i \in 1..e.gfx.width * e.gfx.height * Len(layers) |->
     SpriteAt(e, x, y, frame, layers, i)]

AllLayers(g) == [b \in 1..g.blend |-> b - 1]

-----------------------------------------------------------------------------
(* Properties.                                                             *)

DatTypeOK ==
  /\ datFile \in {"header", "options", "graphics", "loaded", "failed", "omitted"}
  /\ header \in Header
  /\ entries \in Seq(Entry)
  /\ options \in Seq(Option)
  /\ datFile \in {"options", "graphics"} => Len(entries) < NEntries
  /\ datFile = "loaded" => Len(entries) = NEntries

\* A loaded dataset answers with the entry that was asked for, whatever the
\* sizes of the four arrays, and only the identifier just behind the last
\* item is one it cannot answer for (dat/dat.go:526-553).
LookupsInRange ==
  datFile = "loaded" =>
    /\ \A id \in 0..Word - 1 :
         IF id \in FirstID..FirstID + NItems - 1
         THEN DatItem(id).kind = "item" /\ DatItem(id).id = id
         ELSE DatItem(id) = IF id = FirstID + NItems THEN OutOfRange ELSE NoEntry
    /\ \A id \in 0..Word - 1 :
         IF id \in 1..NOutfits
         THEN Outfit(id).kind = "outfit" /\ Outfit(id).id = id
         ELSE Outfit(id) = NoEntry
    /\ header.items >= FirstID - 1 =>
         \A id \in MinItemID..MaxItemID : DatItem(id).id = id

\* Neither product of bytes has wrapped.
Counted(g) == g.width * g.height < Byte /\ g.xdiv * g.ydiv * g.zdiv < Byte

\* The sprites that drawing an entry asks for are there, for every variant,
\* every frame and every choice of layers, and none is left out, unless the
\* products of bytes that counted them wrapped (dat/dat.go:988-991 against
\* things/compositor.go:264-286).
SpritesSuffice ==
  \A n \in 1..Len(entries) :
    LET e == entries[n] g == e.gfx
    IN  Counted(g) =>
          \A x \in 0..g.xdiv - 1, y \in 0..g.ydiv - 1, frame \in 0..g.anim - 1 :
            \A b \in 0..g.blend - 1 :
              ActiveSprite(g, x, y, frame) + g.width * g.height * (b + 1) <= Len(e.sprites)
=============================================================================
