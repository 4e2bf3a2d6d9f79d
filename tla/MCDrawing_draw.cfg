CONSTANTS
  Records <- SomeItems
  MaxItems = 1
  Byte = 4
  Word = 8
  FirstID = 2
  Headers <- SomeHeaders
  Options <- SomeOptions
  Specs <- SomeSpecs
  Fillings <- SomeFillings
  MaxOptions = 1
  MaxEntries = 2
  Drawers = {d1, d2}
  Nobody = nobody
  Worlds <- SomeWorlds
  Boxes <- SomeBoxes
  NSprites = 3
  Unreadable = {2}
  DecorativeID = 1
  Peopled <- ThePeopled
SPECIFICATION FairSpec
INVARIANTS
  DrawingInv
  LookupsInRange
  SpritesSuffice
  StopsOnlyOnBadData
  Perspective
PROPERTIES
  DrawingEnds
\* The pictures have been drawn, or the files cannot be read.
CHECK_DEADLOCK FALSE
