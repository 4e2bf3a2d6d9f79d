CONSTANTS
  Records <- SomeItems
  MaxItems = 2
  Wrap = 3
  Offsets = {0, 2}
  FileIDs = {0, 1, 2, 3}
  GroundID = 100
  MaxNodes = 7
SPECIFICATION Spec
INVARIANTS
  IndexesAgree
  PagesInOrder
  LoadedAsListed
  TilesKnown
\* The map has been loaded, or cannot be.
CHECK_DEADLOCK FALSE
