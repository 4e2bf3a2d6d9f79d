CONSTANTS
  p1 = p1
  p2 = p2
  Player <- Two
  Width = 3
  Height = 2
  Stored <- WithHoles
  Spawn <- Temple
  MaxMoves = 2
SPECIFICATION Spec
INVARIANTS
  TilesAgree
PROPERTY StrandedStays
\* Every player may have left.
CHECK_DEADLOCK FALSE
