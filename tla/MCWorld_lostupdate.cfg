CONSTANTS
  p1 = p1
  p2 = p2
  Player <- Two
  Width = 3
  Height = 2
  Stored <- AllStored
  Spawn <- SideBySide
  MaxMoves = 1
SPECIFICATION Spec
INVARIANT WalkEffect
\* Every player may have left.
CHECK_DEADLOCK FALSE
