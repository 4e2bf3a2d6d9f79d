CONSTANTS
  X = 2
  Y = 2
  Z = 1
  Width = 2
  Height = 1
  Wrap = 8
  Ground = 2
  Bedrock = 5
  Base = 2
SPECIFICATION FairSpec
INVARIANTS
  Assembled
  Readable
PROPERTY Described
\* mapDescription returns once.
CHECK_DEADLOCK FALSE
