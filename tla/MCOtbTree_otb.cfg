CONSTANTS
  Alphabet <- Bytes
  MaxTokens = 6
SPECIFICATION Spec
INVARIANTS
  NodesLinked
  TreeIsTheFile
\* The parser ends.
CHECK_DEADLOCK FALSE
