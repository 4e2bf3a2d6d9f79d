CONSTANTS
  c1 = c1
  c2 = c2
  c3 = c3
  Conn <- Logins
  KindBit = 4
SPECIFICATION IDSpec
INVARIANTS
  SerialIDsUnique
  OwnEntries
SYMMETRY Alike
\* Every connection may have ended.
CHECK_DEADLOCK FALSE
