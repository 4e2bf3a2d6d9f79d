CONSTANTS
  c1 = c1
  c2 = c2
  c3 = c3
  Conn <- Clients
SPECIFICATION FairStartSpec
INVARIANTS
  PlaysOnAMap
PROPERTIES
  LameDuckEnds
  ListenerRestored
  NobodyWaits
\* Every client may have been served.
CHECK_DEADLOCK FALSE
