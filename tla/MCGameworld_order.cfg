CONSTANTS
  c1 = c1
  c2 = c2
  Conn <- Pair
  Kinds <- Talking
  MaxSent = 2
  Repertoire <- Talkative
  Quota <- TwoAndOne
SPECIFICATION Spec
INVARIANTS
  StreamInv
  NoGhostOfAPlayer
PROPERTY StreamSpec
\* Goroutines that wait forever once every client has left are the subject of
\* OrphanStays; the system may stop.
CHECK_DEADLOCK FALSE
