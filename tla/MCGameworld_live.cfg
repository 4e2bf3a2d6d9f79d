CONSTANTS
  c1 = c1
  c2 = c2
  Conn <- Pair
  Kinds <- Acting
  MaxSent = 2
  Repertoire <- AskAndLeave
  Quota <- TwoAndOne
SPECIFICATION FairSpec
PROPERTIES
  LogoutLeaves
  SpeechDelivered
  OrphanStays
\* Goroutines that wait forever once every client has left are the subject of
\* OrphanStays; the system may stop.
CHECK_DEADLOCK FALSE
