CONSTANTS
  Base = 4
  Block = 4
  Check = 2
  Conns = {c1}
  Hellos <- SomeHellos
  Silent = silent
  Keys = {k1}
  Greeting <- TheGreeting
  LoginAnswer <- TheLoginAnswer
  LameDuckText <- TheLameDuckText
  NoText <- TheNoText
  Texts <- SomeTexts
  MaxTexts = 3
SPECIFICATION FairSpec
INVARIANTS
  LoginsInv
  AnsweredAsAsked
PROPERTIES
  ConnectionsEnd
\* Every client has been answered, or the process has stopped.
CHECK_DEADLOCK FALSE
