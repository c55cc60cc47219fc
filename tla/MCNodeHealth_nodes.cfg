\* A tick is half a minute: silence of 2 minutes, a check every minute.
SPECIFICATION FairSpec
CONSTANTS
  Nodes = {n1, n2}
  StaleAfter = 4
  CheckEvery = 2
  MaxDelays = 2
INVARIANTS
  TypeOK
  ActiveNodesAreAlive
PROPERTIES
  LiveNodesStay
