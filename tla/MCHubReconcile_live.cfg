\* Two requests to create a room, two ids, every failure: hub numbers stay
\* apart, hubs come back and orphans go.
SPECIFICATION FairSpec
CONSTANTS
  MaxId = 2
  Creators = {c1, c2}
  MaxOctet = 2
  CountLockAccepted = FALSE
  NoHub = NoHub
  NoRoom = NoRoom
INVARIANTS
  TypeOK
  NumbersAreFree
PROPERTIES
  HubsComeBack
  OrphansGo
