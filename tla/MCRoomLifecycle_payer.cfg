\* One room, two extensions that one user pays, everything the worker may meet.
SPECIFICATION FairSpec
CONSTANTS
  Rooms = {r1}
  Users = {u1}
  Admins = {u1}
  Extensions = {q1, q2}
  NoRoom = NoRoom
  NoUser = NoUser
  NoExpiry = NoExpiry
  IdleTimeout = 1
  PurgeAfter = 2
  Grace = 3
  Term = 3
  Expiries = {1}
  MaxNodeCalls = 1
  CountLockAccepted = TRUE
  MaxLeft = 3
INVARIANTS
  TypeOK
  NoOrphans
PROPERTIES
  PaidTimeIsAdded
  ExpiredRoomsClose
  AbandonedRoomsGo
