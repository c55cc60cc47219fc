\* Expected to fail: the counterexample of PaidTimeIsAdded, two payers.
SPECIFICATION FairSpec
CONSTANTS
  Rooms = {r1}
  Users = {u1, u2}
  Admins = {u1}
  Extensions = {q1, q2}
  NoRoom = NoRoom
  NoUser = NoUser
  NoExpiry = NoExpiry
  IdleTimeout = 1
  PurgeAfter = 2
  Grace = 3
  Term = 3
  Expiries = {1}
  MaxNodeCalls = 1
  CountLockAccepted = FALSE
  MaxLeft = 3
PROPERTIES
  PaidTimeIsAdded
