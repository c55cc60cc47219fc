\* Expected to fail: a database that refuses FOR UPDATE with an aggregate.
SPECIFICATION FairSpec
CONSTANTS
  Users = {u1, u2}
  Requests = {q1}
  NoUser = NoUser
  MaxPlayers = 1
  MaxUses = 1
  PoolSize = 10
  CountLockAccepted = FALSE
PROPERTIES
  JoinsAreServed
