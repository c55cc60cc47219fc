\* Two requests, two connections: capacity, invites, and the pool.
SPECIFICATION FairSpec
CONSTANTS
  Users = {u1, u2, u3, u4}
  Requests = {q1, q2}
  NoUser = NoUser
  MaxPlayers = 2
  MaxUses = 1
  PoolSize = 2
  CountLockAccepted = TRUE
INVARIANTS
  TypeOK
  UsesAreBounded
PROPERTIES
  CountedRowsStay
  TurnstileSpec
  RequestsEnd
  JoinsAreServed
