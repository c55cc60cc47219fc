\* Two sessions, two requests at a time, and shards for less than two hours.
SPECIFICATION FairSpec
CONSTANTS
  MaxSessions = 2
  MaxAge = 4
  Requests = {q1, q2}
  InitialBalance = 5
  HourlyCost = 3
  HourTicks = 2
INVARIANTS
  TypeOK
  ColumnIsPaid
PROPERTIES
  LeavingIsPaid
  SessionsEnd
