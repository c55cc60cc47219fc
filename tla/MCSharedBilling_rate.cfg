\* Expected to fail: the same hour is charged twice.
SPECIFICATION Spec
CONSTANTS
  MaxSessions = 1
  MaxAge = 4
  Requests = {q1, q2}
  InitialBalance = 3
  HourlyCost = 1
  HourTicks = 1
INVARIANTS
  HourlyRate
