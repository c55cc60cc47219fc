\* Expected to fail: StopVPN while the monitor checks, one call at a time.
SPECIFICATION FairSpec
CONSTANTS
  MaxConnects = 1
  Patient = TRUE
INVARIANTS
  StopDisconnects
