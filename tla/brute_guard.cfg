SPECIFICATION Spec
CONSTANTS
  t1 = t1
  t2 = t2
  i1 = i1
  i2 = i2
  Threads = {t1, t2}
  Identifiers = {i1, i2}
  Targets <- OneShared
  MAX_ATTEMPTS = 2
  LOCKOUT = 1
  WINDOW = 1
  MaxTime = 2
  MaxFailures = 3
  NoThread = NoThread
  NoRecord = NoRecord
INVARIANTS
  TypeOK
  FailuresCounted
  LockedOnlyAfterMaxFailures
PROPERTIES
CHECK_DEADLOCK FALSE
