SPECIFICATION FairSpec
CONSTANTS
  t1 = t1
  t2 = t2
  t3 = t3
  Threads = {t1, t2}
  Users = {u1, u2}
  Ids = {i1, i2, i3}
  Ttls = {0, 1}
  Ops <- MixedOps
  MAX_SESSIONS_PER_USER = 2
  MaxTime = 1
  NoThread = NoThread
  NoSession = NoSession
PROPERTIES
  CallsReturn
CHECK_DEADLOCK FALSE
