SPECIFICATION Spec
CONSTANTS
  t1 = t1
  t2 = t2
  t3 = t3
  Threads = {t1, t2, t3}
  Users = {u1, u2}
  Ids = {i1, i2, i3, i4}
  Ttls = {0, 1}
  Ops <- MixedOps
  MAX_SESSIONS_PER_USER = 2
  MaxTime = 2
  NoThread = NoThread
  NoSession = NoSession
INVARIANTS
  TypeOK
  IndexMatchesTable
  UserCapHolds
PROPERTIES
  RemoveUserCountExact
  ImplementsRegistry
SYMMETRY Symmetry
CHECK_DEADLOCK FALSE
