SPECIFICATION Spec
CONSTANTS
  Users = {u1, u2}
  Tokens = {h1, h2, h3, h4}
  TTL = 2
  GRACE = 1
  MAX_TOKENS_PER_USER = 2
  MaxTime = 4
  NoRecord = NoRecord
INVARIANTS
  TypeOK
  TokenLimitHolds
PROPERTIES
  DeadTokenStaysDead
  RevokeAllLeavesNone
SYMMETRY Symmetry
