SPECIFICATION FairSpec
CONSTANTS
  Threads = {t1, t2, t3}
  Sessions = {s1, s2}
  Tokens = {k1, k2}
  NoToken = NoToken
INVARIANTS
  TypeOK
  SpentTokensAreGone
PROPERTIES
  ValidationReturns
