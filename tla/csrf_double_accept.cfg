SPECIFICATION Spec
CONSTANTS
  Threads = {t1, t2}
  Sessions = {s1}
  Tokens = {k1, k2}
  NoToken = NoToken
INVARIANTS
  OneTimeToken
