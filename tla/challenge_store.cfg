SPECIFICATION Spec
CONSTANTS
  Threads = {t1, t2}
  Users = {u1, u2}
  Ids = {c1, c2, c3, c4}
  Ttls = {0, 2}
  MAX_CHALLENGES_PER_USER = 2
  MaxTime = 2
  NoThread = NoThread
  NoChallenge = NoChallenge
INVARIANTS
  TypeOK
  ListMatchesChallenges
  ChallengeCapHolds
PROPERTIES
  OpenChallengesStay
SYMMETRY Symmetry
CHECK_DEADLOCK FALSE
