SPECIFICATION Spec
CONSTANTS
  g1 = g1
  g2 = g2
  g3 = g3
  Generators = {g1, g2}
  Worker <- TwoWorkers
  Datacenter <- TwoDatacenters
  MAX_SEQUENCE = 1
  Unsteady = {}
  MaxTime = 1
INVARIANTS
  PackedIdsUnique
