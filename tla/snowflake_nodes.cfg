SPECIFICATION Spec
CONSTANTS
  g1 = g1
  g2 = g2
  g3 = g3
  Generators = {g1, g2, g3}
  Worker <- SomeWorkers
  Datacenter <- SomeDatacenters
  MAX_SEQUENCE = 1
  Unsteady = {g2}
  MaxTime = 1
INVARIANTS
  TypeOK
  NoRepeats
  PackedIdsTell
PROPERTIES
  IdsIncrease
