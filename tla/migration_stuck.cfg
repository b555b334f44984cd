SPECIFICATION MigrationSpec
CONSTANTS
  Versions = {1, 2}
  Migrators = {m1}
  MaxRestarts = 1
PROPERTIES
  CommittedIsRecorded
CHECK_DEADLOCK FALSE
