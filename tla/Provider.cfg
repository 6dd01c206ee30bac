SPECIFICATION Spec
CONSTANTS
  p = p
  q = q
  s = s
  Null = Null
  MaxRequests = 3
  MaxMigrations = 2
  Providers <- MCProviders
  Databases <- MCDatabases
  Setups <- PassingSetups
INVARIANTS AckedWritesKept NoSplitBrain MigrationSettled
PROPERTY EverybodyAnswered
CHECK_DEADLOCK FALSE
