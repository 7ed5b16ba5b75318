SPECIFICATION Spec
CONSTANTS
  Databases = {1, 2, 3}
  Caps <- SomeCaps
  MaxChanges = 1
  MaxFaults = 1
INVARIANTS
  TypeOK
  EveryDatabaseAccounted
  FailureIsolated
