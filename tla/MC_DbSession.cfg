SPECIFICATION Spec
CONSTANTS
  MaxFailovers = 2
  MaxFaults = 2
INVARIANTS
  TypeOK
  RaisesForUnasked
  VerdictComplete
  DegradedHasReason
