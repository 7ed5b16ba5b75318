SPECIFICATION Spec
CONSTANTS
  MaxFailovers = 0
  MaxFaults = 0
INVARIANTS
  MissingFunctionDegrades
