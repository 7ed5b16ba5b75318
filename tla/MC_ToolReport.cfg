SPECIFICATION Calls
CONSTANTS
  QueryLimit = 3
  Shown = 2
  MaxRows = 4
INVARIANTS
  ReportTypeOK
  NeverUnderstates
  VerdictIsShown
  LimitHidesNothing
