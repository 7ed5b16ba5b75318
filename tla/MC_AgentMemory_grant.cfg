SPECIFICATION Spec
CONSTANTS
  a = a
  b = b
  d = d
  reader = reader
  writer = writer
  notes = notes
  logs = logs
  domain = domain
  Callers = {a, b}
  Principals = {reader, writer}
  Collections = {notes, logs}
  Managed = {}
  Role <- ApartRole
  Target <- ApartTarget
  Admitted = {}
  MaxFaults = 1
  MaxEdits = 0
INVARIANTS
  GrantsThisCollection
