SPECIFICATION FairSpec
CONSTANTS
  a = a
  b = b
  d = d
  reader = reader
  writer = writer
  notes = notes
  logs = logs
  domain = domain
  Callers = {a, b, d}
  Principals = {reader, writer}
  Collections = {notes, domain}
  Managed = {domain}
  Role <- SharedRole
  Target <- SharedTarget
  Admitted <- SharedAdmitted
  MaxFaults = 1
  MaxEdits = 1
INVARIANTS
  TypeOK
  EnrichedWhenWriting
PROPERTIES
  NoLostGrant
  ListedWhenSaving
