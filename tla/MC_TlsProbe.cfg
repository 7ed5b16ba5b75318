SPECIFICATION FairSpec
CONSTANTS
  t1 = t1
  t2 = t2
  e1 = e1
  Threads = {t1, t2}
  Endpoints = {e1}
  MaxFaults = 2
  MaxReconfigs = 1
INVARIANTS
  TypeOK
  CacheProven
  AutoConnects
PROPERTIES
  CallsEnd
