SPECIFICATION FairSpec
CONSTANTS
  t1 = t1
  t2 = t2
  NoThread = NoThread
  Threads = {t1, t2}
  TTL = 2
  MaxTime = 5
  MaxVersion = 2
INVARIANTS
  TypeOK
  StalenessBound
PROPERTIES
  StoresApart
  NeverGoesBack
  LockReleased
  ImplementsFreshCredential
