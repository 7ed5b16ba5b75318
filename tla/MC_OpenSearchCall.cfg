SPECIFICATION FairSpec
CONSTANTS
  NoLimit = NoLimit
  Limits <- SmallLimits
  ChunkSize = 2
  MaxBody = 7
  MaxRetries = 2
INVARIANTS
  TypeOK
  ResultWithinLimit
  RepeatedOnlyWhenLost
  ClientReleased
  GoodAnswerKept
PROPERTIES
  CallEnds
