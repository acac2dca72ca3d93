CONSTANTS
  ReadExisting = TRUE
  Limit = 2
  LongLines <- NoLongLines
  Environments <- AllEnvironments
  QueueCap = 4
  MaxLines = 3
  MaxFiles = 3
  MaxFails = 1
  MaxEntries = 12
SPECIFICATION FairSpec
CHECK_DEADLOCK FALSE
INVARIANT TypeOK
INVARIANT NothingLost
PROPERTY EventuallyShown
PROPERTY FollowsRotation
INVARIANT OnceInOrder
