CONSTANTS
  ReadExisting = TRUE
  Limit = 2
  LongLines <- NoLongLines
  Environments <- Overflowing
  QueueCap = 1
  MaxLines = 3
  MaxFiles = 2
  MaxFails = 0
  MaxEntries = 8
SPECIFICATION FairSpec
CHECK_DEADLOCK FALSE
PROPERTY KeepsWatching
