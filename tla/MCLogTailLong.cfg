CONSTANTS
  ReadExisting = TRUE
  Limit = 2
  LongLines <- SecondLineLong
  Environments <- Orderly
  QueueCap = 2
  MaxLines = 3
  MaxFiles = 1
  MaxFails = 0
  MaxEntries = 8
SPECIFICATION Spec
CHECK_DEADLOCK FALSE
PROPERTY LoadsLastLines
