CONSTANTS
  Sources = {"a"}
  SourceOrder <- OneSource
  RingCap = 3
  PipeCap = 2
  WireCap = 2
  MaxLogs = 3
  MaxTime = 3
  MaxDrops = 0
  MaxRestarts = 0
SPECIFICATION Spec
PROPERTY NoneMissedDuringSync
