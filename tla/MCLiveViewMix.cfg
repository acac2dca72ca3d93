CONSTANTS
  Sources = {"a", "b"}
  SourceOrder <- TwoSources
  RingCap = 3
  PipeCap = 3
  WireCap = 3
  MaxLogs = 2
  MaxTime = 4
  MaxDrops = 0
  MaxRestarts = 0
SPECIFICATION Spec
PROPERTY KeepsNewerThanAnswer
