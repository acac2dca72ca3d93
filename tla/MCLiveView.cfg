CONSTANTS
  Sources = {"a", "b"}
  SourceOrder <- TwoSources
  RingCap = 2
  PipeCap = 2
  WireCap = 2
  MaxLogs = 2
  MaxTime = 3
  MaxDrops = 1
  MaxRestarts = 1
SPECIFICATION Spec
INVARIANT TypeOK
INVARIANT BufferIsNewest
INVARIANT NewestFirst
INVARIANT WatermarkCovers
 
