CONSTANTS
  N = 2
  Configs <- TwoConfigs
  DefaultSize = 2
  SubCap = 2
  HubCap = 1
  PageSize = 1
  Times <- OneOrAll
  MaxLines = 3
SPECIFICATION Spec
CHECK_DEADLOCK FALSE
INVARIANT TypeOK
PROPERTY StreamInOrder
PROPERTY NoGapWhileServing
INVARIANT PagesPartition
INVARIANT PagingSkipsNothing
